--------------------------- MODULE ActuatorProofs ---------------------------
(***************************************************************************)
(* Theorems about Actuator, for every queue size and every set of events.  *)
(***************************************************************************)
EXTENDS Actuator, TLAPS

-----------------------------------------------------------------------------
(* The tables.                                                             *)

(* A message whose command, if it is BUZZER_ON, has a duration.            *)
Timed(m) == m.cmd = "BUZZER_ON" => m.ms > 0
TimedMessages == {m \in Messages : Timed(m)}

(* What the cases of the switch write are drives.                          *)
LEMMA DriveOfType == \A cmd \in Commands : DriveOf(cmd) \in Drives /\ Undo(cmd) \in Drives
  BY DEF Commands, DriveOf, Undo, Drive, Drives, Outputs

(* The bursts EmergencyTask posts never contain a BUZZER_ON that has no    *)
(* duration.                                                               *)
LEMMA DispatchType == \A e \in EventTypes : Dispatch(e) \in Seq(TimedMessages)
<1> TAKE e \in EventTypes
<1>1. \A cmd \in Commands, ms \in {2000, 3000, 5000, 10000, 500} :
        Msg(cmd, ms) \in TimedMessages
  BY DEF Msg, Messages, Durations, TimedMessages, Timed
<1>2. /\ Msg("LED_ALARM_ON", 0) \in TimedMessages
      /\ Msg("LED_NORMAL_OFF", 0) \in TimedMessages
  BY DEF Msg, Messages, Commands, Durations, TimedMessages, Timed
<1>3. Latch \in Seq(TimedMessages)
  BY <1>2 DEF Latch
<1>4. \A cmd1, cmd2 \in Commands, ms1, ms2 \in {2000, 3000, 5000, 10000, 500} :
        /\ <<Msg(cmd1, ms1)>> \in Seq(TimedMessages)
        /\ <<Msg(cmd1, ms1), Msg(cmd2, ms2)>> \in Seq(TimedMessages)
  BY <1>1
<1>5. {"BUZZER_ON", "FAN_ON", "LED_ALARM_ON"} \subseteq Commands
  BY DEF Commands
<1>6. CASE e = "security"
  <2>1. <<Msg("BUZZER_ON", 5000)>> \in Seq(TimedMessages)
    BY <1>4, <1>5
  <2> QED
    BY <1>3, <1>6, <2>1 DEF Dispatch
<1>7. CASE e \in {"fire", "gas_leak"}
  <2>1. <<Msg("BUZZER_ON", 10000), Msg("FAN_ON", 10000)>> \in Seq(TimedMessages)
    BY <1>4, <1>5
  <2> QED
    BY <1>3, <1>7, <2>1 DEF Dispatch
<1>8. CASE e \in {"door", "overheat", "noise", "vibration"}
  BY <1>4, <1>5, <1>8 DEF Dispatch
<1> QED
  BY <1>6, <1>7, <1>8 DEF EventTypes

-----------------------------------------------------------------------------
(* Type correctness, with the stronger type of the messages on their way.  *)
TypeInv ==
  /\ TypeOK
  /\ queue \in Seq(TimedMessages) /\ burst \in Seq(TimedMessages)
  /\ Timed(actuator.msg)

LEMMA TypeInit == Init => TypeInv
<1> SUFFICES ASSUME Init PROVE TypeInv
  OBVIOUS
<1>1. AtRest \in [at : Places, msg : Messages, job : {"command", "undo", "expire"},
                 drive : Drives]
  BY DEF AtRest, Places, Messages, Msg, Commands, Drive, Drives
<1>2. Timed(AtRest.msg)
  BY DEF AtRest, Msg, Timed
<1>3. gpio \in [Outputs -> {0, 1}]
  BY DEF Init, Levels, Active
<1>4. queue \in Seq(TimedMessages) /\ burst \in Seq(TimedMessages)
      /\ queue \in Seq(Messages) /\ burst \in Seq(Messages) /\ Len(queue) <= QueueSize
  BY QueueAssumption DEF Init
<1> QED
  BY <1>1, <1>2, <1>3, <1>4 DEF Init, TypeInv, TypeOK, Outputs, None

LEMMA TypeStep == TypeInv /\ [Next]_vars => TypeInv'
<1> SUFFICES ASSUME TypeInv, [Next]_vars PROVE TypeInv'
  OBVIOUS
<1> USE QueueAssumption DEF TypeInv, TypeOK, None, shared
<1>0. TimedMessages \subseteq Messages
  BY DEF TimedMessages
<1>1. AtRest \in [at : Places, msg : Messages, job : {"command", "undo", "expire"},
                 drive : Drives] /\ Timed(AtRest.msg)
  BY DEF AtRest, Places, Messages, Msg, Commands, Drive, Drives, Timed
<1>2. AfterWrites \in Places
  BY DEF AfterWrites, Places
<1>3. ASSUME NEW m \in TimedMessages, Send(m)
      PROVE  queue' \in Seq(TimedMessages) /\ queue' \in Seq(Messages)
             /\ Len(queue') <= QueueSize
  <2>1. CASE Len(queue) < QueueSize /\ queue' = Append(queue, m)
    <3>1. Len(queue') = Len(queue) + 1
      BY <2>1
    <3> QED
      BY <1>0, <2>1, <3>1
  <2>2. CASE Len(queue) = QueueSize /\ UNCHANGED queue
    BY <2>2
  <2> QED
    BY <1>3, <2>1, <2>2 DEF Send
<1>4. CASE Receive
  <2>1. /\ Head(queue) \in TimedMessages
        /\ queue' \in Seq(TimedMessages) /\ queue' \in Seq(Messages)
        /\ Len(queue') <= QueueSize
    BY <1>4, <1>0 DEF Receive
  <2>2. /\ actuator' \in [at : Places, msg : Messages,
                         job : {"command", "undo", "expire"}, drive : Drives]
        /\ actuator'.msg = Head(queue)
    BY <1>4, <1>0, <2>1 DEF Receive, Places
  <2> QED
    BY <1>4, <2>1, <2>2 DEF Receive, TimedMessages
<1>5. CASE ReceiveTimeout
  BY <1>5 DEF ReceiveTimeout, At, Goto, Places
<1>6. CASE Lock
  <2>1. DriveOf(actuator.msg.cmd) \in Drives
    BY DriveOfType DEF Messages
  <2> QED
    BY <1>6, <2>1 DEF Lock, Take, Execute, Places
<1>7. CASE WritePins
  BY <1>7 DEF WritePins, Applied, Active, Goto, Places
<1>8. CASE WriteFields
  BY <1>8, <1>2 DEF WriteFields, Goto, Places, Drives
<1>9. CASE ClearManual
  <2>1. manual' \in BOOLEAN
    BY <1>9, Zenon DEF ClearManual
  <2>2. actuator' \in [at : Places, msg : Messages,
                      job : {"command", "undo", "expire"}, drive : Drives]
        /\ actuator'.msg = actuator.msg
    BY <1>9 DEF ClearManual, Goto, Places
  <2> QED
    BY <1>9, <2>1, <2>2 DEF ClearManual
<1>10. CASE ClearSince
  BY <1>10, <1>2 DEF ClearSince, Goto
<1>11. CASE Pause
  BY <1>11 DEF Pause, Give, Goto, Places
<1>12. CASE Resume
  <2>1. Undo(actuator.msg.cmd) \in Drives
    BY DriveOfType DEF Messages
  <2> QED
    <3>1. actuator' = [actuator EXCEPT !.at = "give"]
          \/ actuator' = [actuator EXCEPT !.at = "pins", !.job = "undo",
                                        !.drive = Undo(actuator.msg.cmd)]
      BY <1>12 DEF Resume, Execute, Goto
    <3>2. actuator' \in [at : Places, msg : Messages,
                        job : {"command", "undo", "expire"}, drive : Drives]
          /\ actuator'.msg = actuator.msg
      BY <2>1, <3>1 DEF Places
    <3> QED
      BY <1>12, <3>2 DEF Resume, Take
<1>13. CASE Finish
  BY <1>13, <1>1 DEF Finish, Give, Places
<1>14. CASE SnapLock
  BY <1>14 DEF SnapLock, Take, Goto, Places
<1>15. CASE SnapGive
  BY <1>15 DEF SnapGive, Give, Goto, Places
<1>16. CASE Publish
  BY <1>16 DEF Publish, Goto, Places
<1>17. CASE CheckLock
  BY <1>17 DEF CheckLock, Take, Goto, Places
<1>18. CASE Check
  <2>1. DriveOf("FAN_OFF") \in Drives
    BY DriveOfType DEF Commands
  <2> QED
    <3>1. actuator' = [actuator EXCEPT !.at = "check_give"]
          \/ actuator' = [actuator EXCEPT !.at = "pins", !.job = "expire",
                                        !.drive = DriveOf("FAN_OFF")]
      BY <1>18 DEF Check, Execute, Goto
    <3>2. actuator' \in [at : Places, msg : Messages,
                        job : {"command", "undo", "expire"}, drive : Drives]
          /\ actuator'.msg = actuator.msg
      BY <2>1, <3>1 DEF Places
    <3> QED
      BY <1>18, <3>2 DEF Check
<1>19. CASE CheckGive
  BY <1>19, <1>1 DEF CheckGive, Give
<1>20. ASSUME NEW event \in Events, BeginDispatch(event) PROVE TypeInv'
  <2>1. burst' \in Seq(TimedMessages) /\ burst' \in Seq(Messages)
    BY <1>20, <1>0, DispatchType, EventsAssumption DEF BeginDispatch
  <2> QED
    BY <1>20, <2>1 DEF BeginDispatch
<1>21. CASE Post
  <2>1. Head(burst) \in TimedMessages /\ burst' \in Seq(TimedMessages)
        /\ burst' \in Seq(Messages)
    BY <1>21, <1>0 DEF Post
  <2> QED
    BY <1>21, <1>3, <2>1 DEF Post
<1>22. CASE Poll
  BY <1>22 DEF Poll, MonitorGoto, Button1, Button2
<1>23. CASE BuzzerPulse
  <2>1. Msg("BUZZER_ON", 500) \in TimedMessages
    BY DEF Msg, TimedMessages, Messages, Commands, Durations, Timed
  <2> QED
    BY <1>23, <1>3, <2>1 DEF BuzzerPulse, MonitorGoto, Button1, Button2
<1>24. CASE MonitorTake
  BY <1>24 DEF MonitorTake, TimedTake, Take, MonitorGoto
<1>25. CASE ReadFan
  BY <1>25 DEF ReadFan
<1>26. CASE MarkManual
  BY <1>26 DEF MarkManual, MonitorGoto
<1>27. CASE StampManual
  BY <1>27 DEF StampManual, MonitorGoto
<1>28. CASE MonitorGive
  BY <1>28 DEF MonitorGive, Give, MonitorGoto
<1>29. CASE ToggleFan
  <2>1. Msg("FAN_ON", 0) \in TimedMessages /\ Msg("FAN_OFF", 0) \in TimedMessages
    BY DEF Msg, TimedMessages, Messages, Commands, Durations, Timed
  <2> QED
    BY <1>29, <1>3, <2>1 DEF ToggleFan
<1>30. CASE SensorTake
  <2>1. slip' \in BOOLEAN
    BY <1>30, Zenon DEF SensorTake, TimedTake
  <2>2. holder' \in {None, "actuator", "monitor", "sensor"}
    BY <1>30 DEF SensorTake, TimedTake, Take
  <2> QED
    BY <1>30, <2>1, <2>2 DEF SensorTake
<1>31. CASE SensorCopyGive
  BY <1>31 DEF SensorCopyGive, Give
<1>32. CASE Elapse
  BY <1>32 DEF Elapse
<1>33. CASE Restart
  <2>1. gpio' \in [Outputs -> {0, 1}]
    BY <1>33 DEF Restart, Levels, Active
  <2>2. queue' \in Seq(TimedMessages) /\ burst' \in Seq(TimedMessages)
        /\ queue' \in Seq(Messages) /\ burst' \in Seq(Messages)
        /\ Len(queue') <= QueueSize
    BY <1>33 DEF Restart
  <2> QED
    BY <1>33, <1>1, <2>1, <2>2 DEF Restart, Outputs
<1>34. CASE UNCHANGED vars
  BY <1>34 DEF vars
<1> QED
  BY <1>4, <1>5, <1>6, <1>7, <1>8, <1>9, <1>10, <1>11, <1>12, <1>13, <1>14, <1>15,
     <1>16, <1>17, <1>18, <1>19, <1>20, <1>21, <1>22, <1>23, <1>24, <1>25, <1>26,
     <1>27, <1>28, <1>29, <1>30, <1>31, <1>32, <1>33, <1>34
     DEF Next, ActuatorStep, MonitorStep

LEMMA TypeInvariance == Spec => []TypeInv
  BY TypeInit, TypeStep, PTL DEF Spec

(* Every state of the program has the types of TypeOK; in particular       *)
(* xActuatorQueue never holds more than QueueSize commands.                *)
THEOREM TypeCorrect == Spec => []TypeOK
  BY TypeInvariance, PTL DEF TypeInv

-----------------------------------------------------------------------------
(* xActuatorMutex.                                                         *)

LEMMA OwnStep == TypeInv /\ ActuatorOwnsItsSections /\ [Next]_vars
                   => ActuatorOwnsItsSections'
<1> SUFFICES ASSUME TypeInv, ActuatorOwnsItsSections, [Next]_vars
             PROVE  ActuatorOwnsItsSections'
  OBVIOUS
<1> USE DEF ActuatorOwnsItsSections, Holding, None
<1>0. actuator \in [at : Places, msg : Messages, job : {"command", "undo", "expire"},
                   drive : Drives]
  BY DEF TypeInv, TypeOK
<1>1. ASSUME ActuatorStep PROVE ActuatorOwnsItsSections'
  <2> USE DEF At, Goto, Take, Free, Give, Execute, AtRest
  <2>1. CASE Receive \/ ReceiveTimeout
    BY <2>1, <1>0 DEF Receive, ReceiveTimeout
  <2>2. CASE Lock \/ Resume \/ SnapLock \/ CheckLock
    BY <2>2, <1>0 DEF Lock, Resume, SnapLock, CheckLock
  <2>3. CASE WritePins \/ ClearManual
    BY <2>3, <1>0 DEF WritePins, ClearManual
  <2>4. CASE WriteFields \/ ClearSince
    BY <2>4, <1>0 DEF WriteFields, ClearSince, AfterWrites
  <2>5. CASE Pause \/ SnapGive
    BY <2>5, <1>0 DEF Pause, SnapGive
  <2>8. CASE Finish \/ CheckGive
    <3>1. holder' # "actuator"
      BY <2>8 DEF Finish, CheckGive
    <3>2. CASE Finish
      <4>1. actuator' = [AtRest EXCEPT !.at = "snap_lock"]
        BY <3>2 DEF Finish
      <4> QED
        BY <3>1, <4>1
    <3>3. CASE CheckGive
      <4>1. actuator' = AtRest
        BY <3>3 DEF CheckGive
      <4> QED
        BY <3>1, <4>1
    <3> QED
      BY <2>8, <3>2, <3>3
  <2>6. CASE Publish
    BY <2>6, <1>0 DEF Publish
  <2>7. CASE Check
    BY <2>7, <1>0 DEF Check
  <2> QED
    BY <1>1, <2>1, <2>2, <2>3, <2>4, <2>5, <2>6, <2>7, <2>8 DEF ActuatorStep
<1>2. ASSUME \/ \E event \in Events : BeginDispatch(event)
             \/ Post \/ Poll \/ BuzzerPulse \/ ReadFan \/ MarkManual
             \/ StampManual \/ ToggleFan \/ Elapse \/ UNCHANGED vars
      PROVE  ActuatorOwnsItsSections'
  BY <1>2 DEF BeginDispatch, Post, Poll, BuzzerPulse, ReadFan, MarkManual,
              StampManual, ToggleFan, Elapse, vars
<1>3. ASSUME MonitorTake \/ MonitorGive PROVE ActuatorOwnsItsSections'
  BY <1>3 DEF MonitorTake, MonitorGive, TimedTake, Take, Free, Give
<1>4. ASSUME SensorTake \/ SensorCopyGive PROVE ActuatorOwnsItsSections'
  BY <1>4 DEF SensorTake, SensorCopyGive, TimedTake, Take, Free, Give
<1>5. ASSUME Restart PROVE ActuatorOwnsItsSections'
  BY <1>5 DEF Restart, AtRest
<1> QED
  BY <1>1, <1>2, <1>3, <1>4, <1>5 DEF Next, MonitorStep

(* Whatever the tasks with a timed take do, ActuatorTask holds the mutex   *)
(* in its critical sections: its own gives never fail the assertion.       *)
THEOREM MutexOwnership == Spec => []ActuatorOwnsItsSections
<1>1. Init => ActuatorOwnsItsSections
  BY DEF Init, ActuatorOwnsItsSections, AtRest, Holding, None
<1> QED
  BY <1>1, OwnStep, TypeInvariance, PTL DEF Spec

-----------------------------------------------------------------------------
(* The pins and g_actuator.                                                *)

(* Between the two writes of a drive the fields lag behind the pins; at    *)
(* every other place they agree.                                           *)
PinsInv ==
  /\ actuator.at # "fields" =>
       \A o \in Outputs : (o \in on) <=> (gpio[o] = Active(o))
  /\ actuator.at = "fields" =>
       \A o \in Outputs : (o \in (on \ actuator.drive.off) \cup actuator.drive.on)
                            <=> (gpio[o] = Active(o))

LEMMA PinsStep == TypeInv /\ PinsInv /\ [Next]_vars => PinsInv'
<1> SUFFICES ASSUME TypeInv, PinsInv, [Next]_vars PROVE PinsInv'
  OBVIOUS
<1>0. /\ actuator \in [at : Places, msg : Messages, job : {"command", "undo", "expire"},
                       drive : Drives]
      /\ gpio \in [Outputs -> {0, 1}]
  BY DEF TypeInv, TypeOK
<1>1. \A o \in Outputs : Active(o) \in {0, 1} /\ 1 - Active(o) \in {0, 1}
                         /\ 1 - Active(o) # Active(o)
  BY DEF Active
<1>2. CASE WritePins
  <2>1. actuator.at = "pins" /\ actuator'.at = "fields" /\ actuator'.drive = actuator.drive
        /\ on' = on
    BY <1>0, <1>2 DEF WritePins, At, Goto, shared
  <2>2. gpio' = [o \in Outputs |->
                   IF o \in actuator.drive.on THEN Active(o)
                   ELSE IF o \in actuator.drive.off THEN 1 - Active(o) ELSE gpio[o]]
    BY <1>2 DEF WritePins, Applied
  <2>3. \A o \in Outputs : (o \in (on \ actuator.drive.off) \cup actuator.drive.on)
                            <=> (gpio'[o] = Active(o))
    BY <1>1, <2>1, <2>2 DEF PinsInv
  <2> QED
    BY <2>1, <2>3 DEF PinsInv
<1>3. CASE WriteFields
  <2>1. actuator.at = "fields" /\ gpio' = gpio
        /\ on' = (on \ actuator.drive.off) \cup actuator.drive.on
    BY <1>3 DEF WriteFields, At
  <2>2. actuator'.at # "fields"
    BY <1>0, <1>3 DEF WriteFields, Goto, AfterWrites
  <2> QED
    BY <2>1, <2>2 DEF PinsInv
<1>4. ASSUME \/ Receive \/ ReceiveTimeout \/ Lock \/ ClearManual \/ ClearSince
             \/ Pause \/ Resume \/ Finish \/ SnapLock \/ SnapGive \/ Publish
             \/ CheckLock \/ Check \/ CheckGive
      PROVE  PinsInv'
  <2>1. actuator.at # "fields"
    BY <1>4 DEF Receive, ReceiveTimeout, Lock, ClearManual, ClearSince, Pause, Resume,
       Finish, SnapLock, SnapGive, Publish, CheckLock, Check, CheckGive, At
  <2>2. on' = on /\ gpio' = gpio
    BY <1>4 DEF Receive, ReceiveTimeout, Lock, ClearManual, ClearSince, Pause, Resume,
       Finish, SnapLock, SnapGive, Publish, CheckLock, Check, CheckGive, shared
  <2>3. ASSUME Finish \/ CheckGive PROVE actuator'.at # "fields"
    <3>1. CASE Finish
      BY <3>1 DEF Finish, AtRest
    <3>2. CASE CheckGive
      BY <3>2 DEF CheckGive, AtRest
    <3> QED
      BY <2>3, <3>1, <3>2
  <2>4. ASSUME Receive \/ ReceiveTimeout \/ Lock \/ ClearManual \/ ClearSince
        PROVE  actuator'.at # "fields"
    BY <2>4, <1>0 DEF Receive, ReceiveTimeout, Lock, ClearManual, ClearSince, Goto,
       Execute, AfterWrites
  <2>5. ASSUME Pause \/ Resume \/ SnapLock \/ SnapGive \/ Publish \/ CheckLock \/ Check
        PROVE  actuator'.at # "fields"
    BY <2>5, <1>0 DEF Pause, Resume, SnapLock, SnapGive, Publish, CheckLock, Check,
       Goto, Execute
  <2>6. actuator'.at # "fields"
    BY <1>4, <2>3, <2>4, <2>5
  <2> QED
    BY <2>1, <2>2, <2>6 DEF PinsInv
<1>5. ASSUME \/ \E event \in Events : BeginDispatch(event)
             \/ Post \/ Poll \/ MonitorStep \/ SensorTake \/ SensorCopyGive \/ Elapse
             \/ UNCHANGED vars
      PROVE  PinsInv'
  <2>1. UNCHANGED <<on, gpio, actuator>>
    BY <1>5 DEF BeginDispatch, Post, Poll, MonitorStep, BuzzerPulse, MonitorTake, ReadFan,
       MarkManual, StampManual, MonitorGive, ToggleFan, SensorTake, SensorCopyGive, Elapse,
       vars, shared
  <2> QED
    BY <2>1 DEF PinsInv
<1>6. CASE Restart
  BY <1>6 DEF Restart, PinsInv, AtRest, Levels, Active
<1> QED
  BY <1>2, <1>3, <1>4, <1>5, <1>6 DEF Next, ActuatorStep

(* Outside the critical sections of ActuatorTask, g_actuator says what the *)
(* pins do.                                                                *)
THEOREM OutputsAgree == Spec => []OutputsMatchPins
<1>1. Init => PinsInv
  BY DEF Init, PinsInv, AtRest, Levels, Active
<1>2. PinsInv /\ ActuatorOwnsItsSections => OutputsMatchPins
  BY DEF PinsInv, ActuatorOwnsItsSections, OutputsMatchPins, Holding
<1> QED
  BY <1>1, <1>2, PinsStep, TypeInvariance, MutexOwnership, PTL DEF Spec

-----------------------------------------------------------------------------
(* The siren.                                                              *)

Sounding == gpio["buzzer"] = Active("buzzer")

(* The drive of a job is the one its command asks for, and where the       *)
(* buzzer is on ActuatorTask is bound to switch it off.                    *)
BuzzerInv ==
  /\ actuator.at \in {"pins", "fields"} =>
       actuator.drive = CASE actuator.job = "command" -> DriveOf(actuator.msg.cmd)
                          [] actuator.job = "undo"    -> Undo(actuator.msg.cmd)
                          [] actuator.job = "expire"  -> DriveOf("FAN_OFF")
  /\ Sounding =>
       /\ actuator.msg.cmd = "BUZZER_ON"
       /\ \/ actuator.at = "pins" /\ actuator.job = "undo"
          \/ actuator.at = "fields" /\ actuator.job = "command"
          \/ actuator.at \in {"pause", "delay"}

(* Which commands have to do with the buzzer.                              *)
LEMMA BuzzerDrives ==
  /\ DriveOf("BUZZER_ON").off = {} /\ ~DriveOf("BUZZER_ON").release
  /\ "buzzer" \in Undo("BUZZER_ON").off /\ "buzzer" \notin Undo("BUZZER_ON").on
  /\ \A cmd \in Commands : /\ "buzzer" \in DriveOf(cmd).on => cmd = "BUZZER_ON"
                           /\ "buzzer" \notin Undo(cmd).on
  BY DEF DriveOf, Undo, Drive, Commands

LEMMA BuzzerStep == TypeInv /\ BuzzerInv /\ [Next]_vars => BuzzerInv'
<1> SUFFICES ASSUME TypeInv, BuzzerInv, [Next]_vars PROVE BuzzerInv'
  OBVIOUS
<1>0. /\ actuator \in [at : Places, msg : Messages, job : {"command", "undo", "expire"},
                       drive : Drives]
      /\ actuator.msg.cmd \in Commands /\ actuator.msg.ms \in Durations \cup {0}
      /\ Timed(actuator.msg)
      /\ gpio \in [Outputs -> {0, 1}]
  BY DEF TypeInv, TypeOK, Messages
<1>1. Active("buzzer") = 1 /\ "buzzer" \in Outputs /\ "FAN_OFF" \in Commands
  BY DEF Active, Outputs, Commands
<1>2. CASE Receive \/ ReceiveTimeout
  <2>1. actuator.at = "receive" /\ gpio' = gpio /\ actuator'.at \notin {"pins", "fields"}
    BY <1>0, <1>2 DEF Receive, ReceiveTimeout, At, Goto
  <2> QED
    BY <2>1 DEF BuzzerInv, Sounding
<1>3. CASE Lock
  <2>1. /\ actuator.at = "lock" /\ gpio' = gpio
        /\ actuator' = [actuator EXCEPT !.at = "pins", !.job = "command",
                                      !.drive = DriveOf(actuator.msg.cmd)]
    BY <1>3 DEF Lock, At, Execute
  <2>2. /\ actuator'.job = "command" /\ actuator'.drive = DriveOf(actuator'.msg.cmd)
    BY <1>0, <2>1
  <2> QED
    BY <2>1, <2>2 DEF BuzzerInv, Sounding
<1>4. CASE WritePins
  <2>1. /\ actuator.at = "pins" /\ actuator'.at = "fields"
        /\ actuator'.job = actuator.job /\ actuator'.drive = actuator.drive
        /\ actuator'.msg = actuator.msg
    BY <1>0, <1>4 DEF WritePins, At, Goto
  <2>2. gpio'["buzzer"] = IF "buzzer" \in actuator.drive.on THEN 1
                          ELSE IF "buzzer" \in actuator.drive.off THEN 0
                          ELSE gpio["buzzer"]
    BY <1>1, <1>4 DEF WritePins, Applied
  <2>3. CASE actuator.job = "command"
    <3>1. actuator.drive = DriveOf(actuator.msg.cmd)
      BY <2>1, <2>3 DEF BuzzerInv
    <3>2. ~Sounding
      BY <2>1, <2>3 DEF BuzzerInv
    <3>3. Sounding' => actuator.msg.cmd = "BUZZER_ON"
      BY <1>0, <1>1, <2>2, <3>1, <3>2, BuzzerDrives DEF Sounding
    <3> QED
      BY <2>1, <2>3, <3>1, <3>3 DEF BuzzerInv
  <2>4. CASE actuator.job = "undo"
    <3>1. actuator.drive = Undo(actuator.msg.cmd)
      BY <2>1, <2>4 DEF BuzzerInv
    <3>2. "buzzer" \notin actuator.drive.on
      BY <1>0, <3>1, BuzzerDrives
    <3>3. ~Sounding'
      BY <1>1, <2>2, <3>1, <3>2, BuzzerDrives DEF Sounding, BuzzerInv
    <3> QED
      BY <2>1, <2>4, <3>1, <3>3 DEF BuzzerInv
  <2>5. CASE actuator.job = "expire"
    <3>1. actuator.drive = DriveOf("FAN_OFF")
      BY <2>1, <2>5 DEF BuzzerInv
    <3>2. ~Sounding
      BY <2>1, <2>5 DEF BuzzerInv
    <3>3. ~Sounding'
      BY <1>1, <2>2, <3>1, <3>2, BuzzerDrives DEF Sounding
    <3> QED
      BY <2>1, <2>5, <3>1, <3>3 DEF BuzzerInv
  <2> QED
    BY <1>0, <2>3, <2>4, <2>5
<1>5. CASE WriteFields
  <2>1. /\ actuator.at = "fields" /\ gpio' = gpio /\ actuator'.msg = actuator.msg
        /\ actuator'.at = IF actuator.drive.release THEN "manual" ELSE AfterWrites
    BY <1>0, <1>5 DEF WriteFields, At, Goto
  <2>2. AfterWrites \notin {"pins", "fields"}
    BY <1>0 DEF AfterWrites
  <2>3. ASSUME Sounding PROVE actuator'.at = "pause"
    <3>1. actuator.msg.cmd = "BUZZER_ON" /\ actuator.job = "command"
      BY <2>1, <2>3 DEF BuzzerInv
    <3>2. ~actuator.drive.release /\ actuator.msg.ms > 0
      BY <1>0, <2>1, <3>1, BuzzerDrives DEF BuzzerInv, Timed
    <3> QED
      BY <2>1, <3>1, <3>2 DEF AfterWrites
  <2> QED
    BY <2>1, <2>2, <2>3 DEF BuzzerInv, Sounding
<1>6. CASE ClearManual \/ ClearSince
  <2>1. /\ actuator.at \in {"manual", "since"} /\ gpio' = gpio
        /\ actuator'.at \notin {"pins", "fields"}
    BY <1>0, <1>6 DEF ClearManual, ClearSince, At, Goto, AfterWrites, shared
  <2> QED
    BY <2>1 DEF BuzzerInv, Sounding
<1>7. CASE Pause
  <2>1. /\ actuator.at = "pause" /\ gpio' = gpio /\ actuator'.at = "delay"
        /\ actuator'.msg = actuator.msg
    BY <1>0, <1>7 DEF Pause, At, Goto
  <2> QED
    BY <2>1 DEF BuzzerInv, Sounding
<1>8. CASE Resume
  <2>0. actuator.at = "delay" /\ gpio' = gpio
    BY <1>8 DEF Resume, At
  <2>1. CASE actuator.msg.cmd = "FAN_ON" /\ manual
    <3>1. ~Sounding /\ actuator'.at = "give"
      BY <1>0, <1>8, <2>0, <2>1 DEF BuzzerInv, Resume, Goto
    <3> QED
      BY <2>0, <3>1 DEF BuzzerInv, Sounding
  <2>2. CASE ~(actuator.msg.cmd = "FAN_ON" /\ manual)
    <3>1. actuator' = [actuator EXCEPT !.at = "pins", !.job = "undo",
                                       !.drive = Undo(actuator.msg.cmd)]
      BY <1>8, <2>2 DEF Resume, Execute
    <3>2. /\ actuator'.at = "pins" /\ actuator'.job = "undo"
          /\ actuator'.msg = actuator.msg /\ actuator'.drive = Undo(actuator'.msg.cmd)
      BY <1>0, <3>1
    <3> QED
      BY <2>0, <3>2 DEF BuzzerInv, Sounding
  <2> QED
    BY <2>1, <2>2
<1>9. CASE Check
  <2>1. actuator.at = "check" /\ gpio' = gpio /\ ~Sounding
    BY <1>9 DEF Check, At, BuzzerInv
  <2>2. \/ actuator' = [actuator EXCEPT !.at = "check_give"]
        \/ actuator' = [actuator EXCEPT !.at = "pins", !.job = "expire",
                                       !.drive = DriveOf("FAN_OFF")]
    BY <1>9 DEF Check, Execute, Goto
  <2>3. actuator'.at \in {"pins", "fields"} =>
          actuator'.job = "expire" /\ actuator'.drive = DriveOf("FAN_OFF")
    BY <1>0, <2>2
  <2> QED
    BY <2>1, <2>3 DEF BuzzerInv, Sounding
<1>10. ASSUME \/ Finish \/ SnapLock \/ SnapGive \/ Publish \/ CheckLock \/ CheckGive
       PROVE  BuzzerInv'
  <2>1. /\ actuator.at \notin {"pins", "fields", "pause", "delay"} /\ gpio' = gpio
    BY <1>10 DEF Finish, SnapLock, SnapGive, Publish, CheckLock, CheckGive, At
  <2>2. ASSUME Finish \/ CheckGive PROVE actuator'.at \notin {"pins", "fields"}
    <3>1. CASE Finish
      BY <3>1 DEF Finish, AtRest
    <3>2. CASE CheckGive
      BY <3>2 DEF CheckGive, AtRest
    <3> QED
      BY <2>2, <3>1, <3>2
  <2>3. ASSUME SnapLock \/ SnapGive \/ Publish \/ CheckLock
        PROVE  actuator'.at \notin {"pins", "fields"}
    BY <1>0, <2>3 DEF SnapLock, SnapGive, Publish, CheckLock, Goto
  <2>4. actuator'.at \notin {"pins", "fields"}
    BY <1>10, <2>2, <2>3
  <2> QED
    BY <2>1, <2>4 DEF BuzzerInv, Sounding
<1>11. ASSUME \/ \E event \in Events : BeginDispatch(event)
              \/ Post \/ Poll \/ MonitorStep \/ SensorTake \/ SensorCopyGive \/ Elapse
              \/ UNCHANGED vars
       PROVE  BuzzerInv'
  <2>1. UNCHANGED <<gpio, actuator>>
    BY <1>11 DEF BeginDispatch, Post, Poll, MonitorStep, BuzzerPulse, MonitorTake, ReadFan,
       MarkManual, StampManual, MonitorGive, ToggleFan, SensorTake, SensorCopyGive, Elapse,
       vars
  <2> QED
    BY <2>1 DEF BuzzerInv, Sounding
<1>12. CASE Restart
  BY <1>12 DEF Restart, BuzzerInv, AtRest, Sounding, Levels, Active, Outputs
<1> QED
  BY <1>2, <1>3, <1>4, <1>5, <1>6, <1>7, <1>8, <1>9, <1>10, <1>11, <1>12
     DEF Next, ActuatorStep

(* The siren sounds only while ActuatorTask executes a timed BUZZER_ON     *)
(* command, whatever is posted, dropped or pressed meanwhile.              *)
THEOREM SirenIsNeverLatched == Spec => []BuzzerOnlyInPulse
<1>1. Init => BuzzerInv
  BY DEF Init, BuzzerInv, AtRest, Sounding, Levels, Active, Outputs
<1>2. TypeInv /\ BuzzerInv => BuzzerOnlyInPulse
  BY DEF TypeInv, BuzzerInv, BuzzerOnlyInPulse, Sounding, Timed
<1> QED
  BY <1>1, <1>2, BuzzerStep, TypeInvariance, PTL DEF Spec

-----------------------------------------------------------------------------
(* The manual override of the fan, as long as no timed take has failed.    *)

(* MonitoringTask then holds the mutex wherever it touches g_actuator, and *)
(* fan_manual and fan_manual_since disagree only between the two writes of *)
(* an update.                                                              *)
MonitorSection == {"read", "give1", "mark", "stamp", "give2"}
DeadlineInv ==
  ~slip =>
    /\ monitor.at \in MonitorSection => holder = "monitor"
    /\ monitor.at = "stamp" => manual = TRUE
    /\ actuator.at = "since" => manual = FALSE
    /\ monitor.at # "stamp" /\ actuator.at # "since" =>
         (manual = TRUE <=> since # "never")

LEMMA DeadlineStep == TypeInv /\ ActuatorOwnsItsSections /\ DeadlineInv /\ [Next]_vars
                        => DeadlineInv'
<1> SUFFICES ASSUME TypeInv, ActuatorOwnsItsSections, DeadlineInv, [Next]_vars
             PROVE  DeadlineInv'
  OBVIOUS
<1> USE DEF MonitorSection
<1>0. /\ actuator \in [at : Places, msg : Messages, job : {"command", "undo", "expire"},
                       drive : Drives]
      /\ monitor \in [at : {"idle", "btn1", "take1", "read", "give1", "take2", "mark",
                            "stamp", "give2", "fan_on", "fan_off"}, fan_now : BOOLEAN]
      /\ manual \in BOOLEAN /\ since \in {"never", "recent", "expired"}
  BY DEF TypeInv, TypeOK
<1>1. actuator.at \in {"manual", "since"} => holder = "actuator"
  BY DEF ActuatorOwnsItsSections, Holding
<1>2. ASSUME actuator.at # "manual", actuator.at # "since", actuator'.at # "since",
             UNCHANGED <<manual, since, monitor, slip>>,
             holder = "monitor" => holder' = "monitor"
      PROVE  DeadlineInv'
  BY <1>2 DEF DeadlineInv
<1>3. CASE ClearManual
  <2>1. /\ actuator.at = "manual" /\ actuator'.at = "since" /\ manual' = FALSE
        /\ UNCHANGED <<holder, monitor, slip>>
    BY <1>0, <1>3 DEF ClearManual, At, Goto
  <2> QED
    BY <1>1, <2>1 DEF DeadlineInv
<1>4. CASE ClearSince
  <2>1. /\ actuator.at = "since" /\ actuator'.at # "since" /\ since' = "never"
        /\ UNCHANGED <<holder, monitor, slip, manual>>
    BY <1>0, <1>4 DEF ClearSince, At, Goto, AfterWrites
  <2> QED
    BY <1>1, <2>1 DEF DeadlineInv
<1>5. ASSUME \/ Receive \/ ReceiveTimeout \/ Lock \/ WritePins \/ Pause \/ Resume
             \/ SnapLock \/ SnapGive \/ Publish \/ CheckLock \/ Check
      PROVE  DeadlineInv'
  <2>1. actuator.at # "manual" /\ actuator.at # "since"
    BY <1>5 DEF Receive, ReceiveTimeout, Lock, WritePins, Pause, Resume, SnapLock,
       SnapGive, Publish, CheckLock, Check, At
  <2>2. UNCHANGED <<manual, since, monitor, slip>>
    BY <1>5 DEF Receive, ReceiveTimeout, Lock, WritePins, Pause, Resume, SnapLock,
       SnapGive, Publish, CheckLock, Check, shared
  <2>3. holder = "monitor" => holder' = "monitor"
    BY <1>5 DEF Receive, ReceiveTimeout, Lock, WritePins, Pause, Resume, SnapLock,
       SnapGive, Publish, CheckLock, Check, Take, Free, Give, None
  <2>4. ASSUME Receive \/ ReceiveTimeout \/ Lock \/ WritePins \/ Pause
        PROVE  actuator'.at # "since"
    BY <1>0, <2>4 DEF Receive, ReceiveTimeout, Lock, WritePins, Pause, Goto, Execute
  <2>5. ASSUME Resume \/ SnapLock \/ SnapGive \/ Publish \/ CheckLock \/ Check
        PROVE  actuator'.at # "since"
    BY <1>0, <2>5 DEF Resume, SnapLock, SnapGive, Publish, CheckLock, Check, Goto, Execute
  <2>6. actuator'.at # "since"
    BY <1>5, <2>4, <2>5
  <2> QED
    BY <1>2, <2>1, <2>2, <2>3, <2>6
<1>6. CASE WriteFields
  <2>1. /\ actuator.at = "fields" /\ actuator'.at # "since"
        /\ UNCHANGED <<manual, since, monitor, slip, holder>>
    BY <1>0, <1>6 DEF WriteFields, At, Goto, AfterWrites
  <2> QED
    BY <1>2, <2>1
<1>7. CASE Finish
  <2>1. /\ actuator.at = "give" /\ actuator'.at # "since"
        /\ UNCHANGED <<manual, since, monitor, slip>>
    BY <1>7 DEF Finish, At, AtRest, shared
  <2>2. holder = "monitor" => holder' = "monitor"
    BY <1>7 DEF Finish, Give
  <2> QED
    BY <1>2, <2>1, <2>2
<1>8. CASE CheckGive
  <2>1. /\ actuator.at = "check_give" /\ actuator'.at # "since"
        /\ UNCHANGED <<manual, since, monitor, slip>>
    BY <1>8 DEF CheckGive, At, AtRest, shared
  <2>2. holder = "monitor" => holder' = "monitor"
    BY <1>8 DEF CheckGive, Give
  <2> QED
    BY <1>2, <2>1, <2>2
<1>9. ASSUME (\E event \in Events : BeginDispatch(event)) \/ Post \/ UNCHANGED vars
      PROVE  DeadlineInv'
  <2>1. UNCHANGED <<manual, since, monitor, slip, holder, actuator>>
    BY <1>9 DEF BeginDispatch, Post, vars, shared
  <2> QED
    BY <2>1 DEF DeadlineInv
<1>10. CASE Poll \/ BuzzerPulse \/ ToggleFan
  <2>1. /\ monitor.at \notin MonitorSection /\ monitor'.at \notin MonitorSection
        /\ UNCHANGED <<manual, since, slip, holder, actuator>>
    BY <1>0, <1>10 DEF Poll, BuzzerPulse, ToggleFan, MonitorAt, MonitorGoto, Button1,
       Button2, shared
  <2> QED
    BY <2>1 DEF DeadlineInv
<1>11. CASE MonitorTake
  <2>1. /\ monitor.at \notin MonitorSection /\ monitor'.at # "stamp"
        /\ UNCHANGED <<manual, since, actuator>>
    BY <1>0, <1>11 DEF MonitorTake, MonitorAt, MonitorGoto, shared
  <2>2. \/ holder' = "monitor" /\ slip' = slip
        \/ slip' = TRUE
    BY <1>11 DEF MonitorTake, TimedTake, Take
  <2> QED
    BY <2>1, <2>2 DEF DeadlineInv
<1>12. CASE ReadFan
  <2>1. /\ monitor.at = "read" /\ monitor'.at = "give1"
        /\ UNCHANGED <<manual, since, slip, holder, actuator>>
    BY <1>12 DEF ReadFan, MonitorAt, shared
  <2> QED
    BY <2>1 DEF DeadlineInv
<1>13. CASE MarkManual
  <2>1. /\ monitor.at = "mark" /\ monitor'.at = "stamp" /\ manual' = TRUE
        /\ UNCHANGED <<slip, holder, actuator>>
    BY <1>0, <1>13 DEF MarkManual, MonitorAt, MonitorGoto
  <2> QED
    BY <1>1, <2>1 DEF DeadlineInv
<1>14. CASE StampManual
  <2>1. /\ monitor.at = "stamp" /\ monitor'.at = "give2" /\ since' = "recent"
        /\ UNCHANGED <<slip, holder, actuator, manual>>
    BY <1>0, <1>14 DEF StampManual, MonitorAt, MonitorGoto
  <2> QED
    BY <1>1, <2>1 DEF DeadlineInv
<1>15. CASE MonitorGive
  <2>1. /\ monitor.at \in {"give1", "give2"} /\ monitor'.at \notin MonitorSection
        /\ UNCHANGED <<slip, actuator, manual, since>>
    BY <1>0, <1>15 DEF MonitorGive, MonitorAt, MonitorGoto, shared
  <2> QED
    BY <2>1 DEF DeadlineInv
<1>16. CASE SensorTake
  <2>1. UNCHANGED <<actuator, manual, since, monitor>>
    BY <1>16 DEF SensorTake, shared
  <2>2. \/ holder = None /\ slip' = slip
        \/ slip' = TRUE
    BY <1>16 DEF SensorTake, TimedTake, Take, Free
  <2> QED
    BY <2>1, <2>2 DEF DeadlineInv, None
<1>17. CASE SensorCopyGive
  <2>1. /\ UNCHANGED <<actuator, manual, since, monitor, slip>>
        /\ holder = "monitor" => holder' = "monitor"
    BY <1>17 DEF SensorCopyGive, Give, shared
  <2> QED
    BY <2>1 DEF DeadlineInv
<1>18. CASE Elapse
  <2>1. /\ since # "never" /\ since' # "never"
        /\ UNCHANGED <<actuator, manual, monitor, slip, holder>>
    BY <1>18 DEF Elapse
  <2> QED
    BY <2>1 DEF DeadlineInv
<1>19. CASE Restart
  BY <1>19 DEF Restart, DeadlineInv, AtRest
<1> QED
  BY <1>3, <1>4, <1>5, <1>6, <1>7, <1>8, <1>9, <1>10, <1>11, <1>12, <1>13, <1>14,
     <1>15, <1>16, <1>17, <1>18, <1>19 DEF Next, ActuatorStep, MonitorStep

(* While every timed take succeeds, an override never lacks the time its   *)
(* watchdog counts from, however presses, releases and expiries interleave.*)
THEOREM OverrideIsStamped == Spec => []ManualHasDeadline
<1>1. Init => DeadlineInv
  BY DEF Init, DeadlineInv, AtRest, MonitorSection
<1>2. TypeInv /\ ActuatorOwnsItsSections /\ DeadlineInv => ManualHasDeadline
  <2> SUFFICES ASSUME TypeInv, ActuatorOwnsItsSections, DeadlineInv, ~slip, holder = None
               PROVE  manual <=> since # "never"
    BY DEF ManualHasDeadline
  <2>1. actuator.at # "since" /\ monitor.at # "stamp"
    BY DEF ActuatorOwnsItsSections, Holding, DeadlineInv, MonitorSection, None
  <2>2. manual \in BOOLEAN
    BY DEF TypeInv, TypeOK
  <2> QED
    BY <2>1, <2>2 DEF DeadlineInv
<1> QED
  BY <1>1, <1>2, DeadlineStep, TypeInvariance, MutexOwnership, PTL DEF Spec

-----------------------------------------------------------------------------
(* ActuatorTask implements Executor.                                       *)

(* In the pulse of a command, and in the wait before it, that command has  *)
(* a duration; what is about to be written is the drive of the job.        *)
PulseInv ==
  /\ actuator.at \in {"pause", "delay"} => actuator.msg.ms > 0
  /\ actuator.at = "pause" => actuator.job = "command"
  /\ actuator.at = "pins" /\ actuator.job = "undo" => actuator.msg.ms > 0

LEMMA PulseStep == TypeInv /\ PulseInv /\ [Next]_vars => PulseInv'
<1> SUFFICES ASSUME TypeInv, PulseInv, [Next]_vars PROVE PulseInv'
  OBVIOUS
<1>0. actuator \in [at : Places, msg : Messages, job : {"command", "undo", "expire"},
                    drive : Drives]
  BY DEF TypeInv, TypeOK
<1>1. ASSUME ActuatorStep PROVE PulseInv'
  <2> USE DEF PulseInv, At, Goto, Execute
  <2>1. CASE Receive \/ ReceiveTimeout \/ Lock
    BY <2>1, <1>0 DEF Receive, ReceiveTimeout, Lock
  <2>2. CASE WritePins \/ ClearManual
    BY <2>2, <1>0 DEF WritePins, ClearManual
  <2>3. CASE WriteFields \/ ClearSince
    BY <2>3, <1>0 DEF WriteFields, ClearSince, AfterWrites
  <2>4. CASE Pause \/ Resume
    BY <2>4, <1>0 DEF Pause, Resume
  <2>5. CASE Finish
    BY <2>5 DEF Finish, AtRest
  <2>6. CASE SnapLock \/ SnapGive \/ Publish \/ CheckLock
    BY <2>6, <1>0 DEF SnapLock, SnapGive, Publish, CheckLock
  <2>7. CASE Check
    BY <2>7, <1>0 DEF Check
  <2>8. CASE CheckGive
    BY <2>8 DEF CheckGive, AtRest
  <2> QED
    BY <1>1, <2>1, <2>2, <2>3, <2>4, <2>5, <2>6, <2>7, <2>8 DEF ActuatorStep
<1>2. ASSUME \/ \E event \in Events : BeginDispatch(event)
             \/ Post \/ Poll \/ MonitorStep \/ SensorTake \/ SensorCopyGive \/ Elapse
             \/ UNCHANGED vars
      PROVE  PulseInv'
  <2>1. UNCHANGED actuator
    BY <1>2 DEF BeginDispatch, Post, Poll, MonitorStep, BuzzerPulse, MonitorTake, ReadFan,
       MarkManual, StampManual, MonitorGive, ToggleFan, SensorTake, SensorCopyGive, Elapse,
       vars
  <2> QED
    BY <2>1 DEF PulseInv
<1>3. CASE Restart
  BY <1>3 DEF Restart, PulseInv, AtRest
<1> QED
  BY <1>1, <1>2, <1>3 DEF Next

(* Executor has the same tables.                                           *)
LEMMA SameTables ==
  /\ Exec!Messages = Messages
  /\ \A cmd \in Commands, ms \in Durations \cup {0} : Exec!Msg(cmd, ms) = Msg(cmd, ms)
  /\ \A cmd \in Commands : Exec!DriveOf(cmd) = DriveOf(cmd) /\ Exec!Undo(cmd) = Undo(cmd)
  /\ \A d, p : Exec!Applied(d, p) = Applied(d, p)
  /\ \A S : Exec!Levels(S) = Levels(S)
<1>1. Exec!Outputs = Outputs /\ Exec!Commands = Commands /\ Exec!Durations = Durations
  BY DEF Exec!Outputs, Outputs, Exec!Commands, Commands, Exec!Durations, Durations
<1>2. \A o : Exec!Active(o) = Active(o)
  BY DEF Exec!Active, Active
<1>3. \A a, b, c : Exec!Drive(a, b, c) = Drive(a, b, c)
  BY DEF Exec!Drive, Drive
<1>4. \A cmd \in Commands : Exec!DriveOf(cmd) = DriveOf(cmd)
  BY <1>1, <1>3 DEF Exec!DriveOf, DriveOf, Commands
<1>5. \A cmd \in Commands : Exec!Undo(cmd) = Undo(cmd)
  BY <1>3, <1>4 DEF Exec!Undo, Undo
<1>6. \A d, p : Exec!Applied(d, p) = Applied(d, p)
  BY <1>1, <1>2 DEF Exec!Applied, Applied
<1>7. \A S : Exec!Levels(S) = Levels(S)
  BY <1>1, <1>2 DEF Exec!Levels, Levels
<1>8. Exec!Messages = Messages
  BY <1>1 DEF Exec!Messages, Messages
<1>9. \A cmd \in Commands, ms \in Durations \cup {0} : Exec!Msg(cmd, ms) = Msg(cmd, ms)
  BY DEF Exec!Msg, Msg
<1> QED
  BY <1>4, <1>5, <1>6, <1>7, <1>8, <1>9

LEMMA SameIdle == Exec!Idle = [phase |-> "idle", msg |-> Msg("ALL_CLEAR", 0)]
<1>1. "ALL_CLEAR" \in Commands /\ 0 \in Durations \cup {0}
  BY DEF Commands
<1> QED
  BY <1>1, SameTables DEF Exec!Idle

(* Every step of the three tasks is a step of the executor, or none.       *)
LEMMA SimulationStep ==
  TypeInv /\ BuzzerInv /\ PulseInv /\ [Next]_vars => [Exec!Next]_(Exec!vars)
<1> SUFFICES ASSUME TypeInv, BuzzerInv, PulseInv, [Next]_vars
             PROVE  [Exec!Next]_(Exec!vars)
  OBVIOUS
<1>0. /\ actuator \in [at : Places, msg : Messages, job : {"command", "undo", "expire"},
                       drive : Drives]
      /\ actuator.msg \in Messages
      /\ actuator.msg.ms \in Durations \cup {0}
  BY DEF TypeInv, TypeOK, Messages
<1>1. actuator.msg.cmd \in Commands /\ "FAN_OFF" \in Commands
  BY <1>0 DEF Messages, Commands
<1>2. ASSUME UNCHANGED <<queue, gpio, actuator>> PROVE [Exec!Next]_(Exec!vars)
  BY <1>2 DEF Exec!vars, Execution, Phase, At
<1>3. ASSUME NEW m \in Messages, Send(m), UNCHANGED <<gpio, actuator>>
      PROVE  [Exec!Next]_(Exec!vars)
  <2>1. Execution' = Execution
    BY <1>3 DEF Execution, Phase, At
  <2> QED
    BY <1>3, <2>1, SameTables DEF Send, Exec!vars, Exec!Next, Exec!Submit
<1>4. CASE Receive
  <2>1. Phase = "idle" /\ Phase' = "fetched"
    BY <1>0, <1>4 DEF Receive, Phase, At
  <2>2. actuator'.msg = Head(queue)
    BY <1>0, <1>4 DEF Receive
  <2> QED
    BY <1>4, <2>1, <2>2, SameIdle DEF Receive, Execution, Exec!Next, Exec!Fetch,
       Exec!Fetched
<1>5. CASE WritePins
  <2>0. /\ actuator.at = "pins" /\ actuator'.at = "fields" /\ queue' = queue
        /\ actuator'.job = actuator.job /\ actuator'.msg = actuator.msg
        /\ gpio' = Applied(actuator.drive, gpio)
    BY <1>0, <1>5 DEF WritePins, At, Goto
  <2>1. CASE actuator.job = "command"
    <3>1. actuator.drive = DriveOf(actuator.msg.cmd)
      BY <2>0, <2>1 DEF BuzzerInv
    <3>2. Phase = "fetched" /\ Phase' = IF actuator.msg.ms > 0 THEN "pulse" ELSE "idle"
      BY <2>0, <2>1 DEF Phase, At
    <3>3. Exec!Start
      BY <1>0, <1>1, <2>0, <3>1, <3>2, SameTables, SameIdle
         DEF Exec!Start, Exec!Pulse, Execution
    <3> QED
      BY <3>3 DEF Exec!Next
  <2>2. CASE actuator.job = "undo"
    <3>1. actuator.drive = Undo(actuator.msg.cmd)
      BY <2>0, <2>2 DEF BuzzerInv
    <3>2. Phase = "pulse" /\ Phase' = "idle"
      BY <2>0, <2>2 DEF Phase, At
    <3>3. Exec!End
      BY <1>1, <2>0, <3>1, <3>2, SameTables, SameIdle DEF Exec!End, Execution
    <3> QED
      BY <3>3 DEF Exec!Next
  <2>3. CASE actuator.job = "expire"
    <3>1. actuator.drive = DriveOf("FAN_OFF")
      BY <2>0, <2>3 DEF BuzzerInv
    <3>2. Phase = "idle" /\ Phase' = "idle"
      BY <2>0, <2>3 DEF Phase, At
    <3>3. Exec!Release
      BY <1>1, <2>0, <3>1, <3>2, SameTables, SameIdle DEF Exec!Release, Execution
    <3> QED
      BY <3>3 DEF Exec!Next
  <2> QED
    BY <1>0, <2>1, <2>2, <2>3
<1>6. CASE Resume
  <2>0. actuator.at = "delay" /\ Phase = "pulse" /\ UNCHANGED <<queue, gpio>>
    BY <1>6 DEF Resume, Phase, At
  <2>1. CASE actuator.msg.cmd = "FAN_ON" /\ manual
    <3>1. actuator'.at = "give"
      BY <1>0, <1>6, <2>1 DEF Resume, Goto
    <3>2. Phase' = "idle"
      BY <3>1 DEF Phase, At
    <3>3. Exec!Keep
      BY <2>0, <2>1, <3>2, SameIdle DEF Exec!Keep, Execution
    <3> QED
      BY <3>3 DEF Exec!Next
  <2>2. CASE ~(actuator.msg.cmd = "FAN_ON" /\ manual)
    <3>1. actuator' = [actuator EXCEPT !.at = "pins", !.job = "undo",
                                       !.drive = Undo(actuator.msg.cmd)]
      BY <1>6, <2>2 DEF Resume, Execute
    <3>2. actuator'.at = "pins" /\ actuator'.job = "undo" /\ actuator'.msg = actuator.msg
      BY <1>0, <3>1
    <3>3. Phase' = "pulse"
      BY <3>2 DEF Phase, At
    <3> QED
      BY <2>0, <3>2, <3>3 DEF Execution, Exec!vars
  <2> QED
    BY <2>1, <2>2
<1>7. CASE Restart
  <2>1. Phase' = "idle"
    BY <1>7 DEF Restart, AtRest, Phase, At
  <2> QED
    BY <1>7, <2>1, SameTables, SameIdle DEF Restart, Execution, Exec!Next, Exec!Reset
<1>8. ASSUME \/ ReceiveTimeout \/ Lock \/ WriteFields \/ ClearManual \/ ClearSince \/ Pause
             \/ Finish \/ SnapLock \/ SnapGive \/ Publish \/ CheckLock \/ Check \/ CheckGive
      PROVE  [Exec!Next]_(Exec!vars)
  <2>0. UNCHANGED <<queue, gpio>>
    BY <1>8 DEF ReceiveTimeout, Lock, WriteFields, ClearManual, ClearSince, Pause, Finish,
       SnapLock, SnapGive, Publish, CheckLock, Check, CheckGive
  <2>1. ASSUME ReceiveTimeout \/ SnapLock \/ SnapGive \/ Publish \/ CheckLock \/ Check
        PROVE  Phase = "idle" /\ Phase' = "idle"
    BY <1>0, <2>1 DEF ReceiveTimeout, SnapLock, SnapGive, Publish, CheckLock, Check,
       Phase, At, Goto, Execute
  <2>2. ASSUME Finish \/ CheckGive PROVE Phase = "idle" /\ Phase' = "idle"
    <3>1. actuator.at \in {"give", "check_give"} /\ actuator'.at \in {"snap_lock", "receive"}
      <4>1. CASE Finish
        BY <4>1 DEF Finish, At, AtRest
      <4>2. CASE CheckGive
        BY <4>2 DEF CheckGive, At, AtRest
      <4> QED
        BY <2>2, <4>1, <4>2
    <3> QED
      BY <3>1 DEF Phase, At
  <2>3. CASE Lock
    <3>1. Phase = "fetched" /\ Phase' = "fetched" /\ actuator'.msg = actuator.msg
      BY <1>0, <2>3 DEF Lock, Phase, At, Execute
    <3> QED
      BY <2>0, <3>1 DEF Execution, Exec!vars
  <2>4. CASE WriteFields \/ ClearManual \/ ClearSince
    <3>1. Phase' = Phase /\ actuator'.msg = actuator.msg
      BY <1>0, <2>4 DEF WriteFields, ClearManual, ClearSince, AfterWrites, Phase, At, Goto
    <3> QED
      BY <2>0, <3>1 DEF Execution, Exec!vars
  <2>5. CASE Pause
    <3>1. Phase = "pulse" /\ Phase' = "pulse" /\ actuator'.msg = actuator.msg
      BY <1>0, <2>5 DEF Pause, PulseInv, Phase, At, Goto
    <3> QED
      BY <2>0, <3>1 DEF Execution, Exec!vars
  <2>6. ASSUME Phase = "idle", Phase' = "idle" PROVE [Exec!Next]_(Exec!vars)
    BY <2>0, <2>6 DEF Execution, Exec!vars
  <2> QED
    BY <1>8, <2>1, <2>2, <2>3, <2>4, <2>5, <2>6
<1>9. CASE Post
  <2>1. Head(burst) \in Messages
    BY <1>9 DEF Post, TypeInv, TypeOK
  <2> QED
    BY <1>3, <1>9, <2>1 DEF Post
<1>10. CASE BuzzerPulse \/ ToggleFan
  <2>1. {Msg("BUZZER_ON", 500), Msg("FAN_ON", 0), Msg("FAN_OFF", 0)} \subseteq Messages
    BY DEF Msg, Messages, Commands, Durations
  <2> QED
    BY <1>3, <1>10, <2>1 DEF BuzzerPulse, ToggleFan
<1>11. ASSUME \/ \E event \in Events : BeginDispatch(event)
              \/ Poll \/ MonitorTake \/ ReadFan \/ MarkManual \/ StampManual \/ MonitorGive
              \/ SensorTake \/ SensorCopyGive \/ Elapse \/ UNCHANGED vars
       PROVE  [Exec!Next]_(Exec!vars)
  <2>1. UNCHANGED <<queue, gpio, actuator>>
    BY <1>11 DEF BeginDispatch, Poll, MonitorTake, ReadFan, MarkManual, StampManual,
       MonitorGive, SensorTake, SensorCopyGive, Elapse, vars
  <2> QED
    BY <1>2, <2>1
<1> QED
  BY <1>4, <1>5, <1>6, <1>7, <1>8, <1>9, <1>10, <1>11 DEF Next, ActuatorStep, MonitorStep

(* ActuatorTask keeps what Executor promises to those who post commands,   *)
(* for every queue size: one command at a time, in order, exactly once,    *)
(* and no output that moves at any other moment.                           *)
THEOREM Refines == Spec => Implements
<1>1. Init => BuzzerInv
  BY DEF Init, BuzzerInv, AtRest, Sounding, Levels, Active, Outputs
<1>2. Init => PulseInv
  BY DEF Init, PulseInv, AtRest
<1>3. Init => Exec!Init
  BY SameTables, SameIdle DEF Init, AtRest, Exec!Init, Execution, Phase, At
<1> QED
  BY <1>1, <1>2, <1>3, BuzzerStep, PulseStep, SimulationStep, TypeInvariance, PTL
     DEF Spec, Implements, Exec!Spec

=============================================================================
