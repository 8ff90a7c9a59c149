------------------------------ MODULE Actuator ------------------------------
(***************************************************************************)
(* ActuatorTask and the tasks that share g_actuator with it.               *)
(*                                                                         *)
(* Commands reach ActuatorTask through xActuatorQueue.  EmergencyTask      *)
(* posts a burst of commands per event, MonitoringTask posts one per       *)
(* pressed button.  ActuatorTask executes one command at a time, sleeping  *)
(* through the pulse of a timed command with xActuatorMutex released.      *)
(* MonitoringTask and SensorTask also take xActuatorMutex, with a timeout  *)
(* whose outcome they do not look at.                                      *)
(*                                                                         *)
(* Every access to g_actuator is a step of its own, so the steps of the    *)
(* three tasks interleave as they do on the two cores of the chip.         *)
(***************************************************************************)
EXTENDS ActuatorCommands, Sequences

CONSTANTS
  QueueSize,   (* ACTUATOR_QUEUE_SIZE, 8 in the code                         *)
  Events       (* the event types EmergencyTask is given                     *)

EventTypes == {"security", "door", "fire", "gas_leak", "overheat", "noise",
               "vibration"}

ASSUME QueueAssumption  == QueueSize \in Nat \ {0}
ASSUME EventsAssumption == Events \subseteq EventTypes

-----------------------------------------------------------------------------
(* The burst EmergencyTask posts for an event.                             *)
Latch == <<Msg("LED_ALARM_ON", 0), Msg("LED_NORMAL_OFF", 0)>>
Dispatch(event) ==
  CASE event = "security"  -> <<Msg("BUZZER_ON", 5000)>> \o Latch
    [] event = "door"      -> <<Msg("BUZZER_ON", 500)>>
    [] event \in {"fire", "gas_leak"} ->
         <<Msg("BUZZER_ON", 10000), Msg("FAN_ON", 10000)>> \o Latch
    [] event = "overheat"  -> <<Msg("FAN_ON", 5000), Msg("LED_ALARM_ON", 5000)>>
    [] event = "noise"     -> <<Msg("BUZZER_ON", 3000), Msg("LED_ALARM_ON", 3000)>>
    [] event = "vibration" -> <<Msg("BUZZER_ON", 2000), Msg("LED_ALARM_ON", 2000)>>

-----------------------------------------------------------------------------
VARIABLES
  queue,    (* xActuatorQueue                                                *)
  holder,   (* the task that holds xActuatorMutex                            *)
  gpio,     (* the levels of the output pins                                 *)
  on,       (* g_actuator.buzzer, .fan, .led_alarm, .led_normal              *)
  manual,   (* g_actuator.fan_manual                                         *)
  since,    (* g_actuator.fan_manual_since: "never" (0), or how long ago     *)
  actuator, (* ActuatorTask: [at, msg, job, drive]                           *)
  burst,    (* EmergencyTask: what it has yet to post for its event          *)
  monitor,  (* MonitoringTask: [at, fan_now]                                 *)
  sensor,   (* SensorTask, around its read of g_actuator                     *)
  slip,     (* history: a timed take of xActuatorMutex has failed            *)
  panic     (* configASSERT has failed and the chip is about to restart      *)

shared == <<on, manual, since>>
vars == <<queue, holder, gpio, on, manual, since, actuator,
          burst, monitor, sensor, slip, panic>>

None == "none"

-----------------------------------------------------------------------------
(* FreeRTOS.  A mutex records its holder; giving a mutex that is free does *)
(* nothing, giving one that another task holds fails an assertion.         *)

Free == holder = None

Take(t) == Free /\ holder' = t

TimedTake(t) ==
  \/ Take(t) /\ UNCHANGED slip
  \/ ~Free /\ slip' = TRUE /\ UNCHANGED holder

Give(t) ==
  /\ holder' = IF holder = t THEN None ELSE holder
  /\ panic' = (holder \notin {t, None})

(* Mutant: a queue that takes one message more than it has room for.       *)
SendBeyond(m) ==
  \/ Len(queue) <= QueueSize /\ queue' = Append(queue, m)
  \/ Len(queue) > QueueSize /\ UNCHANGED queue

(* xQueueSend: the message is lost when the queue stays full until the     *)
(* timeout, which is at once when the timeout is 0.                        *)
Send(m) ==
  \/ Len(queue) < QueueSize /\ queue' = Append(queue, m)
  \/ Len(queue) = QueueSize /\ UNCHANGED queue

-----------------------------------------------------------------------------
(* ActuatorTask                                                            *)

At(place) == actuator.at = place
Goto(place) == actuator' = [actuator EXCEPT !.at = place]

(* Waiting for a command; what msg, job and drive hold means nothing here. *)
AtRest == [at |-> "receive", msg |-> Msg("ALL_CLEAR", 0), job |-> "command",
           drive |-> Drive({}, {}, FALSE)]

(* It executes a job, the writes of one drive, with the mutex held.        *)
Execute(job, drive) ==
  actuator' = [actuator EXCEPT !.at = "pins", !.job = job, !.drive = drive]

Receive ==
  /\ At("receive") /\ queue # <<>>
  /\ queue' = Tail(queue)
  /\ actuator' = [actuator EXCEPT !.at = "lock", !.msg = Head(queue)]
  /\ UNCHANGED <<holder, gpio, shared, burst, monitor, sensor, slip, panic>>

(* The wait of one second for a command is over.                           *)
ReceiveTimeout ==
  /\ At("receive") /\ queue = <<>>
  /\ Goto("check_lock")
  /\ UNCHANGED <<queue, holder, gpio, shared, burst, monitor, sensor, slip, panic>>

Lock ==
  /\ At("lock") /\ Take("actuator")
  /\ Execute("command", DriveOf(actuator.msg.cmd))
  /\ UNCHANGED <<queue, gpio, shared, burst, monitor, sensor, slip, panic>>

(* In every case of the switch the pins come first, then the fields.       *)
WritePins ==
  /\ At("pins")
  /\ gpio' = Applied(actuator.drive, gpio)
  /\ Goto("fields")
  /\ UNCHANGED <<queue, holder, shared, burst, monitor, sensor, slip, panic>>

(* Only commands that have a pulse are posted with a duration.             *)
AfterWrites ==
  CASE actuator.job = "command" -> IF actuator.msg.ms > 0 THEN "pause" ELSE "give"
    [] actuator.job = "undo"    -> "give"
    [] actuator.job = "expire"  -> "warn"

(* Mutant: the fields of what a drive switches off are forgotten.          *)
WriteFieldsOn ==
  /\ At("fields")
  /\ on' = on \cup actuator.drive.on
  /\ Goto(IF actuator.drive.release THEN "manual" ELSE AfterWrites)
  /\ UNCHANGED <<queue, holder, gpio, manual, since, burst, monitor, sensor, slip, panic>>

WriteFields ==
  /\ At("fields")
  /\ on' = (on \ actuator.drive.off) \cup actuator.drive.on
  /\ Goto(IF actuator.drive.release THEN "manual" ELSE AfterWrites)
  /\ UNCHANGED <<queue, holder, gpio, manual, since, burst, monitor,
                 sensor, slip, panic>>

ClearManual ==
  /\ At("manual")
  /\ manual' = FALSE
  /\ Goto("since")
  /\ UNCHANGED <<queue, holder, gpio, on, since, burst, monitor,
                 sensor, slip, panic>>

(* Mutant: fan_manual_since is not reset with fan_manual.                  *)
ClearSinceSkipped ==
  /\ At("since")
  /\ Goto(AfterWrites)
  /\ UNCHANGED <<queue, holder, gpio, shared, burst, monitor, sensor, slip, panic>>

ClearSince ==
  /\ At("since")
  /\ since' = "never"
  /\ Goto(AfterWrites)
  /\ UNCHANGED <<queue, holder, gpio, on, manual, burst, monitor, sensor,
                 slip, panic>>

(* Mutant: the mutex is kept during the pulse.                             *)
PauseLocked ==
  /\ At("pause") /\ Goto("delay")
  /\ UNCHANGED <<queue, holder, gpio, shared, burst, monitor, sensor, slip, panic>>

(* A timed command: the mutex is released for the duration of the pulse,   *)
(* which is any finite time.                                               *)
Pause ==
  /\ At("pause") /\ Give("actuator")
  /\ Goto("delay")
  /\ UNCHANGED <<queue, gpio, shared, burst, monitor, sensor, slip>>

(* Mutant: the manual override also keeps the buzzer and the alarm LED on. *)
ResumeAnyManual ==
  /\ At("delay") /\ Take("actuator")
  /\ IF manual THEN Goto("give") ELSE Execute("undo", Undo(actuator.msg.cmd))
  /\ UNCHANGED <<queue, gpio, shared, burst, monitor, sensor, slip, panic>>

(* The pulse is over.  A fan under manual override is left running.        *)
Resume ==
  /\ At("delay") /\ Take("actuator")
  /\ IF actuator.msg.cmd = "FAN_ON" /\ manual
     THEN Goto("give")
     ELSE Execute("undo", Undo(actuator.msg.cmd))
  /\ UNCHANGED <<queue, gpio, shared, burst, monitor, sensor, slip, panic>>

(* Mutant: the give after the switch is missing, and the next take of the  *)
(* same task never returns.                                                *)
FinishLocked ==
  /\ At("give")
  /\ actuator' = [AtRest EXCEPT !.at = "snap_lock"]
  /\ UNCHANGED <<queue, holder, gpio, shared, burst, monitor, sensor, slip, panic>>

(* The command is done and its message forgotten.                          *)
Finish ==
  /\ At("give") /\ Give("actuator")
  /\ actuator' = [AtRest EXCEPT !.at = "snap_lock"]
  /\ UNCHANGED <<queue, gpio, shared, burst, monitor, sensor, slip>>

(* The state it publishes is copied under the mutex.                       *)
SnapLock ==
  /\ At("snap_lock") /\ Take("actuator")
  /\ Goto("snap_give")
  /\ UNCHANGED <<queue, gpio, shared, burst, monitor, sensor, slip, panic>>

SnapGive ==
  /\ At("snap_give") /\ Give("actuator")
  /\ Goto("publish")
  /\ UNCHANGED <<queue, gpio, shared, burst, monitor, sensor, slip>>

(* broker_publish, which waits for xBrokerMutex as long as it takes: at    *)
(* "publish" with xActuatorMutex free, at "warn" still holding it.         *)
Publish ==
  /\ actuator.at \in {"publish", "warn"}
  /\ Goto(IF At("publish") THEN "check_lock" ELSE "check_give")
  /\ UNCHANGED <<queue, holder, gpio, shared, burst, monitor, sensor, slip, panic>>

(* The watchdog of the manual override, once per round of the task.        *)
CheckLock ==
  /\ At("check_lock") /\ Take("actuator")
  /\ Goto("check")
  /\ UNCHANGED <<queue, gpio, shared, burst, monitor, sensor, slip, panic>>

(* Mutant: the watchdog stops the fan and leaves the override set.         *)
CheckKeepsManual ==
  /\ At("check")
  /\ IF manual /\ since = "expired"
     THEN Execute("expire", Undo("FAN_ON"))
     ELSE Goto("check_give")
  /\ UNCHANGED <<queue, holder, gpio, shared, burst, monitor, sensor, slip, panic>>

Check ==
  /\ At("check")
  /\ IF manual /\ since = "expired"
     THEN Execute("expire", DriveOf("FAN_OFF"))
     ELSE Goto("check_give")
  /\ UNCHANGED <<queue, holder, gpio, shared, burst, monitor, sensor, slip, panic>>

CheckGive ==
  /\ At("check_give") /\ Give("actuator")
  /\ actuator' = AtRest
  /\ UNCHANGED <<queue, gpio, shared, burst, monitor, sensor, slip>>

ActuatorStep ==
  \/ Receive \/ ReceiveTimeout \/ Lock
  \/ WritePins \/ WriteFields \/ ClearManual \/ ClearSince
  \/ Pause \/ Resume \/ Finish
  \/ SnapLock \/ SnapGive \/ Publish
  \/ CheckLock \/ Check \/ CheckGive

-----------------------------------------------------------------------------
(* EmergencyTask: an event is turned into a burst of actuator_post calls,  *)
(* each of which gives up after 10 ms.                                     *)

BeginDispatch(event) ==
  /\ burst = <<>>
  /\ burst' = Dispatch(event)
  /\ UNCHANGED <<queue, holder, gpio, shared, actuator, monitor, sensor,
                 slip, panic>>

(* Mutant: actuator_post waits for room with portMAX_DELAY.                *)
PostWaits ==
  /\ burst # <<>> /\ Len(queue) < QueueSize
  /\ queue' = Append(queue, Head(burst))
  /\ burst' = Tail(burst)
  /\ UNCHANGED <<holder, gpio, shared, actuator, monitor, sensor, slip, panic>>

Post ==
  /\ burst # <<>>
  /\ Send(Head(burst))
  /\ burst' = Tail(burst)
  /\ UNCHANGED <<holder, gpio, shared, actuator, monitor, sensor, slip, panic>>

-----------------------------------------------------------------------------
(* MonitoringTask: its poll of the two buttons, once a second.             *)

MonitorAt(place) == monitor.at = place
MonitorGoto(place) == monitor' = [monitor EXCEPT !.at = place]
Button1 == "btn1"
Button2 == "take1"

Poll ==
  /\ MonitorAt("idle")
  /\ \E place \in {Button1, Button2} : MonitorGoto(place)
  /\ UNCHANGED <<queue, holder, gpio, shared, actuator, burst, sensor, slip, panic>>

(* Button 1 sounds the buzzer; button 2, pressed or not, is next.          *)
BuzzerPulse ==
  /\ MonitorAt(Button1)
  /\ Send(Msg("BUZZER_ON", 500))
  /\ \E place \in {"idle", Button2} : MonitorGoto(place)
  /\ UNCHANGED <<holder, gpio, shared, actuator, burst, sensor, slip, panic>>

(* Button 2 toggles the fan: read the fan, then post FAN_OFF, or mark the  *)
(* manual override and post FAN_ON.                                        *)
MonitorTake ==
  /\ monitor.at \in {"take1", "take2"}
  /\ TimedTake("monitor")
  /\ MonitorGoto(IF MonitorAt("take1") THEN "read" ELSE "mark")
  /\ UNCHANGED <<queue, gpio, shared, actuator, burst, sensor, panic>>

ReadFan ==
  /\ MonitorAt("read")
  /\ monitor' = [at |-> "give1", fan_now |-> "fan" \in on]
  /\ UNCHANGED <<queue, holder, gpio, shared, actuator, burst, sensor, slip, panic>>

MarkManual ==
  /\ MonitorAt("mark")
  /\ manual' = TRUE
  /\ MonitorGoto("stamp")
  /\ UNCHANGED <<queue, holder, gpio, on, since, actuator, burst,
                 sensor, slip, panic>>

StampManual ==
  /\ MonitorAt("stamp")
  /\ since' = "recent"
  /\ MonitorGoto("give2")
  /\ UNCHANGED <<queue, holder, gpio, on, manual, actuator, burst, sensor,
                 slip, panic>>

MonitorGive ==
  /\ monitor.at \in {"give1", "give2"}
  /\ Give("monitor")
  /\ MonitorGoto(IF MonitorAt("give2") THEN "fan_on"
                 ELSE IF monitor.fan_now THEN "fan_off" ELSE "take2")
  /\ UNCHANGED <<queue, gpio, shared, actuator, burst, sensor, slip>>

ToggleFan ==
  /\ monitor.at \in {"fan_on", "fan_off"}
  /\ Send(IF MonitorAt("fan_on") THEN Msg("FAN_ON", 0) ELSE Msg("FAN_OFF", 0))
  /\ monitor' = [at |-> "idle", fan_now |-> FALSE]
  /\ UNCHANGED <<holder, gpio, shared, actuator, burst, sensor, slip, panic>>

MonitorStep ==
  \/ BuzzerPulse \/ MonitorTake \/ ReadFan \/ MarkManual \/ StampManual
  \/ MonitorGive \/ ToggleFan

-----------------------------------------------------------------------------
(* SensorTask: it copies buzzer and fan for the dashboard.  Its timeout of *)
(* 5 ms is 0 ticks of the 100 Hz clock.                                    *)

SensorTake ==
  /\ sensor = "idle" /\ TimedTake("sensor")
  /\ sensor' = "copy"
  /\ UNCHANGED <<queue, gpio, shared, actuator, burst, monitor, panic>>

SensorCopyGive ==
  /\ sensor = "copy" /\ Give("sensor")
  /\ sensor' = "idle"
  /\ UNCHANGED <<queue, gpio, shared, actuator, burst, monitor, slip>>

-----------------------------------------------------------------------------
(* Time, and the restart that follows a failed assertion.                  *)

(* FAN_MANUAL_TIMEOUT_S have passed since the override was stamped.  Time  *)
(* of that order passes only where ActuatorTask waits for a command or in  *)
(* the pulses it executes; MonitoringTask is then between two buttons.     *)
Waiting ==
  /\ \/ At("receive") /\ queue = <<>>
     \/ At("delay")
  /\ monitor.at \in {"idle", Button1}

Elapse ==
  /\ Waiting
  /\ since = "recent" /\ since' = "expired"
  /\ UNCHANGED <<queue, holder, gpio, on, manual, actuator, burst, monitor,
                 sensor, slip, panic>>

(* hal_gpio_init and the initial value of g_actuator.                      *)
Init ==
  /\ queue = <<>> /\ burst = <<>>
  /\ holder = None
  /\ gpio = Levels({"led_normal"}) /\ on = {"led_normal"}
  /\ manual = FALSE /\ since = "never"
  /\ actuator = AtRest /\ monitor = [at |-> "idle", fan_now |-> FALSE] /\ sensor = "idle"
  /\ slip = FALSE /\ panic = FALSE

Restart ==
  /\ panic
  /\ queue' = <<>> /\ burst' = <<>>
  /\ holder' = None
  /\ gpio' = Levels({"led_normal"}) /\ on' = {"led_normal"}
  /\ manual' = FALSE /\ since' = "never"
  /\ actuator' = AtRest /\ monitor' = [at |-> "idle", fan_now |-> FALSE] /\ sensor' = "idle"
  /\ slip' = FALSE /\ panic' = FALSE

Next ==
  \/ /\ ~panic
     /\ \/ ActuatorStep
        \/ \E event \in Events : BeginDispatch(event)
        \/ Post
        \/ Poll \/ MonitorStep
        \/ SensorTake \/ SensorCopyGive
        \/ Elapse
  \/ Restart

Spec == Init /\ [][Next]_vars

(* ActuatorTask outranks every task that blocks on xActuatorMutex, so a    *)
(* mutex that keeps being given goes to it (strong fairness); the rounds   *)
(* of waiting add up to the time of the watchdog; a task that can run does *)
(* run, delays end, and a failed assertion restarts the chip.              *)
Fairness ==
  /\ SF_vars(~panic /\ (Lock \/ Resume \/ SnapLock \/ CheckLock))
  /\ WF_vars(~panic /\ ActuatorStep)
  /\ WF_vars(~panic /\ Post)
  /\ WF_vars(~panic /\ MonitorStep)
  /\ WF_vars(~panic /\ SensorCopyGive)
  /\ SF_vars(~panic /\ Elapse)
  /\ WF_vars(Restart)

FairSpec == Spec /\ Fairness

-----------------------------------------------------------------------------
(* What the tasks that post commands are promised.  A command is fetched   *)
(* until its pins are written, and in its pulse until they are undone.     *)

Phase ==
  CASE At("lock") \/ (At("pins") /\ actuator.job = "command") -> "fetched"
    [] \/ /\ actuator.at \in {"fields", "manual", "since", "pause"}
          /\ actuator.job = "command" /\ actuator.msg.ms > 0
       \/ At("delay")
       \/ At("pins") /\ actuator.job = "undo" -> "pulse"
    [] OTHER -> "idle"

Execution ==
  [phase |-> Phase,
   msg   |-> IF Phase = "idle" THEN Msg("ALL_CLEAR", 0) ELSE actuator.msg]

Exec == INSTANCE Executor WITH pending <- queue, pins <- gpio, doing <- Execution

-----------------------------------------------------------------------------
(* Properties                                                              *)

Places == {"receive", "lock", "pins", "fields", "manual", "since", "pause",
           "delay", "give", "snap_lock", "snap_give", "publish",
           "warn", "check_lock", "check", "check_give"}

(* Type invariant.                                                         *)
TypeOK ==
  /\ queue \in Seq(Messages) /\ Len(queue) <= QueueSize
  /\ holder \in {None, "actuator", "monitor", "sensor"}
  /\ gpio \in [Outputs -> {0, 1}] /\ on \in SUBSET Outputs
  /\ manual \in BOOLEAN /\ since \in {"never", "recent", "expired"}
  /\ actuator \in [at : Places, msg : Messages, job : {"command", "undo", "expire"},
                   drive : Drives]
  /\ burst \in Seq(Messages)
  /\ monitor \in [at : {"idle", "btn1", "take1", "read", "give1", "take2", "mark",
                        "stamp", "give2", "fan_on", "fan_off"}, fan_now : BOOLEAN]
  /\ sensor \in {"idle", "copy"}
  /\ slip \in BOOLEAN /\ panic \in BOOLEAN

(* The places of ActuatorTask between a take and the matching give.        *)
Holding == {"pins", "fields", "manual", "since", "pause", "give", "snap_give",
            "warn", "check", "check_give"}

(* ActuatorTask holds xActuatorMutex throughout its critical sections and  *)
(* nowhere else, whatever the tasks with a timed take do: their gives can  *)
(* stop the chip but never hand its mutex to somebody else.                *)
ActuatorOwnsItsSections == (holder = "actuator") <=> (actuator.at \in Holding)

(* What g_actuator says of an output is what its pin does, whenever        *)
(* ActuatorTask is not in a critical section: an observer that takes the   *)
(* mutex sees the real outputs, and so does one whose take timed out while *)
(* another observer held it.                                               *)
OutputsMatchPins ==
  holder # "actuator" => \A o \in Outputs : (o \in on) <=> (gpio[o] = Active(o))

(* The siren is never latched: it sounds only while ActuatorTask executes  *)
(* a BUZZER_ON command, and that command has a duration.                   *)
BuzzerOnlyInPulse ==
  gpio["buzzer"] = Active("buzzer") =>
    /\ actuator.msg.cmd = "BUZZER_ON" /\ actuator.msg.ms > 0
    /\ actuator.at \in {"pins", "fields", "pause", "delay"}

(* As long as no timed take has failed since the start, a manual override  *)
(* of the fan always comes with the time its watchdog counts from.         *)
ManualHasDeadline == ~slip /\ holder = None => (manual <=> since # "never")

(* The comment at ISMS_MQTT_v8_0_RTOS_PERF.c:2082: a fan switched on by    *)
(* hand is "permanent until toggled off or 30-s WDT".  With every task at  *)
(* rest and no command left, a running fan has a watchdog counting.        *)
RunningFanIsWatched ==
  /\ ~slip /\ actuator.at = "receive" /\ queue = <<>> /\ burst = <<>>
  /\ monitor.at = "idle" /\ "fan" \in on
  => manual /\ since # "never"

(* ActuatorTask executes the commands that found room one at a time, each  *)
(* exactly once and in the order of their posting; the pins move all at    *)
(* once and only when a command starts, its pulse ends, the watchdog       *)
(* releases the fan between two commands, or the chip restarts.            *)
Implements == Exec!Spec

(* A full queue never stays full: ActuatorTask gets back to it whatever    *)
(* the pulses and the other users of the two mutexes do.                   *)
QueueDrains == (Len(queue) = QueueSize) ~> (Len(queue) < QueueSize)

(* EmergencyTask always gets back to the event queue: a full command queue *)
(* costs it commands, never its liveness.                                  *)
DispatchEnds == (burst # <<>>) ~> (burst = <<>>)

(* Once button 2 is left alone, a manual override that has its time stamp  *)
(* ends, unless a timed take fails: then a half-done release can strip the *)
(* stamp from an override that MonitoringTask has just marked, which the   *)
(* watchdog ignores for good.                                              *)
OverrideEnds == <>[](monitor.at \notin {"take1", "take2", "mark", "stamp"}) =>
                   ((manual /\ since # "never") ~> (~manual \/ slip))

=============================================================================
