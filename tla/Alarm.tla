------------------------------- MODULE Alarm -------------------------------
(***************************************************************************)
(* From a reading to an answer: SensorTask puts what it measures into      *)
(* xDataQueue, SafetyTask peeks at it and raises events, EmergencyTask     *)
(* takes them from xEventQueue.  MonitoringTask also writes xDataQueue, by *)
(* peek, change and overwrite, and together with SecurityTask and          *)
(* ScalabilityTask raises events of its own.                               *)
(*                                                                         *)
(* Time is counted in periods of SensorTask and SafetyTask, 200 ms.  A     *)
(* pass of theirs comes anywhere in its period, in any order.              *)
(*                                                                         *)
(* An event is raised by three single accesses, to the queue, the event    *)
(* bits and systemState, that nobody reads together: they are one step.    *)
(* Only the test of systemState before a warning is a step of its own.     *)
(* The numbers of emergencies and breaches that are counted for a report   *)
(* are left out.                                                           *)
(***************************************************************************)
EXTENDS Integers, Sequences

CONSTANTS
  Temps,      (* what the temperature may be: "normal", "high", "critical"   *)
  Gases,      (* what the gas level may be: "normal", "critical"             *)
  Noises,     (* what the noise may be: "quiet", "warning", "alarm"          *)
  Others,     (* which of "entry", "door" and "vibration" there are at all   *)
  QueueSize,  (* EVENT_QUEUE_SIZE, 12 in the code                            *)
  Beat,       (* MONITORING_PERIOD_MS, in periods                            *)
  Pause,      (* the 3 s after an alert of ScalabilityTask, in full periods  *)
  Rate        (* the events EmergencyTask can dispatch in a period           *)

ASSUME AlarmAssumption ==
  /\ Temps \subseteq {"normal", "high", "critical"} /\ Temps # {}
  /\ Gases \subseteq {"normal", "critical"} /\ Gases # {}
  /\ Noises \subseteq {"quiet", "warning", "alarm"} /\ Noises # {}
  /\ Others \subseteq {"entry", "door", "vibration"}
  /\ {QueueSize, Beat, Pause, Rate} \subseteq Nat \ {0}

Events == {"critical_temp", "overheat", "gas_leak", "entry", "door", "noise_alarm",
           "noise_warning", "vibration"}

(* What is peeked at; the rest of SensorData_t plays no part here.         *)
Readings == [temp : Temps \cup {"fault"}, gas : Gases \cup {"normal"}]
Nothing == [temp |-> "fault", gas |-> "normal"]

VARIABLES
  air,       (* the temperature and the gas level there are                  *)
  data,      (* xDataQueue: at most one reading                              *)
  sensor,    (* SensorTask: [at, reading]                                    *)
  safety,    (* SafetyTask: [at, todo], the events it has yet to raise       *)
  monitor,   (* MonitoringTask: [at, copy, slept]                            *)
  others,    (* SecurityTask and ScalabilityTask: [raised, warns, rest],     *)
             (* what they raised in this period, whether a door is to be a   *)
             (* warning, and how long ago the last vibration was             *)
  queue,     (* xEventQueue                                                  *)
  due,       (* the events EmergencyTask still gets to in this period        *)
  bits,      (* xSystemEventGroup, the bits of alarms                        *)
  state,     (* systemState                                                  *)
  lost,      (* history: an event has found the queue full                   *)
  hot,       (* history: for how long a critical temperature has been had    *)
  cold,      (* history: for how long it has not been                        *)
  heard      (* history: how long ago EmergencyTask got a critical_temp      *)

history == <<hot, cold, heard>>
vars == <<air, data, sensor, safety, monitor, others, queue, due, bits,
          state, lost, history>>

-----------------------------------------------------------------------------
(* Events                                                                  *)

(* send_event: the event is lost when the queue stays full for 10 ms.      *)
Send(event) ==
  IF Len(queue) < QueueSize
  THEN queue' = Append(queue, event) /\ UNCHANGED lost
  ELSE lost' = TRUE /\ UNCHANGED queue

BitsOf(event) ==
  CASE event = "critical_temp" -> {"FIRE_DETECTED", "EMERGENCY_ACTIVE"}
    [] event = "overheat"      -> {"OVERHEAT"}
    [] event = "gas_leak"      -> {"GAS_LEAK", "EMERGENCY_ACTIVE"}
    [] event = "entry"         -> {"SECURITY_BREACH"}
    [] event = "noise_alarm"   -> {"NOISE_ALARM"}
    [] event = "vibration"     -> {"VIBRATION_DETECTED"}
    [] OTHER                   -> {}

(* update_system_state, for the events whose new state is not a matter of  *)
(* the old one.                                                            *)
StateOf(event) == IF event = "critical_temp" THEN "critical" ELSE "emergency"

Raise(event) ==
  /\ Send(event)
  /\ bits' = bits \cup BitsOf(event)
  /\ state' = StateOf(event)

-----------------------------------------------------------------------------
(* SensorTask                                                              *)

(* Mutant: a sensor that fails leaves its last temperature in the snapshot.*)
MeasureStale ==
  /\ sensor.at = "due"
  /\ \/ /\ sensor' = [at |-> "write", reading |-> air]
        /\ UNCHANGED hot
     \/ /\ sensor' = [at |-> "write", reading |-> IF data = <<>> THEN Nothing ELSE
                          [air EXCEPT !.temp = Head(data).temp]]
        /\ hot' = 0
  /\ UNCHANGED <<air, data, safety, monitor, others, queue, due, bits,
                 state, lost, cold, heard>>

(* The temperature is that of the DS3231, or of an LM35 when there is one  *)
(* and the DS3231 fails; with neither the reading is a fault, and a fire   *)
(* is looked for anew.                                                     *)
Measure ==
  /\ sensor.at = "due"
  /\ \/ /\ sensor' = [at |-> "write", reading |-> air]
        /\ UNCHANGED hot
     \/ /\ sensor' = [at |-> "write", reading |-> [air EXCEPT !.temp = "fault"]]
        /\ hot' = 0
  /\ UNCHANGED <<air, data, safety, monitor, others, queue, due, bits,
                 state, lost, cold, heard>>

(* Mutant: xQueueSend, which leaves a full queue as it is.                 *)
OverwriteOnce ==
  /\ sensor.at = "write"
  /\ data' = IF data = <<>> THEN <<sensor.reading>> ELSE data
  /\ sensor' = [at |-> "done", reading |-> Nothing]
  /\ UNCHANGED <<air, safety, monitor, others, queue, due, bits, state, lost,
                 history>>

Overwrite ==
  /\ sensor.at = "write"
  /\ data' = <<sensor.reading>>
  /\ sensor' = [at |-> "done", reading |-> Nothing]
  /\ UNCHANGED <<air, safety, monitor, others, queue, due, bits, state,
                 lost, history>>

-----------------------------------------------------------------------------
(* SafetyTask                                                              *)

(* The thresholds.  A gas fault is a level above 4096, which the scaled    *)
(* 12 bits of the converter never reach.                                   *)
Alerts(reading) ==
  (CASE reading.temp = "critical" -> <<"critical_temp">>
     [] reading.temp = "high"     -> <<"overheat">>
     [] OTHER                     -> <<>>)
  \o (IF reading.gas = "critical" THEN <<"gas_leak">> ELSE <<>>)

Peek ==
  /\ safety.at = "due"
  /\ safety' = [at |-> "done",
                todo |-> IF data = <<>> THEN <<>> ELSE Alerts(Head(data))]
  /\ UNCHANGED <<air, data, sensor, monitor, others, queue, due, bits,
                 state, lost, history>>

Alert ==
  /\ safety.todo # <<>>
  /\ Raise(Head(safety.todo))
  /\ safety' = [safety EXCEPT !.todo = Tail(@)]
  /\ UNCHANGED <<air, data, sensor, monitor, others, due, hot, cold, heard>>

-----------------------------------------------------------------------------
(* MonitoringTask                                                          *)

(* Mutant: the task does not wait for its period.                          *)
ListenAtOnce ==
  /\ monitor.at = "sleep"
  /\ monitor' = [monitor EXCEPT !.at = "peek", !.slept = @ - Beat]
  /\ UNCHANGED <<air, data, sensor, safety, others, queue, due, bits, state, lost,
                 history>>

(* The noise level.  A warning is an event like others, but nobody tells   *)
(* systemState of it.                                                      *)
Listen ==
  /\ monitor.at = "sleep" /\ monitor.slept >= Beat
  /\ \E noise \in Noises :
       CASE noise = "alarm"   -> Raise("noise_alarm")
         [] noise = "warning" -> Send("noise_warning") /\ UNCHANGED <<bits, state>>
         [] OTHER             -> UNCHANGED <<queue, bits, state, lost>>
  /\ monitor' = [monitor EXCEPT !.at = "peek", !.slept = @ - Beat]
  /\ UNCHANGED <<air, data, sensor, safety, others, due, hot, cold, heard>>

Copy ==
  /\ monitor.at = "peek"
  /\ monitor' = IF data = <<>> THEN [monitor EXCEPT !.at = "sleep"]
                ELSE [monitor EXCEPT !.at = "write", !.copy = Head(data)]
  /\ UNCHANGED <<air, data, sensor, safety, others, queue, due, bits,
                 state, lost, history>>

(* It puts noise and buttons into its copy, and writes all of it back.     *)
WriteBack ==
  /\ monitor.at = "write"
  /\ data' = <<monitor.copy>>
  /\ monitor' = [monitor EXCEPT !.at = "sleep", !.copy = Nothing]
  /\ UNCHANGED <<air, sensor, safety, others, queue, due, bits, state,
                 lost, history>>

-----------------------------------------------------------------------------
(* SecurityTask and ScalabilityTask as sources of events.  Each of the two *)
(* sensors of SecurityTask has to be read at rest between two events,      *)
(* which takes a pass: one event of each kind in a period.  ScalabilityTask*)
(* pauses for 3 s after each.                                              *)

OtherAlert ==
  /\ \E event \in (Others \ {"door"}) \ others.raised :
       /\ event = "vibration" => others.rest = Pause
       /\ Raise(event)
       /\ others' = [others EXCEPT !.raised = @ \cup {event},
                                   !.rest = IF event = "vibration" THEN 0 ELSE @]
  /\ UNCHANGED <<air, data, sensor, safety, monitor, due, hot, cold, heard>>

(* Mutant: last_door is not set, and the open door is found open again.    *)
DoorAgain ==
  /\ "door" \in Others
  /\ Send("door")
  /\ others' = [others EXCEPT !.warns = (state = "normal")]
  /\ UNCHANGED <<air, data, sensor, safety, monitor, due, bits, state, history>>

(* Mutant: the state is not tested.                                        *)
DoorWarnsAlways ==
  /\ "door" \in Others \ others.raised
  /\ Send("door")
  /\ others' = [others EXCEPT !.raised = @ \cup {"door"}, !.warns = TRUE]
  /\ UNCHANGED <<air, data, sensor, safety, monitor, due, bits, state, history>>

(* update_system_state: a warning tests systemState ...                    *)
DoorTest ==
  /\ "door" \in Others \ others.raised
  /\ Send("door")
  /\ others' = [others EXCEPT !.raised = @ \cup {"door"}, !.warns = (state = "normal")]
  /\ UNCHANGED <<air, data, sensor, safety, monitor, due, bits, state, history>>

(* ... and sets it.                                                        *)
DoorWarn ==
  /\ others.warns
  /\ state' = "warning"
  /\ others' = [others EXCEPT !.warns = FALSE]
  /\ UNCHANGED <<air, data, sensor, safety, monitor, queue, due, bits, lost, history>>

-----------------------------------------------------------------------------
(* EmergencyTask takes an event and posts its commands (see Actuator).     *)
Receive ==
  /\ queue # <<>>
  /\ queue' = Tail(queue)
  /\ due' = IF due > 0 THEN due - 1 ELSE 0
  /\ heard' = IF Head(queue) = "critical_temp" THEN 0 ELSE heard
  /\ UNCHANGED <<air, data, sensor, safety, monitor, others, bits, state,
                 lost, hot, cold>>

-----------------------------------------------------------------------------
Older(age, most) == IF age >= most THEN age ELSE age + 1

(* How soon a lasting fire is answered, how often it is answered then, and *)
(* how long after its end a reading of it can still be acted on.           *)
Patience == 5
Answer == 2
Lag == 3

Air ==
  /\ \E temp \in Temps, gas \in Gases :
       /\ <<temp, gas>> # <<air.temp, air.gas>>
       /\ air' = [temp |-> temp, gas |-> gas]
       /\ hot' = IF temp = "critical" THEN hot ELSE 0
       /\ cold' = IF temp = "critical" THEN 0 ELSE cold
  /\ UNCHANGED <<data, sensor, safety, monitor, others, queue, due, bits,
                 state, lost, heard>>

(* The next period starts when all of this one has been done.              *)
Tick ==
  /\ sensor.at = "done" /\ safety = [at |-> "done", todo |-> <<>>]
  /\ monitor.slept < (IF monitor.at = "sleep" THEN Beat ELSE 1)
  /\ ~others.warns /\ due = 0
  /\ sensor' = [sensor EXCEPT !.at = "due"] /\ safety' = [safety EXCEPT !.at = "due"]
  /\ monitor' = [monitor EXCEPT !.slept = @ + 1]
  /\ others' = [raised |-> {}, warns |-> FALSE, rest |-> Older(others.rest, Pause)]
  /\ due' = IF Len(queue) < Rate THEN Len(queue) ELSE Rate
  /\ hot' = IF air.temp = "critical" THEN Older(hot, Patience + 1) ELSE 0
  /\ cold' = IF air.temp = "critical" THEN 0 ELSE Older(cold, Lag + 1)
  /\ heard' = Older(heard, Answer + 1)
  /\ UNCHANGED <<air, data, queue, bits, state, lost>>

Init ==
  /\ \E temp \in Temps, gas \in Gases : air = [temp |-> temp, gas |-> gas]
  /\ data = <<>>
  /\ sensor = [at |-> "due", reading |-> Nothing]
  /\ safety = [at |-> "due", todo |-> <<>>]
  /\ monitor = [at |-> "sleep", copy |-> Nothing, slept |-> 0]
  /\ others = [raised |-> {}, warns |-> FALSE, rest |-> Pause]
  /\ queue = <<>> /\ due = 0
  /\ bits = {} /\ state = "normal"
  /\ cold = IF air.temp = "critical" THEN 0 ELSE Lag + 1
  /\ lost = FALSE /\ hot = 0 /\ heard = Answer + 1

Next ==
  \/ Measure \/ Overwrite
  \/ Peek \/ Alert
  \/ Listen \/ Copy \/ WriteBack
  \/ OtherAlert \/ DoorTest \/ DoorWarn
  \/ Receive
  \/ Air \/ Tick

Spec == Init /\ [][Next]_vars

-----------------------------------------------------------------------------
(* Properties                                                              *)

(* Type invariant.                                                         *)
TypeOK ==
  /\ air \in [temp : Temps, gas : Gases]
  /\ data \in Seq(Readings) /\ Len(data) <= 1
  /\ sensor \in [at : {"due", "write", "done"}, reading : Readings]
  /\ safety \in [at : {"due", "done"}, todo : Seq(Events)]
  /\ monitor \in [at : {"sleep", "peek", "write"}, copy : Readings, slept : 0..Beat]
  /\ others \in [raised : SUBSET Others, warns : BOOLEAN, rest : 0..Pause]
  /\ queue \in Seq(Events) /\ Len(queue) <= QueueSize /\ due \in 0..Rate
  /\ bits \subseteq UNION {BitsOf(event) : event \in Events}
  /\ state \in {"normal", "warning", "emergency", "critical"}
  /\ lost \in BOOLEAN
  /\ hot \in 0..(Patience + 1) /\ cold \in 0..(Lag + 1) /\ heard \in 0..(Answer + 1)

(* xEventQueue never overflows, although EmergencyTask can be kept for     *)
(* 40 ms by a full command queue while three tasks raise events: send_event*)
(* drops an event without a word, after its bits have been set.            *)
NoEventIsLost == ~lost

(* A fire that lasts reaches EmergencyTask, and goes on doing so, although *)
(* MonitoringTask can put an older reading back over a newer one and each  *)
(* event waits behind those of other tasks.                                *)
FireIsAnswered == hot > Patience => heard <= Answer

(* A fire is not made up: the reading an alert comes from is Lag old at    *)
(* most, even one that MonitoringTask has put back.                        *)
FireIsReal ==
  "critical_temp" \in {safety.todo[i] : i \in DOMAIN safety.todo} => cold <= Lag

(* The warning of a door that was tested before an alarm and written after *)
(* it covers the alarm; while the fire lasts, systemState is put right.    *)
AlarmIsShown == hot > Patience => state \in {"critical", "emergency"}

=============================================================================
