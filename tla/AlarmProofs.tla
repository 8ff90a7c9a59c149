---------------------------- MODULE AlarmProofs -----------------------------
(***************************************************************************)
(* Proofs about Alarm: the types of its state; that no fire is made up     *)
(* from an old reading and that a lasting one is shown, for every queue,   *)
(* rate and set of readings, and for every beat of MonitoringTask of three *)
(* periods at least; and that no event is lost and a lasting fire is       *)
(* answered, for every queue and rate that hold what the tasks can send.   *)
(***************************************************************************)
EXTENDS Alarm, TLAPS

-----------------------------------------------------------------------------
(* Types                                                                   *)

LEMMA ReadingsType ==
  /\ Nothing \in Readings
  /\ \A temp \in Temps, gas \in Gases : [temp |-> temp, gas |-> gas] \in Readings
  /\ \A temp \in Temps, gas \in Gases :
       [[temp |-> temp, gas |-> gas] EXCEPT !.temp = "fault"] \in Readings
BY AlarmAssumption DEF AlarmAssumption, Readings, Nothing

LEMMA AirType ==
  ASSUME NEW a \in [temp : Temps, gas : Gases]
  PROVE  a \in Readings /\ [a EXCEPT !.temp = "fault"] \in Readings
BY AlarmAssumption DEF AlarmAssumption, Readings

(* What SafetyTask has to raise is a sequence of events, with a fire in it *)
(* only for a critical temperature.                                        *)
LEMMA AlertsType ==
  ASSUME NEW r \in Readings
  PROVE  /\ Alerts(r) \in Seq(Events)
         /\ \A i \in DOMAIN Alerts(r) :
              Alerts(r)[i] = "critical_temp" => r.temp = "critical"
<1> DEFINE heat == CASE r.temp = "critical" -> <<"critical_temp">>
                     [] r.temp = "high"     -> <<"overheat">>
                     [] OTHER               -> <<>>
           leak == IF r.gas = "critical" THEN <<"gas_leak">> ELSE <<>>
<1>1. Alerts(r) = heat \o leak
  BY DEF Alerts
<1>2. \/ r.temp = "critical" /\ heat = <<"critical_temp">>
      \/ r.temp # "critical" /\ heat = <<"overheat">>
      \/ r.temp # "critical" /\ heat = <<>>
  BY DEF Readings
<1>3. leak = <<"gas_leak">> \/ leak = <<>>
  OBVIOUS
<1>4. /\ "critical_temp" \in Events /\ "overheat" \in Events /\ "gas_leak" \in Events
      /\ "overheat" # "critical_temp" /\ "gas_leak" # "critical_temp"
  BY DEF Events
<1> HIDE DEF heat, leak
<1>5. CASE r.temp = "critical" /\ heat = <<"critical_temp">>
  <2>1. CASE leak = <<>>
    BY <1>1, <1>4, <1>5, <2>1
  <2>2. CASE leak = <<"gas_leak">>
    BY <1>1, <1>4, <1>5, <2>2
  <2> QED  BY <1>3, <2>1, <2>2
<1>6. CASE r.temp # "critical" /\ heat = <<"overheat">>
  <2>1. CASE leak = <<>>
    BY <1>1, <1>4, <1>6, <2>1
  <2>2. CASE leak = <<"gas_leak">>
    BY <1>1, <1>4, <1>6, <2>2
  <2> QED  BY <1>3, <2>1, <2>2
<1>7. CASE r.temp # "critical" /\ heat = <<>>
  <2>1. CASE leak = <<>>
    BY <1>1, <1>4, <1>7, <2>1
  <2>2. CASE leak = <<"gas_leak">>
    BY <1>1, <1>4, <1>7, <2>2
  <2> QED  BY <1>3, <2>1, <2>2
<1> QED  BY <1>2, <1>5, <1>6, <1>7

LEMMA SendType ==
  ASSUME NEW event \in Events, TypeOK, Send(event)
  PROVE  queue' \in Seq(Events) /\ Len(queue') <= QueueSize /\ lost' \in BOOLEAN
<1>1. queue \in Seq(Events) /\ Len(queue) \in Nat /\ QueueSize \in Nat
  BY AlarmAssumption DEF AlarmAssumption, TypeOK
<1>2. CASE Len(queue) < QueueSize
  <2>1. queue' = Append(queue, event) /\ UNCHANGED lost
    BY <1>2 DEF Send
  <2>2. Append(queue, event) \in Seq(Events) /\ Len(Append(queue, event)) = Len(queue) + 1
    BY <1>1
  <2> QED  BY <1>1, <1>2, <2>1, <2>2 DEF TypeOK
<1>3. CASE ~(Len(queue) < QueueSize)
  BY <1>3 DEF Send, TypeOK
<1> QED  BY <1>2, <1>3

LEMMA RaiseType ==
  ASSUME NEW event \in Events, TypeOK, Raise(event)
  PROVE  /\ queue' \in Seq(Events) /\ Len(queue') <= QueueSize /\ lost' \in BOOLEAN
         /\ bits' \subseteq UNION {BitsOf(e) : e \in Events}
         /\ state' \in {"normal", "warning", "emergency", "critical"}
<1>1. Send(event)
  BY DEF Raise
<1>2. queue' \in Seq(Events) /\ Len(queue') <= QueueSize /\ lost' \in BOOLEAN
  BY <1>1, SendType
<1>3. bits' \subseteq UNION {BitsOf(e) : e \in Events}
  BY DEF Raise, TypeOK
<1>4. state' \in {"normal", "warning", "emergency", "critical"}
  BY DEF Raise, StateOf
<1> QED  BY <1>2, <1>3, <1>4

LEMMA TypeInit == Init => TypeOK
<1> SUFFICES ASSUME Init PROVE TypeOK
  OBVIOUS
<1>1. Nothing \in Readings
  BY ReadingsType
<1>2. air \in [temp : Temps, gas : Gases]
  BY DEF Init
<1>3. 0 \in 0..(Patience + 1) /\ Lag + 1 \in 0..(Lag + 1) /\ 0 \in 0..(Lag + 1)
        /\ Answer + 1 \in 0..(Answer + 1)
  BY DEF Patience, Lag, Answer
<1>4. /\ data \in Seq(Readings) /\ Len(data) <= 1
      /\ queue \in Seq(Events) /\ Len(queue) <= QueueSize /\ due \in 0..Rate
  BY AlarmAssumption DEF AlarmAssumption, Init
<1>5. /\ sensor \in [at : {"due", "write", "done"}, reading : Readings]
      /\ safety \in [at : {"due", "done"}, todo : Seq(Events)]
      /\ others \in [raised : SUBSET Others, warns : BOOLEAN, rest : 0..Pause]
  BY <1>1, AlarmAssumption DEF AlarmAssumption, Init
<1>6. monitor \in [at : {"sleep", "peek", "write"}, copy : Readings, slept : 0..Beat]
  BY <1>1, AlarmAssumption DEF AlarmAssumption, Init
<1>7. /\ bits \subseteq UNION {BitsOf(event) : event \in Events}
      /\ state \in {"normal", "warning", "emergency", "critical"} /\ lost \in BOOLEAN
      /\ hot \in 0..(Patience + 1) /\ cold \in 0..(Lag + 1) /\ heard \in 0..(Answer + 1)
  BY <1>3 DEF Init
<1> QED  BY <1>2, <1>4, <1>5, <1>6, <1>7 DEF TypeOK

LEMMA TypeStep == TypeOK /\ [Next]_vars => TypeOK'
<1> SUFFICES ASSUME TypeOK, [Next]_vars PROVE TypeOK'
  OBVIOUS
<1> USE AlarmAssumption DEF AlarmAssumption
<1>1. CASE Measure
  <2>1. air \in Readings /\ [air EXCEPT !.temp = "fault"] \in Readings
    BY AirType DEF TypeOK
  <2>2. sensor' \in [at : {"due", "write", "done"}, reading : Readings]
    BY <1>1, <2>1 DEF Measure
  <2>3. hot' \in 0..(Patience + 1)
    BY <1>1 DEF Measure, TypeOK, Patience
  <2> QED  BY <1>1, <2>2, <2>3 DEF Measure, TypeOK
<1>2. CASE Overwrite
  BY <1>2, ReadingsType DEF Overwrite, TypeOK, history
<1>3. CASE Peek
  <2>1. safety' \in [at : {"due", "done"}, todo : Seq(Events)]
    <3>1. CASE data = <<>>
      BY <1>3, <3>1 DEF Peek
    <3>2. CASE data # <<>>
      <4>1. Head(data) \in Readings
        BY <3>2 DEF TypeOK
      <4> QED  BY <1>3, <3>2, <4>1, AlertsType DEF Peek
    <3> QED  BY <3>1, <3>2
  <2> QED  BY <1>3, <2>1 DEF Peek, TypeOK, history
<1>4. CASE Alert
  <2>1. Head(safety.todo) \in Events /\ Tail(safety.todo) \in Seq(Events)
    BY <1>4 DEF Alert, TypeOK
  <2>2. Raise(Head(safety.todo))
    BY <1>4 DEF Alert
  <2>3. /\ queue' \in Seq(Events) /\ Len(queue') <= QueueSize /\ lost' \in BOOLEAN
        /\ bits' \subseteq UNION {BitsOf(e) : e \in Events}
        /\ state' \in {"normal", "warning", "emergency", "critical"}
    BY <2>1, <2>2, RaiseType
  <2>4. safety' \in [at : {"due", "done"}, todo : Seq(Events)]
    BY <1>4, <2>1 DEF Alert, TypeOK
  <2> QED  BY <1>4, <2>3, <2>4 DEF Alert, TypeOK
<1>5. CASE Listen
  <2>1. monitor' \in [at : {"sleep", "peek", "write"}, copy : Readings, slept : 0..Beat]
    <3>1. monitor.slept - Beat = 0
      BY <1>5 DEF Listen, TypeOK
    <3>2. monitor' = [monitor EXCEPT !.at = "peek", !.slept = 0]
      BY <1>5, <3>1 DEF Listen
    <3>3. 0 \in 0..Beat /\ "peek" \in {"sleep", "peek", "write"}
      OBVIOUS
    <3> QED  BY <3>2, <3>3 DEF TypeOK
  <2>2. PICK noise \in Noises :
          CASE noise = "alarm"   -> Raise("noise_alarm")
            [] noise = "warning" -> Send("noise_warning") /\ UNCHANGED <<bits, state>>
            [] OTHER             -> UNCHANGED <<queue, bits, state, lost>>
    BY <1>5 DEF Listen
  <2>3. /\ queue' \in Seq(Events) /\ Len(queue') <= QueueSize /\ lost' \in BOOLEAN
        /\ bits' \subseteq UNION {BitsOf(e) : e \in Events}
        /\ state' \in {"normal", "warning", "emergency", "critical"}
    <3>1. "noise_alarm" \in Events /\ "noise_warning" \in Events
      BY DEF Events
    <3>2. CASE noise = "alarm"
      <4>1. Raise("noise_alarm")
        BY <2>2, <3>2
      <4> QED  BY <3>1, <4>1, RaiseType
    <3>3. CASE noise = "warning"
      <4>1. Send("noise_warning") /\ UNCHANGED <<bits, state>>
        BY <2>2, <3>3
      <4>2. queue' \in Seq(Events) /\ Len(queue') <= QueueSize /\ lost' \in BOOLEAN
        BY <3>1, <4>1, SendType
      <4> QED  BY <4>1, <4>2 DEF TypeOK
    <3>4. CASE noise \notin {"alarm", "warning"}
      BY <2>2, <3>4 DEF TypeOK
    <3> QED  BY <3>2, <3>3, <3>4
  <2> QED  BY <1>5, <2>1, <2>3 DEF Listen, TypeOK
<1>6. CASE Copy
  <2>1. data # <<>> => Head(data) \in Readings
    BY DEF TypeOK
  <2>2. monitor' \in [at : {"sleep", "peek", "write"}, copy : Readings, slept : 0..Beat]
    BY <1>6, <2>1 DEF Copy, TypeOK
  <2> QED  BY <1>6, <2>2 DEF Copy, TypeOK, history
<1>7. CASE WriteBack
  <2>1. monitor' \in [at : {"sleep", "peek", "write"}, copy : Readings, slept : 0..Beat]
    BY <1>7, ReadingsType DEF WriteBack, TypeOK
  <2>2. data' \in Seq(Readings) /\ Len(data') <= 1
    BY <1>7 DEF WriteBack, TypeOK
  <2> QED  BY <1>7, <2>1, <2>2 DEF WriteBack, TypeOK, history
<1>8. CASE OtherAlert
  <2>1. PICK event \in (Others \ {"door"}) \ others.raised :
          /\ Raise(event)
          /\ others' = [others EXCEPT !.raised = @ \cup {event},
                                      !.rest = IF event = "vibration" THEN 0 ELSE @]
    BY <1>8 DEF OtherAlert
  <2>2. event \in Events
    BY DEF Events
  <2>3. /\ queue' \in Seq(Events) /\ Len(queue') <= QueueSize /\ lost' \in BOOLEAN
        /\ bits' \subseteq UNION {BitsOf(e) : e \in Events}
        /\ state' \in {"normal", "warning", "emergency", "critical"}
    BY <2>1, <2>2, RaiseType
  <2>4. others' \in [raised : SUBSET Others, warns : BOOLEAN, rest : 0..Pause]
    <3>1. others.raised \cup {event} \in SUBSET Others
      BY DEF TypeOK
    <3> DEFINE rest == IF event = "vibration" THEN 0 ELSE others.rest
    <3>2. rest \in 0..Pause
      BY DEF TypeOK
    <3>3. others' = [others EXCEPT !.raised = others.raised \cup {event}, !.rest = rest]
      BY <2>1
    <3> HIDE DEF rest
    <3> QED  BY <3>1, <3>2, <3>3 DEF TypeOK
  <2> QED  BY <1>8, <2>3, <2>4 DEF OtherAlert, TypeOK
<1>9. CASE DoorTest
  <2>1. Send("door") /\ "door" \in Events
    BY <1>9 DEF DoorTest, Events
  <2>2. queue' \in Seq(Events) /\ Len(queue') <= QueueSize /\ lost' \in BOOLEAN
    BY <2>1, SendType
  <2>3. others' \in [raised : SUBSET Others, warns : BOOLEAN, rest : 0..Pause]
    BY <1>9 DEF DoorTest, TypeOK
  <2> QED  BY <1>9, <2>2, <2>3 DEF DoorTest, TypeOK, history
<1>10. CASE DoorWarn
  <2>1. others' \in [raised : SUBSET Others, warns : BOOLEAN, rest : 0..Pause]
    BY <1>10 DEF DoorWarn, TypeOK
  <2>2. state' \in {"normal", "warning", "emergency", "critical"}
    BY <1>10 DEF DoorWarn
  <2> QED  BY <1>10, <2>1, <2>2 DEF DoorWarn, TypeOK, history
<1>11. CASE Receive
  <2>1. queue' \in Seq(Events) /\ Len(queue') <= QueueSize
    BY <1>11 DEF Receive, TypeOK
  <2>2. due' \in 0..Rate /\ heard' \in 0..(Answer + 1)
    BY <1>11 DEF Receive, TypeOK, Answer
  <2> QED  BY <1>11, <2>1, <2>2 DEF Receive, TypeOK
<1>12. CASE Air
  <2>1. air' \in [temp : Temps, gas : Gases]
    BY <1>12 DEF Air
  <2>2. hot' \in 0..(Patience + 1) /\ cold' \in 0..(Lag + 1)
    BY <1>12 DEF Air, TypeOK, Patience, Lag
  <2> QED  BY <1>12, <2>1, <2>2 DEF Air, TypeOK
<1>13. CASE Tick
  <2>1. hot' \in 0..(Patience + 1) /\ cold' \in 0..(Lag + 1) /\ heard' \in 0..(Answer + 1)
    BY <1>13 DEF Tick, TypeOK, Patience, Lag, Answer, Older
  <2>2. due' \in 0..Rate
    BY <1>13 DEF Tick, TypeOK
  <2>3. monitor' \in [at : {"sleep", "peek", "write"}, copy : Readings, slept : 0..Beat]
    <3>1. monitor.slept + 1 \in 0..Beat
      BY <1>13 DEF Tick, TypeOK
    <3>2. monitor' = [monitor EXCEPT !.slept = monitor.slept + 1]
      BY <1>13 DEF Tick
    <3> QED  BY <3>1, <3>2 DEF TypeOK
  <2>4. /\ sensor' \in [at : {"due", "write", "done"}, reading : Readings]
        /\ safety' \in [at : {"due", "done"}, todo : Seq(Events)]
    BY <1>13 DEF Tick, TypeOK
  <2>5. others' \in [raised : SUBSET Others, warns : BOOLEAN, rest : 0..Pause]
    <3>1. Older(others.rest, Pause) \in 0..Pause
      BY DEF Older, TypeOK
    <3>2. others' = [raised |-> {}, warns |-> FALSE, rest |-> Older(others.rest, Pause)]
      BY <1>13 DEF Tick
    <3> HIDE DEF Older
    <3> QED  BY <3>1, <3>2
  <2> QED  BY <1>13, <2>1, <2>2, <2>3, <2>4, <2>5 DEF Tick, TypeOK
<1>14. CASE UNCHANGED vars
  BY <1>14 DEF vars, history, TypeOK
<1> QED
  BY <1>1, <1>2, <1>3, <1>4, <1>5, <1>6, <1>7, <1>8, <1>9, <1>10, <1>11, <1>12,
     <1>13, <1>14 DEF Next

(* The types of all state of Alarm, the bound of xEventQueue among them.   *)
THEOREM TypeCorrect == Spec => []TypeOK
BY TypeInit, TypeStep, PTL DEF Spec

-----------------------------------------------------------------------------
(* How old a reading of a fire can be, for each place it is kept.  It is   *)
(* measured and written within a period; MonitoringTask can hold a copy    *)
(* over the end of one period, and what it puts back stays until           *)
(* SensorTask writes again.  It copies the next time when at least two     *)
(* periods have passed, hence never what it has itself put back.           *)

Hot(reading) == reading.temp = "critical"

(* The time since the fire that the reading in xDataQueue can have.        *)
DataAge ==
  IF monitor.at = "sleep" /\ monitor.slept <= 1 THEN 1 + monitor.slept
  ELSE IF sensor.at = "done" THEN 0
  ELSE IF monitor.at = "sleep" /\ monitor.slept = 2 THEN 3
  ELSE 1

AirInv    == Hot(air) => cold = 0
SensorInv == sensor.at = "write" /\ Hot(sensor.reading) => cold = 0
DataInv   == data # <<>> /\ Hot(Head(data)) => cold <= DataAge
CopyInv   == monitor.at = "write" /\ Hot(monitor.copy) => cold <= 1 + monitor.slept
SleptInv  == monitor.at # "sleep" => monitor.slept <= 1
TodoInv   == \A i \in DOMAIN safety.todo : safety.todo[i] = "critical_temp" => cold <= Lag

RealInv == AirInv /\ SensorInv /\ DataInv /\ CopyInv /\ SleptInv /\ TodoInv

LEMMA RealInit == Init => RealInv
<1> SUFFICES ASSUME Init PROVE RealInv
  OBVIOUS
<1>1. AirInv
  BY DEF Init, AirInv, Hot
<1>2. SensorInv /\ DataInv /\ CopyInv /\ SleptInv
  BY DEF Init, SensorInv, DataInv, CopyInv, SleptInv
<1>3. safety.todo = <<>>
  BY DEF Init
<1> QED  BY <1>1, <1>2, <1>3 DEF RealInv, TodoInv

LEMMA RealStep ==
  ASSUME Beat >= 3, TypeOK, RealInv, [Next]_vars
  PROVE  RealInv'
<1>0. /\ Beat \in Nat /\ cold \in Nat /\ monitor.slept \in Nat /\ monitor.slept <= Beat
      /\ monitor.at \in {"sleep", "peek", "write"} /\ sensor.at \in {"due", "write", "done"}
      /\ cold <= Lag + 1 /\ Lag = 3 /\ data \in Seq(Readings) /\ Len(data) <= 1
  BY AlarmAssumption DEF AlarmAssumption, TypeOK, Lag
<1>m. /\ monitor = [at |-> monitor.at, copy |-> monitor.copy, slept |-> monitor.slept]
      /\ sensor = [at |-> sensor.at, reading |-> sensor.reading]
  BY DEF TypeOK
<1> USE DEF RealInv
(* The steps that leave everything this is about as it is.                 *)
<1>1. CASE UNCHANGED <<air, data, sensor, safety, monitor, cold>>
  BY <1>1 DEF AirInv, SensorInv, DataInv, DataAge, CopyInv, SleptInv, TodoInv, Hot
<1>2. CASE Measure
  <2>1. UNCHANGED <<air, data, safety, monitor, cold>>
    BY <1>2 DEF Measure
  <2>2. SensorInv'
    <3>1. sensor'.reading = air \/ sensor'.reading.temp = "fault"
      BY <1>2 DEF Measure, TypeOK
    <3> QED  BY <2>1, <3>1 DEF SensorInv, AirInv, Hot
  <2>3. DataInv'
    <3>1. sensor.at # "done" /\ sensor'.at # "done"
      BY <1>2 DEF Measure
    <3> QED  BY <2>1, <3>1 DEF DataInv, DataAge, Hot
  <2> QED  BY <2>1, <2>2, <2>3 DEF AirInv, CopyInv, SleptInv, TodoInv, Hot
<1>3. CASE Overwrite
  <2>1. UNCHANGED <<air, safety, monitor, cold>> /\ sensor'.at = "done"
    BY <1>3 DEF Overwrite, history
  <2>2. DataInv'
    <3>1. Head(data') = sensor.reading /\ sensor.at = "write"
      BY <1>3 DEF Overwrite
    <3> QED  BY <1>0, <2>1, <3>1 DEF SensorInv, DataInv, DataAge, Hot
  <2> QED  BY <2>1, <2>2 DEF AirInv, SensorInv, CopyInv, SleptInv, TodoInv, Hot
<1>4. CASE Peek
  <2>1. UNCHANGED <<air, data, sensor, monitor, cold>>
    BY <1>4 DEF Peek, history
  <2>2. TodoInv'
    <3>1. CASE data = <<>>
      BY <1>4, <3>1 DEF Peek, TodoInv
    <3>2. CASE data # <<>>
      <4>1. safety'.todo = Alerts(Head(data)) /\ Head(data) \in Readings
        BY <1>0, <1>4, <3>2 DEF Peek
      <4>2. Hot(Head(data)) => cold <= Lag
        BY <1>0, <3>2 DEF DataInv, DataAge
      <4> QED  BY <2>1, <4>1, <4>2, AlertsType DEF TodoInv, Hot
    <3> QED  BY <3>1, <3>2
  <2> QED  BY <2>1, <2>2 DEF AirInv, SensorInv, DataInv, DataAge, CopyInv, SleptInv, Hot
<1>5. CASE Alert
  <2>1. UNCHANGED <<air, data, sensor, monitor, cold>>
    BY <1>5 DEF Alert
  <2>2. safety'.todo = Tail(safety.todo) /\ safety.todo \in Seq(Events) /\ safety.todo # <<>>
    BY <1>5 DEF Alert, TypeOK
  <2>3. \A i \in DOMAIN safety'.todo :
          i + 1 \in DOMAIN safety.todo /\ safety'.todo[i] = safety.todo[i + 1]
    BY <2>2
  <2>4. TodoInv'
    BY <2>1, <2>3 DEF TodoInv
  <2> QED  BY <2>1, <2>4 DEF AirInv, SensorInv, DataInv, DataAge, CopyInv, SleptInv, Hot
<1>6. CASE Listen
  <2>1. /\ UNCHANGED <<air, data, sensor, safety, cold>>
        /\ monitor.at = "sleep" /\ monitor.slept = Beat
        /\ monitor'.at = "peek" /\ monitor'.slept = 0
    BY <1>0, <1>6 DEF Listen, TypeOK
  <2>2. DataInv'
    BY <1>0, <2>1 DEF DataInv, DataAge, Hot
  <2> QED  BY <2>1, <2>2 DEF AirInv, SensorInv, CopyInv, SleptInv, TodoInv, Hot
<1>7. CASE Copy
  <2>1. /\ UNCHANGED <<air, data, sensor, safety, cold>>
        /\ monitor.at = "peek" /\ monitor'.slept = monitor.slept
    BY <1>7 DEF Copy, history, TypeOK
  <2>2. CASE data = <<>>
    <3>1. monitor'.at = "sleep"
      BY <1>7, <2>2 DEF Copy, TypeOK
    <3> QED  BY <2>1, <2>2, <3>1 DEF AirInv, SensorInv, DataInv, CopyInv, SleptInv, TodoInv, Hot
  <2>3. CASE data # <<>>
    <3>1. monitor'.at = "write" /\ monitor'.copy = Head(data)
      BY <1>7, <2>3 DEF Copy, TypeOK
    <3>2. Hot(Head(data)) => cold <= 1
      BY <1>0, <2>1, <2>3 DEF DataInv, DataAge
    <3>3. CopyInv'
      BY <1>0, <2>1, <3>1, <3>2 DEF CopyInv, Hot
    <3>4. DataInv'
      BY <1>0, <2>1, <3>1 DEF DataInv, DataAge, Hot
    <3> QED  BY <2>1, <3>1, <3>3, <3>4 DEF AirInv, SensorInv, SleptInv, TodoInv, Hot
  <2> QED  BY <2>2, <2>3
<1>8. CASE WriteBack
  <2>1. /\ UNCHANGED <<air, sensor, safety, cold>>
        /\ monitor.at = "write" /\ monitor'.at = "sleep" /\ monitor'.slept = monitor.slept
        /\ Head(data') = monitor.copy
    BY <1>8 DEF WriteBack, history, TypeOK
  <2>2. DataInv'
    BY <1>0, <2>1 DEF CopyInv, SleptInv, DataInv, DataAge, Hot
  <2> QED  BY <2>1, <2>2 DEF AirInv, SensorInv, CopyInv, SleptInv, TodoInv, Hot
<1>9. CASE Air
  <2>1. UNCHANGED <<data, sensor, safety, monitor>>
    BY <1>9 DEF Air
  <2>2. cold' \in Nat /\ cold' <= cold
    BY <1>0, <1>9 DEF Air
  <2>3. AirInv'
    BY <1>9 DEF Air, AirInv, Hot
  <2>4. DataAge' = DataAge /\ DataAge \in Nat
    BY <1>0, <2>1 DEF DataAge
  <2>5. SensorInv' /\ DataInv' /\ CopyInv' /\ SleptInv' /\ TodoInv'
    BY <1>0, <2>1, <2>2, <2>4 DEF SensorInv, DataInv, CopyInv, SleptInv, TodoInv, Hot, Lag
  <2> QED  BY <2>3, <2>5
<1>10. CASE Tick
  <2>1. /\ UNCHANGED <<air, data>> /\ sensor.at = "done" /\ sensor'.at = "due"
        /\ monitor'.at = monitor.at /\ monitor'.copy = monitor.copy
        /\ monitor'.slept = monitor.slept + 1
        /\ monitor.at # "sleep" => monitor.slept = 0
    BY <1>0, <1>10 DEF Tick, TypeOK
  <2>2. safety'.todo = <<>>
    BY <1>10 DEF Tick, TypeOK
  <2>3. cold' \in Nat /\ cold' <= cold + 1 /\ (Hot(air) => cold' = 0)
    BY <1>0, <1>10 DEF Tick, Older, Hot
  <2>4. AirInv' /\ SensorInv' /\ TodoInv'
    BY <2>1, <2>2, <2>3 DEF AirInv, SensorInv, TodoInv, Hot
  <2>5. SleptInv'
    BY <1>0, <2>1 DEF SleptInv
  <2>6. CopyInv'
    BY <1>0, <2>1, <2>3 DEF CopyInv, Hot
  <2>7. DataInv'
    BY <1>0, <2>1, <2>3 DEF DataInv, DataAge, Hot
  <2> QED  BY <2>4, <2>5, <2>6, <2>7
<1>11. CASE OtherAlert \/ DoorTest \/ DoorWarn \/ Receive
  <2>1. UNCHANGED <<air, data, sensor, safety, monitor, cold>>
    BY <1>11 DEF OtherAlert, DoorTest, DoorWarn, Receive, history
  <2> QED  BY <1>1, <2>1
<1>12. CASE UNCHANGED vars
  BY <1>1, <1>12 DEF vars, history
<1> QED
  BY <1>2, <1>3, <1>4, <1>5, <1>6, <1>7, <1>8, <1>9, <1>10, <1>11, <1>12 DEF Next

(* A fire is not made up: what SafetyTask raises a fire for was measured   *)
(* at most Lag periods ago, although MonitoringTask puts old readings back *)
(* over new ones, if its beat is of three periods at least.  With a beat   *)
(* of two it can put back for ever what it has itself put back.            *)
THEOREM FiresAreReal == ASSUME Beat >= 3 PROVE Spec => []FireIsReal
<1>1. Init => RealInv
  BY RealInit
<1>2. TypeOK /\ RealInv /\ [Next]_vars => RealInv'
  BY RealStep
<1>3. RealInv => FireIsReal
  BY DEF RealInv, TodoInv, FireIsReal
<1> QED  BY <1>1, <1>2, <1>3, TypeCorrect, PTL DEF Spec

-----------------------------------------------------------------------------
(* What a fire that lasts has come to, by the periods it has been had for. *)
(* A reading from before it can be written over a newer one while          *)
(* MonitoringTask holds a copy, which is over within the second period;    *)
(* what it put back is gone when SensorTask writes in the third.  From the *)
(* fourth on every peek finds the fire and the state is normal no more, so *)
(* no door is to be a warning in the fifth, and from the sixth on the      *)
(* alarm stays.                                                            *)

BadData == data = <<>> \/ ~Hot(Head(data))
BadCopy == monitor.at = "write" /\ ~Hot(monitor.copy)
Asleep(most) == monitor.at = "sleep" /\ monitor.slept <= most

SeenInv ==
  /\ hot >= 1 => /\ Hot(air)
                 /\ sensor.at = "write" => Hot(sensor.reading)
  /\ hot = 1 /\ sensor.at = "done" /\ BadData => Asleep(1)
  /\ hot = 2 => /\ BadCopy => monitor.slept = 1
                /\ BadData => Asleep(IF sensor.at = "done" THEN 1 ELSE 2)
  /\ hot = 3 => /\ ~BadCopy
                /\ BadData => sensor.at # "done" /\ Asleep(2)
  /\ hot >= 4 => ~BadCopy /\ ~BadData

Alarmed == state \in {"critical", "emergency"}
Pending == safety.todo # <<>> /\ Head(safety.todo) = "critical_temp"

ShownInv ==
  /\ hot >= 4 /\ safety.at = "done" => Pending \/ state # "normal"
  /\ hot >= 5 => /\ state # "normal" /\ ~others.warns
                 /\ safety.at = "done" => Pending \/ Alarmed
  /\ hot >= 6 => Alarmed

(* A fire that is peeked at is the first event SafetyTask raises.          *)
LEMMA HotAlert ==
  ASSUME NEW r \in Readings, Hot(r)
  PROVE  Alerts(r) # <<>> /\ Head(Alerts(r)) = "critical_temp"
<1> DEFINE leak == IF r.gas = "critical" THEN <<"gas_leak">> ELSE <<>>
<1>1. Alerts(r) = <<"critical_temp">> \o leak
  BY DEF Alerts, Hot
<1>2. leak = <<"gas_leak">> \/ leak = <<>>
  OBVIOUS
<1> HIDE DEF leak
<1>3. CASE leak = <<>>
  BY <1>1, <1>3
<1>4. CASE leak = <<"gas_leak">>
  BY <1>1, <1>4
<1> QED  BY <1>2, <1>3, <1>4

LEMMA RaiseAlarms ==
  ASSUME NEW event, Raise(event)
  PROVE  Alarmed'
BY DEF Raise, StateOf, Alarmed

LEMMA SeenStep ==
  ASSUME Beat >= 3, TypeOK, SleptInv, SeenInv, [Next]_vars
  PROVE  SeenInv'
<1>0. /\ Beat \in Nat /\ hot \in Nat /\ monitor.slept \in Nat /\ monitor.slept <= Beat
      /\ monitor.at \in {"sleep", "peek", "write"} /\ sensor.at \in {"due", "write", "done"}
      /\ hot <= 6 /\ data \in Seq(Readings) /\ Len(data) <= 1
  BY AlarmAssumption DEF AlarmAssumption, TypeOK, Patience
<1>1. CASE UNCHANGED <<air, data, sensor, monitor, hot>>
  BY <1>1 DEF SeenInv, BadData, BadCopy, Asleep, Hot
<1>2. CASE Measure
  <2>1. /\ UNCHANGED <<air, data, monitor>> /\ sensor.at = "due" /\ sensor'.at = "write"
        /\ hot' = 0 \/ (hot' = hot /\ sensor'.reading = air)
    BY <1>2 DEF Measure, TypeOK
  <2>2. BadData' = BadData /\ BadCopy' = BadCopy /\ Asleep(1)' = Asleep(1) /\ Asleep(2)' = Asleep(2)
    BY <2>1 DEF BadData, BadCopy, Asleep, Hot
  <2> QED  BY <1>0, <2>1, <2>2 DEF SeenInv, Hot
<1>3. CASE Overwrite
  <2>1. /\ UNCHANGED <<air, monitor, hot>> /\ sensor.at = "write" /\ sensor'.at = "done"
        /\ data' = <<sensor.reading>>
    BY <1>3 DEF Overwrite, history
  <2>2. hot >= 1 => ~BadData'
    BY <1>0, <2>1 DEF SeenInv, BadData, Hot
  <2>3. BadCopy' = BadCopy
    BY <2>1 DEF BadCopy, Hot
  <2> QED  BY <1>0, <2>1, <2>2, <2>3 DEF SeenInv, Hot
<1>4. CASE Listen
  <2>1. /\ UNCHANGED <<air, data, sensor, hot>> /\ monitor'.at = "peek"
        /\ monitor.slept >= 3 /\ monitor.at = "sleep"
    BY <1>0, <1>4 DEF Listen, TypeOK
  <2>2. BadData' = BadData /\ ~BadCopy' /\ ~Asleep(1) /\ ~Asleep(2)
    BY <1>0, <2>1 DEF BadData, BadCopy, Asleep, Hot
  <2> QED  BY <1>0, <2>1, <2>2 DEF SeenInv, Hot
<1>5. CASE Copy
  <2>1. /\ UNCHANGED <<air, data, sensor, hot>> /\ monitor.at = "peek"
        /\ monitor'.slept = monitor.slept
        /\ \/ data = <<>> /\ monitor'.at = "sleep"
           \/ data # <<>> /\ monitor'.at = "write" /\ monitor'.copy = Head(data)
    BY <1>5 DEF Copy, history, TypeOK
  <2>2. ~Asleep(1) /\ ~Asleep(2) /\ BadData' = BadData
    BY <2>1 DEF BadData, Asleep, Hot
  <2>3. BadCopy' => BadData
    BY <2>1 DEF BadData, BadCopy, Hot
  <2> QED  BY <1>0, <2>1, <2>2, <2>3 DEF SeenInv, Hot
<1>6. CASE WriteBack
  <2>1. /\ UNCHANGED <<air, sensor, hot>> /\ monitor.at = "write" /\ monitor'.at = "sleep"
        /\ monitor'.slept = monitor.slept /\ data' = <<monitor.copy>>
    BY <1>6 DEF WriteBack, history, TypeOK
  <2>2. BadData' = BadCopy /\ ~BadCopy' /\ Asleep(1)' /\ Asleep(2)'
    BY <1>0, <2>1 DEF BadData, BadCopy, Asleep, Hot, SleptInv
  <2> QED  BY <1>0, <2>1, <2>2 DEF SeenInv, Hot
<1>7. CASE Air
  <2>1. UNCHANGED <<data, sensor, monitor>> /\ (hot' = 0 \/ (hot' = hot /\ Hot(air')))
    BY <1>7 DEF Air, Hot
  <2>2. BadData' = BadData /\ BadCopy' = BadCopy /\ Asleep(1)' = Asleep(1) /\ Asleep(2)' = Asleep(2)
    BY <2>1 DEF BadData, BadCopy, Asleep, Hot
  <2> QED  BY <1>0, <2>1, <2>2 DEF SeenInv, Hot
<1>8. CASE Tick
  <2>1. /\ UNCHANGED <<air, data>> /\ sensor.at = "done" /\ sensor'.at = "due"
        /\ monitor'.at = monitor.at /\ monitor'.copy = monitor.copy
        /\ monitor'.slept = monitor.slept + 1
        /\ monitor.at # "sleep" => monitor.slept = 0
    BY <1>0, <1>8 DEF Tick, TypeOK
  <2>2. /\ Hot(air) \/ hot' = 0
        /\ hot' = 0 \/ hot' = hot + 1 \/ (hot = 6 /\ hot' = 6)
    BY <1>0, <1>8 DEF Tick, Older, Patience, Hot
  <2>3. BadData' = BadData /\ BadCopy' = BadCopy /\ (Asleep(1) => Asleep(2)')
    BY <1>0, <2>1 DEF BadData, BadCopy, Asleep, Hot
  <2>4. BadCopy => monitor.slept = 0 /\ monitor'.slept = 1
    BY <1>0, <2>1 DEF BadCopy
  <2>5. CASE hot' = 0 \/ hot' = 1
    BY <1>0, <2>1, <2>2, <2>5 DEF SeenInv, Hot
  <2>6. CASE hot = 1 /\ hot' = 2
    BY <1>0, <2>1, <2>2, <2>3, <2>4, <2>6 DEF SeenInv, Hot
  <2>7. CASE hot = 2 /\ hot' = 3
    BY <1>0, <2>1, <2>2, <2>3, <2>4, <2>7 DEF SeenInv, Hot
  <2>8. CASE hot >= 3 /\ hot' >= 4
    BY <1>0, <2>1, <2>2, <2>3, <2>8 DEF SeenInv, Hot
  <2> QED  BY <1>0, <2>2, <2>5, <2>6, <2>7, <2>8
<1>9. CASE Peek \/ Alert \/ OtherAlert \/ DoorTest \/ DoorWarn \/ Receive \/ UNCHANGED vars
  <2>1. UNCHANGED <<air, data, sensor, monitor, hot>>
    BY <1>9 DEF Peek, Alert, OtherAlert, DoorTest, DoorWarn, Receive, vars, history
  <2> QED  BY <1>1, <2>1
<1> QED
  BY <1>2, <1>3, <1>4, <1>5, <1>6, <1>7, <1>8, <1>9 DEF Next

LEMMA ShownStep ==
  ASSUME TypeOK, SeenInv, ShownInv, [Next]_vars
  PROVE  ShownInv'
<1>0. hot \in Nat /\ hot <= 6
  BY DEF TypeOK, Patience
<1>1. CASE UNCHANGED <<safety, others, state>> /\ (hot' = 0 \/ hot' = hot)
  BY <1>0, <1>1 DEF ShownInv, Pending, Alarmed
(* An alarm is raised, and no door is tested.                              *)
<1>2. CASE Alarmed' /\ UNCHANGED hot /\ others'.warns = others.warns
  <2>1. state' # "normal"
    BY <1>2 DEF Alarmed
  <2> QED  BY <1>0, <1>2, <2>1 DEF ShownInv
<1>3. CASE Peek
  <2>1. UNCHANGED <<others, state, hot>> /\ safety'.todo = IF data = <<>> THEN <<>> ELSE Alerts(Head(data))
    BY <1>3 DEF Peek, history
  <2>2. hot >= 4 => Pending'
    <3>1. SUFFICES ASSUME hot >= 4 PROVE Pending'
      OBVIOUS
    <3>2. data # <<>> /\ Hot(Head(data))
      BY <3>1 DEF SeenInv, BadData
    <3>3. Head(data) \in Readings
      BY <3>2 DEF TypeOK
    <3> QED  BY <2>1, <3>2, <3>3, HotAlert DEF Pending
  <2> QED  BY <1>0, <2>1, <2>2 DEF ShownInv, Alarmed
<1>4. CASE Alert
  <2>1. Raise(Head(safety.todo)) /\ UNCHANGED <<others, hot>>
    BY <1>4 DEF Alert
  <2> QED  BY <1>2, <2>1, RaiseAlarms
<1>5. CASE Listen
  <2>1. UNCHANGED <<safety, others, hot>>
    BY <1>5 DEF Listen
  <2>2. UNCHANGED state \/ Raise("noise_alarm")
    BY <1>5 DEF Listen
  <2> QED  BY <1>1, <1>2, <2>1, <2>2, RaiseAlarms
<1>6. CASE OtherAlert
  <2>1. PICK event \in (Others \ {"door"}) \ others.raised :
          /\ Raise(event)
          /\ others' = [others EXCEPT !.raised = @ \cup {event},
                                      !.rest = IF event = "vibration" THEN 0 ELSE @]
    BY <1>6 DEF OtherAlert
  <2>2. others'.warns = others.warns /\ UNCHANGED hot
    BY <1>6, <2>1 DEF OtherAlert, TypeOK
  <2> QED  BY <1>2, <2>1, <2>2, RaiseAlarms
<1>7. CASE DoorTest
  <2>1. UNCHANGED <<safety, state, hot>> /\ others'.warns = (state = "normal")
    BY <1>7 DEF DoorTest, history
  <2> QED  BY <1>0, <2>1 DEF ShownInv, Pending, Alarmed
<1>8. CASE DoorWarn
  <2>1. UNCHANGED <<safety, hot>> /\ others.warns /\ state' = "warning"
    BY <1>8 DEF DoorWarn, history
  <2> QED  BY <1>0, <2>1 DEF ShownInv
<1>9. CASE Tick
  <2>1. /\ UNCHANGED state /\ safety.at = "done" /\ ~Pending /\ safety'.at = "due"
        /\ ~others'.warns
    BY <1>9 DEF Tick, Pending, TypeOK
  <2>2. hot' = 0 \/ hot' = hot + 1 \/ (hot = 6 /\ hot' = 6)
    BY <1>0, <1>9 DEF Tick, Older, Patience
  <2> QED  BY <1>0, <2>1, <2>2 DEF ShownInv, Alarmed
<1>10. CASE Measure \/ Overwrite \/ Copy \/ WriteBack \/ Receive \/ Air \/ UNCHANGED vars
  <2>1. UNCHANGED <<safety, others, state>> /\ (hot' = 0 \/ hot' = hot)
    BY <1>10 DEF Measure, Overwrite, Copy, WriteBack, Receive, Air, vars, history
  <2> QED  BY <1>1, <2>1
<1> QED
  BY <1>3, <1>4, <1>5, <1>6, <1>7, <1>8, <1>9, <1>10 DEF Next

(* A lasting fire is shown: systemState is an alarm after Patience periods *)
(* of a critical temperature and stays one, although the warning of a door *)
(* that was tested before can cover it and MonitoringTask can put a cooler *)
(* reading back, for every queue, rate and set of readings.                *)
THEOREM AlarmsAreShown == ASSUME Beat >= 3 PROVE Spec => []AlarmIsShown
<1>1. Init => SeenInv /\ ShownInv
  BY DEF Init, SeenInv, ShownInv
<1>2. Init => RealInv
  BY RealInit
<1>3. TypeOK /\ RealInv /\ [Next]_vars => RealInv'
  BY RealStep
<1>4. RealInv => SleptInv
  BY DEF RealInv
<1>5. TypeOK /\ SleptInv /\ SeenInv /\ [Next]_vars => SeenInv'
  BY SeenStep
<1>6. TypeOK /\ SeenInv /\ ShownInv /\ [Next]_vars => ShownInv'
  BY ShownStep
<1>7. TypeOK /\ ShownInv => AlarmIsShown
  BY DEF TypeOK, ShownInv, Alarmed, AlarmIsShown, Patience
<1> QED  BY <1>1, <1>2, <1>3, <1>4, <1>5, <1>6, <1>7, TypeCorrect, PTL DEF Spec

-----------------------------------------------------------------------------
(* How full xEventQueue is.                                                *)

(* How many kinds of alerts of SecurityTask and ScalabilityTask there are  *)
(* among some events, and how many alerts SafetyTask has in a pass.        *)
Kinds(events) ==
  (IF "entry" \in events THEN 1 ELSE 0) + (IF "door" \in events THEN 1 ELSE 0)
    + (IF "vibration" \in events THEN 1 ELSE 0)

Alarms ==
  (IF Temps \cap {"high", "critical"} # {} THEN 1 ELSE 0)
    + (IF "critical" \in Gases THEN 1 ELSE 0)

(* What the proofs need: EmergencyTask keeps up with SafetyTask, the       *)
(* entries and the doors, with one event of MonitoringTask or              *)
(* ScalabilityTask in the same period, and the queue has room for one      *)
(* period more.  In the code the two sums are 5, of 5, and 11, of 12.      *)
KeepsUp ==
  /\ Beat >= 2 /\ Pause >= 2
  /\ Rate >= Alarms + Kinds(Others \ {"vibration"}) + 1
  /\ QueueSize >= Rate + Alarms + Kinds(Others) + 1

(* What SafetyTask has sent in this period, up to a fire; an alert of      *)
(* MonitoringTask in this period; and one of MonitoringTask together with  *)
(* one of ScalabilityTask in the last one, which leave an event over.      *)
Sent  == IF safety.at = "due" \/ Pending THEN 0 ELSE Alarms - Len(safety.todo)
Noise == IF monitor.slept = 0 THEN 1 ELSE 0
Both  == IF monitor.slept = 1 /\ others.rest = 1 THEN 1 ELSE 0

(* What can be in the queue is left over from the last period or has come  *)
(* in this one.                                                            *)
Load == due + Both + Sent + Kinds(others.raised) + Noise

TodoFits ==
  /\ Len(safety.todo) <= Alarms
  /\ safety.at = "due" => safety.todo = <<>>
  /\ \A i \in DOMAIN safety.todo : safety.todo[i] = "critical_temp" => i = 1
RestInv == "vibration" \in others.raised => others.rest = 0

QueueInv == TodoFits /\ RestInv /\ Len(queue) <= Load /\ ~lost

LEMMA KindsType ==
  /\ Kinds({}) = 0
  /\ \A e \in SUBSET Others :
       /\ Kinds(e) \in Nat /\ Kinds(e) <= Kinds(Others)
       /\ "vibration" \notin e => Kinds(e) <= Kinds(Others \ {"vibration"})
       /\ \A event \in Others \ e : /\ Kinds(e \cup {event}) = Kinds(e) + 1
                                    /\ Kinds(e) + 1 <= Kinds(Others)
  /\ Kinds(Others) \in Nat /\ Kinds(Others \ {"vibration"}) \in Nat
  /\ Kinds(Others) <= Kinds(Others \ {"vibration"}) + 1
<1>1. Kinds({}) = 0 /\ Kinds(Others) \in Nat /\ Kinds(Others \ {"vibration"}) \in Nat
        /\ Kinds(Others) <= Kinds(Others \ {"vibration"}) + 1
  BY DEF Kinds
<1>2. ASSUME NEW e \in SUBSET Others
      PROVE  /\ Kinds(e) \in Nat /\ Kinds(e) <= Kinds(Others)
             /\ "vibration" \notin e => Kinds(e) <= Kinds(Others \ {"vibration"})
  BY DEF Kinds
<1>3. ASSUME NEW e \in SUBSET Others, NEW event \in Others \ e
      PROVE  Kinds(e \cup {event}) = Kinds(e) + 1 /\ Kinds(e) + 1 <= Kinds(Others)
  <2>1. event \in {"entry", "door", "vibration"}
    BY AlarmAssumption DEF AlarmAssumption
  <2>2. CASE event = "entry"
    BY <2>2 DEF Kinds
  <2>3. CASE event = "door"
    BY <2>3 DEF Kinds
  <2>4. CASE event = "vibration"
    BY <2>4 DEF Kinds
  <2> QED  BY <2>1, <2>2, <2>3, <2>4
<1> QED  BY <1>1, <1>2, <1>3

(* SafetyTask has no more alerts than there are alarms, the fire first.    *)
LEMMA AlertsFit ==
  ASSUME NEW r \in Readings
  PROVE  /\ Alarms \in Nat /\ Len(Alerts(r)) <= Alarms
         /\ \A i \in DOMAIN Alerts(r) : Alerts(r)[i] = "critical_temp" => i = 1
<1> DEFINE heat == CASE r.temp = "critical" -> <<"critical_temp">>
                     [] r.temp = "high"     -> <<"overheat">>
                     [] OTHER               -> <<>>
           leak == IF r.gas = "critical" THEN <<"gas_leak">> ELSE <<>>
           hots == IF Temps \cap {"high", "critical"} # {} THEN 1 ELSE 0
           gass == IF "critical" \in Gases THEN 1 ELSE 0
<1>1. Alerts(r) = heat \o leak
  BY DEF Alerts
<1>2. r.temp \in Temps \cup {"fault"} /\ r.gas \in Gases \cup {"normal"}
  BY DEF Readings
<1>3. \/ heat = <<"critical_temp">> /\ hots = 1
      \/ heat = <<"overheat">> /\ hots = 1
      \/ heat = <<>> /\ hots \in {0, 1}
  BY <1>2
<1>4. \/ leak = <<"gas_leak">> /\ gass = 1
      \/ leak = <<>> /\ gass \in {0, 1}
  BY <1>2
<1>5. Alarms = hots + gass
  BY DEF Alarms
<1> HIDE DEF heat, leak, hots, gass
<1>6. CASE heat = <<"critical_temp">> /\ hots = 1
  <2>1. CASE leak = <<>>
    BY <1>1, <1>4, <1>5, <1>6, <2>1
  <2>2. CASE leak = <<"gas_leak">>
    BY <1>1, <1>4, <1>5, <1>6, <2>2
  <2> QED  BY <1>4, <2>1, <2>2
<1>7. CASE heat = <<"overheat">> /\ hots = 1
  <2>1. CASE leak = <<>>
    BY <1>1, <1>4, <1>5, <1>7, <2>1
  <2>2. CASE leak = <<"gas_leak">>
    BY <1>1, <1>4, <1>5, <1>7, <2>2
  <2> QED  BY <1>4, <2>1, <2>2
<1>8. CASE heat = <<>> /\ hots \in {0, 1}
  <2>1. CASE leak = <<>>
    BY <1>1, <1>4, <1>5, <1>8, <2>1
  <2>2. CASE leak = <<"gas_leak">>
    BY <1>1, <1>4, <1>5, <1>8, <2>2
  <2> QED  BY <1>4, <2>1, <2>2
<1> QED  BY <1>3, <1>6, <1>7, <1>8

LEMMA AlarmsType == Alarms \in Nat
BY DEF Alarms

(* A fire among the first events of a queue.                               *)
FireIn(list, most) == \E i \in DOMAIN list : i <= most /\ list[i] = "critical_temp"

LEMMA SendArrives ==
  ASSUME TypeOK, NEW event \in Events, Len(queue) < QueueSize, Send(event)
  PROVE  /\ Len(queue') = Len(queue) + 1 /\ lost' = lost
         /\ \A most \in Nat : FireIn(queue, most) => FireIn(queue', most)
         /\ event = "critical_temp" => FireIn(queue', Len(queue) + 1)
<1>1. queue' = Append(queue, event) /\ lost' = lost /\ queue \in Seq(Events)
  BY DEF Send, TypeOK
<1>2. /\ Len(queue') = Len(queue) + 1 /\ Len(queue) \in Nat
      /\ DOMAIN queue = 1..Len(queue) /\ DOMAIN queue' = 1..(Len(queue) + 1)
      /\ \A i \in 1..Len(queue) : queue'[i] = queue[i]
      /\ queue'[Len(queue) + 1] = event
  BY <1>1
<1>3. ASSUME NEW most \in Nat, FireIn(queue, most) PROVE FireIn(queue', most)
  BY <1>2, <1>3 DEF FireIn
<1>4. event = "critical_temp" => FireIn(queue', Len(queue) + 1)
  BY <1>2 DEF FireIn
<1> QED  BY <1>1, <1>2, <1>3, <1>4

(* The numbers the load is made of.                                        *)
LEMMA Numbers ==
  ASSUME TypeOK, QueueInv
  PROVE  /\ due \in Nat /\ due <= Rate /\ Rate \in Nat /\ QueueSize \in Nat /\ Len(queue) \in Nat
         /\ Sent \in Nat /\ Sent <= Alarms /\ Alarms \in Nat
         /\ Kinds(others.raised) \in Nat /\ Kinds(others.raised) <= Kinds(Others)
         /\ Kinds(Others) \in Nat /\ Kinds(Others \ {"vibration"}) \in Nat
         /\ Kinds(Others) <= Kinds(Others \ {"vibration"}) + 1
         /\ Noise \in {0, 1} /\ Both \in {0, 1}
         /\ Both + Noise <= 1
         /\ Both = 1 => Kinds(others.raised) <= Kinds(Others \ {"vibration"})
         /\ Load = due + Both + Sent + Kinds(others.raised) + Noise /\ Len(queue) <= Load
<1>1. /\ due \in Nat /\ due <= Rate /\ Rate \in Nat /\ QueueSize \in Nat /\ Len(queue) \in Nat
      /\ others.raised \in SUBSET Others
  BY AlarmAssumption DEF AlarmAssumption, TypeOK
<1>2. Sent \in Nat /\ Sent <= Alarms /\ Alarms \in Nat
  <2>1. Len(safety.todo) \in Nat /\ Len(safety.todo) <= Alarms
    BY DEF TypeOK, QueueInv, TodoFits
  <2> QED  BY <2>1, AlarmsType DEF Sent
<1>3. /\ Noise \in {0, 1} /\ Both \in {0, 1} /\ (Noise = 1 => Both = 0)
      /\ Both = 1 => "vibration" \notin others.raised
  BY DEF Noise, Both, QueueInv, RestInv
<1>4. Len(queue) <= Load
  BY DEF QueueInv
<1>5. /\ Kinds(others.raised) \in Nat /\ Kinds(others.raised) <= Kinds(Others)
      /\ Kinds(Others) \in Nat /\ Kinds(Others \ {"vibration"}) \in Nat
      /\ Kinds(Others) <= Kinds(Others \ {"vibration"}) + 1
      /\ Both = 1 => Kinds(others.raised) <= Kinds(Others \ {"vibration"})
  BY <1>1, <1>3, KindsType
<1>6. Load = due + Both + Sent + Kinds(others.raised) + Noise
  BY DEF Load
<1>7. Both + Noise <= 1
  BY <1>3
<1> QED  BY <1>1, <1>2, <1>3, <1>4, <1>5, <1>6, <1>7

LEMMA Naturals ==
  ASSUME TypeOK, QueueInv
  PROVE  /\ due \in Nat /\ Both \in Nat /\ Noise \in Nat /\ Sent \in Nat
         /\ Kinds(others.raised) \in Nat /\ Kinds(Others) \in Nat
         /\ Rate \in Nat /\ QueueSize \in Nat /\ Len(queue) \in Nat /\ Load \in Nat
<1>1. /\ due \in Nat /\ Sent \in Nat /\ Kinds(others.raised) \in Nat /\ Kinds(Others) \in Nat
      /\ Rate \in Nat /\ QueueSize \in Nat /\ Len(queue) \in Nat
  BY Numbers
<1>2. Both \in Nat /\ Noise \in Nat
  BY DEF Both, Noise
<1>3. Load \in Nat
  BY <1>1, <1>2 DEF Load
<1> QED  BY <1>1, <1>2, <1>3

(* There is room for an event if anything in the load is not at its most.  *)
LEMMA RoomLeft ==
  ASSUME KeepsUp, TypeOK, QueueInv,
         \/ Sent + 1 <= Alarms
         \/ Kinds(others.raised) + 1 <= Kinds(Others)
         \/ Both = 0 /\ Noise = 0
  PROVE  Len(queue) < QueueSize
<1>1. PICK sent \in Nat, kinds \in Nat, both \in Nat, noise \in Nat, now \in Nat :
        /\ sent = Sent /\ kinds = Kinds(others.raised) /\ both = Both /\ noise = Noise /\ now = due
  BY Naturals
<1>2. PICK alarms \in Nat, most \in Nat, rate \in Nat, size \in Nat, len \in Nat :
        /\ alarms = Alarms /\ most = Kinds(Others) /\ rate = Rate /\ size = QueueSize
        /\ len = Len(queue)
  BY Naturals, AlarmsType
<1>3. sent <= alarms /\ kinds <= most /\ both + noise <= 1 /\ now <= rate
  BY <1>1, <1>2, Numbers
<1>4. len <= now + both + sent + kinds + noise
  <2>1. Len(queue) <= Load
    BY DEF QueueInv
  <2> QED  BY <1>1, <1>2, <2>1 DEF Load
<1>5. size >= rate + alarms + most + 1
  BY <1>2 DEF KeepsUp
<1>6. \/ sent + 1 <= alarms
      \/ kinds + 1 <= most
      \/ both = 0 /\ noise = 0
  BY <1>1, <1>2
<1>7. len < size
  BY <1>3, <1>4, <1>5, <1>6
<1> QED  BY <1>2, <1>7

LEMMA QueueInit == Init => QueueInv
<1> SUFFICES ASSUME Init PROVE QueueInv
  OBVIOUS
<1>1. TodoFits /\ RestInv /\ ~lost
  BY AlarmsType DEF Init, TodoFits, RestInv
<1>2. Len(queue) = 0 /\ due = 0 /\ Sent = 0
  BY DEF Init, Sent
<1>3. Kinds(others.raised) = 0
  BY KindsType DEF Init
<1>4. Noise \in {0, 1} /\ Both \in {0, 1}
  BY DEF Noise, Both
<1> QED  BY <1>1, <1>2, <1>3, <1>4 DEF QueueInv, Load

(* What each action adds to the queue and to the load.                     *)
LEMMA AlertStep ==
  ASSUME KeepsUp, TypeOK, QueueInv, Alert
  PROVE  /\ Len(queue) < QueueSize /\ Len(queue') = Len(queue) + 1 /\ lost' = lost
         /\ Sent' >= Sent + 1 /\ TodoFits'
         /\ UNCHANGED <<monitor, others, due>>
<1>1. /\ safety.todo # <<>> /\ Raise(Head(safety.todo)) /\ UNCHANGED <<monitor, others, due>>
      /\ safety' = [safety EXCEPT !.todo = Tail(@)]
      /\ safety.todo \in Seq(Events) /\ safety.at \in {"due", "done"}
  BY DEF Alert, TypeOK
<1>2. /\ safety'.at = safety.at /\ safety'.todo = Tail(safety.todo) /\ Head(safety.todo) \in Events
      /\ Len(safety'.todo) = Len(safety.todo) - 1 /\ Len(safety.todo) \in Nat
      /\ Len(safety.todo) >= 1
  BY <1>1 DEF TypeOK
<1>3. safety.at = "done" /\ Len(safety.todo) <= Alarms
        /\ \A i \in DOMAIN safety.todo : safety.todo[i] = "critical_temp" => i = 1
  BY <1>1 DEF QueueInv, TodoFits
<1>4. \A i \in DOMAIN safety'.todo : safety'.todo[i] # "critical_temp"
  <2> SUFFICES ASSUME NEW i \in DOMAIN safety'.todo PROVE safety'.todo[i] # "critical_temp"
    OBVIOUS
  <2>1. i \in 1..(Len(safety.todo) - 1) /\ i + 1 \in DOMAIN safety.todo /\ i + 1 # 1
    BY <1>1, <1>2
  <2>2. Tail(safety.todo)[i] = safety.todo[i + 1]
    BY <1>1, <2>1
  <2> QED  BY <1>2, <1>3, <2>1, <2>2
<1>5. ~Pending'
  <2>1. ASSUME safety'.todo # <<>> PROVE Head(safety'.todo) # "critical_temp"
    <3>1. safety'.todo \in Seq(Events)
      BY <1>1, <1>2
    <3>2. 1 \in DOMAIN safety'.todo /\ Head(safety'.todo) = safety'.todo[1]
      BY <2>1, <3>1
    <3> QED  BY <1>4, <3>2
  <2> QED  BY <2>1 DEF Pending
<1>6. Sent' = Alarms - (Len(safety.todo) - 1)
  <2>1. Alarms' = Alarms
    BY DEF Alarms
  <2> QED  BY <1>2, <1>3, <1>5, <2>1 DEF Sent
<1>7. Sent <= Alarms - Len(safety.todo) /\ Sent \in Nat
  <2>1. Alarms - Len(safety.todo) \in Nat
    BY <1>2, <1>3, AlarmsType
  <2>2. Sent = 0 \/ Sent = Alarms - Len(safety.todo)
    BY DEF Sent
  <2> QED  BY <2>1, <2>2
<1>8. Len(queue) < QueueSize
  <2>1. Sent + 1 <= Alarms
    BY <1>2, <1>7, AlarmsType
  <2> QED  BY <2>1, RoomLeft
<1>9. Len(queue') = Len(queue) + 1 /\ lost' = lost
  BY <1>1, <1>2, <1>8, SendArrives DEF Raise
<1>10. TodoFits'
  <2>1. Alarms' = Alarms
    BY DEF Alarms
  <2> QED  BY <1>2, <1>3, <1>4, <2>1, AlarmsType DEF TodoFits
<1> QED  BY <1>1, <1>2, <1>6, <1>7, <1>8, <1>9, <1>10, AlarmsType

LEMMA ListenStep ==
  ASSUME KeepsUp, TypeOK, QueueInv, Listen
  PROVE  /\ Len(queue) < QueueSize /\ UNCHANGED <<safety, others, due, lost>>
         /\ Both = 0 /\ Noise = 0 /\ Both' = 0 /\ Noise' = 1
         /\ \/ queue' = queue
            \/ \E event \in {"noise_alarm", "noise_warning"} : Send(event)
         /\ Len(queue') <= Len(queue) + 1
<1>1. /\ monitor.slept = Beat /\ monitor'.slept = 0 /\ Beat \in Nat /\ Beat >= 2
      /\ UNCHANGED <<safety, others, due>>
  BY AlarmAssumption DEF AlarmAssumption, Listen, TypeOK, KeepsUp
<1>2. Both = 0 /\ Noise = 0 /\ Both' = 0 /\ Noise' = 1
  BY <1>1 DEF Both, Noise
<1>3. Len(queue) < QueueSize
  BY <1>2, RoomLeft
<1>4. (queue' = queue /\ lost' = lost) \/ \E event \in {"noise_alarm", "noise_warning"} : Send(event)
  BY DEF Listen, Raise
<1>5. CASE queue' = queue /\ lost' = lost
  BY <1>1, <1>2, <1>3, <1>5, Naturals
<1>6. ASSUME NEW event \in {"noise_alarm", "noise_warning"}, Send(event)
      PROVE  Len(queue') = Len(queue) + 1 /\ lost' = lost
  <2>1. event \in Events
    BY DEF Events
  <2> QED  BY <1>3, <1>6, <2>1, SendArrives
<1> QED  BY <1>1, <1>2, <1>3, <1>4, <1>5, <1>6, Naturals

(* An alert of SecurityTask or ScalabilityTask.                            *)
LEMMA OtherStep ==
  ASSUME KeepsUp, TypeOK, QueueInv, OtherAlert \/ DoorTest
  PROVE  \E event \in Others :
           /\ Send(event) /\ event \notin others.raised
           /\ Len(queue) < QueueSize /\ Len(queue') = Len(queue) + 1
           /\ UNCHANGED <<safety, monitor, due, lost>> /\ Both' = Both /\ RestInv'
           /\ Kinds(others'.raised) = Kinds(others.raised) + 1
<1>0. others \in [raised : SUBSET Others, warns : BOOLEAN, rest : 0..Pause] /\ Pause \in Nat
        /\ Pause >= 2
  BY AlarmAssumption DEF AlarmAssumption, TypeOK, KeepsUp
<1>1. PICK event \in Others \ others.raised :
        /\ Send(event) /\ others'.raised = others.raised \cup {event}
        /\ others'.rest = IF event = "vibration" THEN 0 ELSE others.rest
        /\ event = "vibration" => others.rest = Pause
  <2>1. CASE OtherAlert
    <3>1. PICK event \in (Others \ {"door"}) \ others.raised :
            /\ event = "vibration" => others.rest = Pause
            /\ Raise(event)
            /\ others' = [others EXCEPT !.raised = @ \cup {event},
                                        !.rest = IF event = "vibration" THEN 0 ELSE @]
      BY <2>1 DEF OtherAlert
    <3> QED  BY <1>0, <3>1 DEF Raise
  <2>2. CASE DoorTest
    BY <1>0, <2>2 DEF DoorTest
  <2> QED  BY <2>1, <2>2
<1>2. UNCHANGED <<safety, monitor, due>>
  BY DEF OtherAlert, DoorTest
<1>3. event \in Events
  BY AlarmAssumption DEF AlarmAssumption, Events
<1>4. Kinds(others'.raised) = Kinds(others.raised) + 1 /\ Kinds(others.raised) + 1 <= Kinds(Others)
  BY <1>0, <1>1, KindsType
<1>5. Len(queue) < QueueSize
  BY <1>4, RoomLeft
<1>6. Len(queue') = Len(queue) + 1 /\ lost' = lost
  BY <1>1, <1>3, <1>5, SendArrives
<1>7. Both' = Both
  BY <1>0, <1>1, <1>2 DEF Both
<1>8. RestInv'
  BY <1>1 DEF QueueInv, RestInv
<1> QED  BY <1>1, <1>2, <1>4, <1>5, <1>6, <1>7, <1>8

LEMMA TickStep ==
  ASSUME KeepsUp, TypeOK, QueueInv, Tick
  PROVE  QueueInv'
<1>1. /\ due = 0 /\ UNCHANGED <<queue, lost>> /\ safety = [at |-> "done", todo |-> <<>>]
      /\ safety'.at = "due" /\ safety'.todo = <<>>
      /\ due' = (IF Len(queue) < Rate THEN Len(queue) ELSE Rate)
      /\ others'.raised = {} /\ others'.rest = Older(others.rest, Pause)
      /\ monitor'.slept = monitor.slept + 1 /\ monitor.slept \in Nat
  BY AlarmAssumption DEF AlarmAssumption, Tick, TypeOK
<1>2. /\ Kinds(others.raised) <= Kinds(Others \ {"vibration"})
         \/ (others.rest = 0 /\ Kinds(others.raised) <= Kinds(Others \ {"vibration"}) + 1)
  <2>1. others.raised \in SUBSET Others
    BY DEF TypeOK
  <2>2. CASE "vibration" \notin others.raised
    BY <2>1, <2>2, KindsType
  <2>3. CASE "vibration" \in others.raised
    <3>1. others.rest = 0
      BY <2>3 DEF QueueInv, RestInv
    <3> QED  BY <3>1, Numbers
  <2> QED  BY <2>2, <2>3
<1>3. others.rest = 0 /\ Noise = 1 => Both' = 1
  <2>1. others.rest = 0 => others'.rest = 1
    BY <1>1, AlarmAssumption DEF AlarmAssumption, KeepsUp, Older
  <2>2. Noise = 1 => monitor'.slept = 1
    BY <1>1 DEF Noise
  <2> QED  BY <2>1, <2>2 DEF Both
<1>4. Both' \in {0, 1}
  BY DEF Both
<1>5. Sent' = 0 /\ Noise' = 0 /\ Kinds(others'.raised) = 0
  BY <1>1, KindsType DEF Sent, Noise
<1>6. Len(queue) <= due' + Both'
  <2> DEFINE kinds == Kinds(others.raised)
             few == Kinds(Others \ {"vibration"})
  <2>1. /\ Len(queue) \in Nat /\ Rate \in Nat /\ kinds \in Nat /\ few \in Nat /\ Sent \in Nat
        /\ Alarms \in Nat /\ Sent <= Alarms /\ Both \in {0, 1} /\ Noise \in {0, 1}
        /\ Both + Noise <= 1 /\ (Both = 1 => kinds <= few) /\ kinds <= few + 1
        /\ Len(queue) <= Both + Sent + kinds + Noise
    <3>1. /\ Len(queue) \in Nat /\ Rate \in Nat /\ kinds \in Nat /\ few \in Nat /\ Sent \in Nat
          /\ Alarms \in Nat /\ Sent <= Alarms /\ Both \in {0, 1} /\ Noise \in {0, 1}
          /\ Both + Noise <= 1 /\ (Both = 1 => kinds <= few)
      BY Numbers
    <3>2. Kinds(Others) <= few + 1 /\ kinds <= Kinds(Others) /\ Kinds(Others) \in Nat
      BY Numbers
    <3>3. Load = due + Both + Sent + kinds + Noise /\ Len(queue) <= Load
      BY Numbers
    <3> HIDE DEF kinds, few
    <3>4. kinds <= few + 1
      BY <3>1, <3>2
    <3>5. Load = Both + Sent + kinds + Noise
      BY <1>1, <3>1, <3>3
    <3> QED  BY <3>1, <3>3, <3>4, <3>5
  <2>2. Rate >= Alarms + few + 1
    BY DEF KeepsUp
  <2>3. kinds <= few \/ (others.rest = 0 /\ kinds <= few + 1)
    BY <1>2
  <2> HIDE DEF kinds, few
  <2>4. Len(queue) <= Rate \/ (Noise = 1 /\ others.rest = 0 /\ Len(queue) <= Rate + 1)
    <3>1. CASE kinds <= few
      BY <2>1, <2>2, <3>1
    <3>2. CASE others.rest = 0 /\ kinds <= few + 1
      <4>1. CASE Noise = 0
        BY <2>1, <2>2, <3>2, <4>1
      <4>2. CASE Noise = 1
        BY <2>1, <2>2, <3>2, <4>2
      <4> QED  BY <2>1, <4>1, <4>2
    <3> QED  BY <2>3, <3>1, <3>2
  <2> QED  BY <1>1, <1>3, <1>4, <2>1, <2>4
<1>7. Len(queue') <= Load'
  <2>1. due' \in Nat
    BY <1>1, Numbers
  <2> QED  BY <1>1, <1>4, <1>5, <1>6, <2>1 DEF Load
<1>8. TodoFits' /\ RestInv'
  <2>1. Alarms' = Alarms
    BY DEF Alarms
  <2> QED  BY <1>1, <2>1, AlarmsType DEF TodoFits, RestInv
<1> QED  BY <1>1, <1>7, <1>8 DEF QueueInv

LEMMA QueueStep ==
  ASSUME KeepsUp, TypeOK, QueueInv, [Next]_vars
  PROVE  QueueInv'
<1>0. /\ TodoFits /\ RestInv /\ Len(queue) <= Load /\ ~lost /\ Alarms' = Alarms
      /\ monitor.slept \in Nat
  BY DEF QueueInv, Alarms, TypeOK
<1>1. CASE Alert
  <2>1. /\ Len(queue') = Len(queue) + 1 /\ lost' = lost /\ Sent' >= Sent + 1 /\ TodoFits'
        /\ UNCHANGED <<monitor, others, due>>
    BY <1>1, AlertStep
  <2>2. RestInv' /\ Noise' = Noise /\ Both' = Both /\ Kinds(others.raised)' = Kinds(others.raised)
    BY <1>0, <2>1 DEF RestInv, Noise, Both
  <2>3. Sent' \in Nat
    <3>1. Len(safety'.todo) \in Nat /\ Len(safety'.todo) <= Alarms
      <4>1. TypeOK'
        BY TypeStep
      <4> QED  BY <1>0, <2>1, <4>1 DEF TypeOK, TodoFits
    <3> QED  BY <1>0, <3>1, AlarmsType DEF Sent
  <2>4. Load' = due + Both + Sent' + Kinds(others.raised) + Noise
    BY <2>1, <2>2 DEF Load
  <2>5. /\ due \in Nat /\ Both \in Nat /\ Noise \in Nat /\ Kinds(others.raised) \in Nat
        /\ Sent \in Nat /\ Len(queue) \in Nat
        /\ Len(queue) <= due + Both + Sent + Kinds(others.raised) + Noise
    BY <1>0, Naturals DEF Load
  <2>6. Len(queue') <= Load'
    <3> DEFINE kinds == Kinds(others.raised)
    <3>1. Load' = due + Both + Sent' + kinds + Noise /\ kinds \in Nat
            /\ Len(queue) <= due + Both + Sent + kinds + Noise
      BY <2>4, <2>5
    <3> HIDE DEF kinds
    <3> QED  BY <2>1, <2>3, <2>5, <3>1
  <2> QED  BY <1>0, <2>1, <2>2, <2>6 DEF QueueInv
<1>2. CASE Listen
  <2>1. /\ UNCHANGED <<safety, others, due, lost>> /\ Both = 0 /\ Noise = 0 /\ Both' = 0
        /\ Noise' = 1 /\ Len(queue') <= Len(queue) + 1
    BY <1>2, ListenStep
  <2>2. TodoFits' /\ RestInv' /\ Sent' = Sent /\ Kinds(others.raised)' = Kinds(others.raised)
    BY <1>0, <2>1 DEF TodoFits, RestInv, Sent, Pending
  <2>3. Len(queue') \in Nat
    <3>1. TypeOK'
      BY TypeStep
    <3> QED  BY <3>1 DEF TypeOK
  <2>4. Load' = Load + 1
    <3>1. Load' = due + 0 + Sent + Kinds(others.raised) + 1
      BY <2>1, <2>2 DEF Load
    <3>2. Load = due + 0 + Sent + Kinds(others.raised) + 0
      BY <2>1 DEF Load
    <3>3. PICK less \in Nat : less = due + 0 + Sent + Kinds(others.raised)
      BY Naturals
    <3> QED  BY <3>1, <3>2, <3>3
  <2>5. Len(queue') <= Load'
    BY <1>0, <2>1, <2>3, <2>4, Naturals
  <2> QED  BY <1>0, <2>1, <2>2, <2>5 DEF QueueInv
<1>3. CASE OtherAlert \/ DoorTest
  <2>1. /\ Len(queue') = Len(queue) + 1 /\ UNCHANGED <<safety, monitor, due, lost>>
        /\ Both' = Both /\ RestInv' /\ Kinds(others'.raised) = Kinds(others.raised) + 1
    BY <1>3, OtherStep
  <2>2. TodoFits' /\ Sent' = Sent /\ Noise' = Noise
    BY <1>0, <2>1 DEF TodoFits, Sent, Pending, Noise
  <2>3. Load' = Load + 1
    <3>1. Load' = due + Both + Sent + (Kinds(others.raised) + 1) + Noise
      BY <2>1, <2>2 DEF Load
    <3>2. Load = due + Both + Sent + Kinds(others.raised) + Noise
      BY DEF Load
    <3>3. PICK kinds \in Nat, less \in Nat, noise \in Nat :
            kinds = Kinds(others.raised) /\ less = due + Both + Sent /\ noise = Noise
      BY Naturals
    <3>4. less + (kinds + 1) + noise = (less + kinds + noise) + 1
      OBVIOUS
    <3> QED  BY <3>1, <3>2, <3>3, <3>4
  <2>4. Len(queue') <= Load'
    BY <1>0, <2>1, <2>3, Naturals
  <2> QED  BY <1>0, <2>1, <2>2, <2>4 DEF QueueInv
<1>4. CASE Receive
  <2>1. /\ queue # <<>> /\ queue' = Tail(queue) /\ due' = (IF due > 0 THEN due - 1 ELSE 0)
        /\ UNCHANGED <<safety, monitor, others, lost>>
    BY <1>4 DEF Receive
  <2>2. TodoFits' /\ RestInv' /\ Sent' = Sent /\ Noise' = Noise /\ Both' = Both
          /\ Kinds(others.raised)' = Kinds(others.raised)
    BY <1>0, <2>1 DEF TodoFits, RestInv, Sent, Pending, Noise, Both
  <2>3. Len(queue') = Len(queue) - 1
    BY <2>1 DEF TypeOK
  <2>4. Len(queue') <= Load'
    <3> DEFINE kinds == Kinds(others.raised)
    <3>1. Load' = due' + Both + Sent + kinds + Noise
      BY <2>2 DEF Load
    <3>2. /\ due \in Nat /\ Both \in Nat /\ Noise \in Nat /\ kinds \in Nat
          /\ Sent \in Nat /\ Len(queue) \in Nat
          /\ Len(queue) <= due + Both + Sent + kinds + Noise
      BY <1>0, Naturals DEF Load
    <3> HIDE DEF kinds
    <3> QED  BY <2>1, <2>3, <3>1, <3>2
  <2> QED  BY <1>0, <2>1, <2>2, <2>4 DEF QueueInv
<1>5. CASE Peek
  <2>1. /\ safety.at = "due" /\ safety'.at = "done" /\ UNCHANGED <<monitor, others, queue, due, lost>>
        /\ safety'.todo = (IF data = <<>> THEN <<>> ELSE Alerts(Head(data)))
    BY <1>5 DEF Peek
  <2>2. TodoFits'
    <3>1. CASE data = <<>>
      BY <1>0, <2>1, <3>1, AlarmsType DEF TodoFits
    <3>2. CASE data # <<>>
      <4>1. Head(data) \in Readings
        BY <3>2 DEF TypeOK
      <4> QED  BY <1>0, <2>1, <3>2, <4>1, AlertsFit DEF TodoFits
    <3> QED  BY <3>1, <3>2
  <2>3. Sent = 0 /\ Sent' \in Nat
    <3>1. Len(safety'.todo) \in Nat
      <4>1. TypeOK'
        BY TypeStep
      <4> QED  BY <4>1 DEF TypeOK
    <3> QED  BY <1>0, <2>1, <2>2, <3>1, AlarmsType DEF Sent, TodoFits
  <2>4. RestInv' /\ Noise' = Noise /\ Both' = Both /\ Kinds(others.raised)' = Kinds(others.raised)
    BY <1>0, <2>1 DEF RestInv, Noise, Both
  <2>5. Len(queue') <= Load'
    <3>1. Load' = due + Both + Sent' + Kinds(others.raised) + Noise
      BY <2>1, <2>4 DEF Load
    <3>2. Load = due + Both + 0 + Kinds(others.raised) + Noise
      BY <2>3 DEF Load
    <3>3. PICK less \in Nat : less = due + Both + Kinds(others.raised) + Noise
      BY Naturals
    <3>4. Load = less /\ Load' = less + Sent'
      BY <2>3, <3>1, <3>2, <3>3, Naturals
    <3> QED  BY <1>0, <2>1, <2>3, <3>3, <3>4, Naturals
  <2> QED  BY <1>0, <2>1, <2>2, <2>4, <2>5 DEF QueueInv
(* The steps that leave the queue and everything that fills it as it is.   *)
<1>6. CASE Measure \/ Overwrite \/ Copy \/ WriteBack \/ DoorWarn \/ Air \/ UNCHANGED vars
  <2>1. /\ UNCHANGED <<queue, lost, due, safety>> /\ monitor'.slept = monitor.slept
        /\ others'.raised = others.raised /\ others'.rest = others.rest
    BY <1>6 DEF Measure, Overwrite, Copy, WriteBack, DoorWarn, Air, vars, history, TypeOK
  <2>2. TodoFits' /\ RestInv' /\ Sent' = Sent /\ Noise' = Noise /\ Both' = Both
          /\ Kinds(others.raised)' = Kinds(others.raised)
    BY <1>0, <2>1 DEF TodoFits, RestInv, Sent, Pending, Noise, Both
  <2>3. Load' = Load
    BY <2>1, <2>2 DEF Load
  <2> QED  BY <1>0, <2>1, <2>2, <2>3 DEF QueueInv
<1> QED
  BY <1>1, <1>2, <1>3, <1>4, <1>5, <1>6, TickStep DEF Next

(* xEventQueue never overflows, for every queue that holds what can come   *)
(* in two periods and every EmergencyTask that keeps up with all but one   *)
(* event of a period: send_event never drops an event.                     *)
THEOREM QueueHoldsAll == ASSUME KeepsUp PROVE Spec => []NoEventIsLost
<1>1. TypeOK /\ QueueInv /\ [Next]_vars => QueueInv'
  BY QueueStep
<1>2. QueueInv => NoEventIsLost
  BY DEF QueueInv, NoEventIsLost
<1> QED  BY <1>1, <1>2, QueueInit, TypeCorrect, PTL DEF Spec

-----------------------------------------------------------------------------
(* How soon a fire is answered.  When the alert of a lasting fire has been *)
(* raised it is either answered already in this period, or it waits behind *)
(* what was there before and what others have sent; all of that is         *)
(* dispatched in the next period, and from then on a fire is answered in   *)
(* each.                                                                   *)

Ahead == due + Both + Kinds(others.raised) + Noise + 1

HeardInv ==
  /\ hot >= 4 /\ safety.at = "done" /\ ~Pending => heard = 0 \/ FireIn(queue, Ahead)
  /\ hot >= 5 => heard <= 1 \/ FireIn(queue, due)
  /\ hot >= 6 => heard <= 2

(* EmergencyTask takes the first event of the queue.                       *)
LEMMA TakeFirst ==
  ASSUME TypeOK, Receive
  PROVE  /\ heard' = 0 \/ heard' = heard
         /\ \A most \in Nat : FireIn(queue, most) =>
              heard' = 0 \/ (most >= 1 /\ FireIn(queue', most - 1))
<1>1. /\ queue # <<>> /\ queue \in Seq(Events) /\ queue' = Tail(queue)
      /\ heard' = (IF Head(queue) = "critical_temp" THEN 0 ELSE heard)
  BY DEF Receive, TypeOK
<1>2. /\ Len(queue) \in Nat /\ Len(queue) >= 1 /\ Head(queue) = queue[1]
      /\ DOMAIN queue = 1..Len(queue) /\ DOMAIN queue' = 1..(Len(queue) - 1)
      /\ \A i \in 1..(Len(queue) - 1) : queue'[i] = queue[i + 1]
  BY <1>1
<1>3. ASSUME NEW most \in Nat, FireIn(queue, most), heard' # 0
      PROVE  most >= 1 /\ FireIn(queue', most - 1)
  <2>1. PICK i \in DOMAIN queue : i <= most /\ queue[i] = "critical_temp"
    BY <1>3 DEF FireIn
  <2>2. i \in 1..Len(queue) /\ i # 1
    BY <1>1, <1>2, <1>3, <2>1
  <2>3. i - 1 \in 1..(Len(queue) - 1) /\ (i - 1) + 1 = i /\ i - 1 <= most - 1 /\ most >= 1
    BY <1>2, <1>3, <2>1, <2>2
  <2>4. queue'[i - 1] = "critical_temp"
    BY <1>2, <2>1, <2>3
  <2>5. i - 1 \in DOMAIN queue'
    BY <1>2, <2>3
  <2> QED  BY <2>3, <2>4, <2>5 DEF FireIn
<1> QED  BY <1>1, <1>3

LEMMA FireFurther ==
  ASSUME NEW list \in Seq(Events), NEW few \in Nat, NEW most \in Nat, few <= most,
         FireIn(list, few)
  PROVE  FireIn(list, most)
<1>1. PICK i \in DOMAIN list : i <= few /\ list[i] = "critical_temp"
  BY DEF FireIn
<1>2. i \in Nat
  BY <1>1
<1>3. i <= most
  BY <1>1, <1>2
<1> QED  BY <1>1, <1>3 DEF FireIn

(* A fire near enough to the front is dispatched in the next period.       *)
LEMMA FireIsDue ==
  ASSUME TypeOK, NEW most \in Nat, most <= Rate, FireIn(queue, most), Tick
  PROVE  FireIn(queue', due')
<1>1. /\ queue \in Seq(Events) /\ queue' = queue /\ Rate \in Nat
      /\ due' = (IF Len(queue) < Rate THEN Len(queue) ELSE Rate)
  BY AlarmAssumption DEF AlarmAssumption, Tick, TypeOK
<1>2. PICK i \in DOMAIN queue : i <= most /\ queue[i] = "critical_temp"
  BY DEF FireIn
<1>3. i \in Nat /\ i <= Len(queue) /\ Len(queue) \in Nat
  BY <1>1, <1>2
<1>4. i <= due'
  BY <1>1, <1>2, <1>3
<1> QED  BY <1>1, <1>2, <1>4 DEF FireIn

LEMMA HeardStep ==
  ASSUME KeepsUp, Rate >= Kinds(Others) + 2, TypeOK, QueueInv, SeenInv, HeardInv, [Next]_vars
  PROVE  HeardInv'
<1>0. /\ hot \in Nat /\ hot <= 6 /\ heard \in Nat /\ queue \in Seq(Events)
      /\ due \in Nat /\ Ahead \in Nat
  <2>1. due \in Nat /\ Kinds(others.raised) \in Nat /\ Both \in Nat /\ Noise \in Nat
    BY Naturals
  <2>2. Ahead \in Nat
    BY <2>1 DEF Ahead
  <2> QED  BY <2>1, <2>2 DEF TypeOK, Patience
<1>1. CASE Peek
  <2>1. /\ UNCHANGED <<queue, due, hot, heard>>
        /\ safety'.todo = IF data = <<>> THEN <<>> ELSE Alerts(Head(data))
    BY <1>1 DEF Peek, history
  <2>2. hot >= 4 => Pending'
    <3>1. SUFFICES ASSUME hot >= 4 PROVE Pending'
      OBVIOUS
    <3>2. data # <<>> /\ Hot(Head(data))
      BY <3>1 DEF SeenInv, BadData
    <3>3. Head(data) \in Readings
      BY <3>2 DEF TypeOK
    <3> QED  BY <2>1, <3>2, <3>3, HotAlert DEF Pending
  <2>3. FireIn(queue, due)' <=> FireIn(queue, due)
    BY <2>1 DEF FireIn
  <2> QED  BY <2>1, <2>2, <2>3 DEF HeardInv
<1>2. CASE Alert
  <2>1. /\ safety.todo # <<>> /\ Raise(Head(safety.todo)) /\ Head(safety.todo) \in Events
        /\ UNCHANGED <<hot, heard>>
    BY <1>2 DEF Alert, TypeOK
  <2>2. Len(queue) < QueueSize /\ UNCHANGED <<monitor, others, due>>
    BY <1>2, AlertStep
  <2>3. Send(Head(safety.todo)) /\ safety.at = "done"
    <3>1. safety.at \in {"due", "done"}
      BY DEF TypeOK
    <3> QED  BY <2>1, <3>1 DEF Raise, QueueInv, TodoFits
  <2>4. Ahead' = Ahead
    BY <2>2 DEF Ahead, Both, Noise
  <2>5. FireIn(queue, due) => FireIn(queue', due')
    BY <1>0, <2>1, <2>2, <2>3, SendArrives
  <2>6. hot >= 4 => heard = 0 \/ FireIn(queue', Ahead)
    <3>1. CASE Pending
      <4>1. FireIn(queue', Len(queue) + 1)
        BY <2>1, <2>2, <2>3, <3>1, SendArrives DEF Pending
      <4>2. Len(queue) + 1 \in Nat /\ Len(queue) + 1 <= Ahead
        <5>1. Sent = 0
          BY <3>1 DEF Sent
        <5> DEFINE kinds == Kinds(others.raised)
        <5>2. Len(queue) \in Nat /\ Both \in Nat /\ Noise \in Nat /\ kinds \in Nat
          BY Naturals
        <5>4. Len(queue) <= due + Both + Sent + kinds + Noise
          <6>1. Len(queue) <= Load
            BY DEF QueueInv
          <6>2. Load = due + Both + Sent + kinds + Noise
            BY DEF Load
          <6> QED  BY <6>1, <6>2
        <5>3. Ahead = due + Both + kinds + Noise + 1
          BY DEF Ahead
        <5> HIDE DEF kinds
        <5> QED  BY <1>0, <5>1, <5>2, <5>3, <5>4
      <4>3. queue' \in Seq(Events)
        <5>1. TypeOK'
          BY TypeStep
        <5> QED  BY <5>1 DEF TypeOK
      <4> QED  BY <1>0, <4>1, <4>2, <4>3, FireFurther
    <3>2. CASE ~Pending
      <4>1. FireIn(queue, Ahead) => FireIn(queue', Ahead)
        BY <1>0, <2>1, <2>2, <2>3, SendArrives
      <4> QED  BY <2>3, <3>2, <4>1 DEF HeardInv
    <3> QED  BY <3>1, <3>2
  <2> QED  BY <2>1, <2>4, <2>5, <2>6 DEF HeardInv
(* What others send comes behind it.                                       *)
<1>3. ASSUME UNCHANGED <<safety, due, hot, heard>>,
             queue' = queue \/ (\E event \in Events : Send(event) /\ Len(queue) < QueueSize),
             Ahead' \in Nat, Ahead' >= Ahead
      PROVE  HeardInv'
  <2>1. ASSUME NEW most \in Nat, FireIn(queue, most) PROVE FireIn(queue', most)
    <3>1. CASE queue' = queue
      BY <2>1, <3>1
    <3>2. CASE \E event \in Events : Send(event) /\ Len(queue) < QueueSize
      BY <2>1, <3>2, SendArrives
    <3> QED  BY <1>3, <3>1, <3>2
  <2>2. FireIn(queue, due) => FireIn(queue', due')
    BY <1>0, <1>3, <2>1
  <2>3. queue' \in Seq(Events)
    <3>1. TypeOK'
      BY TypeStep
    <3> QED  BY <3>1 DEF TypeOK
  <2>4. FireIn(queue, Ahead) => FireIn(queue', Ahead')
    <3>1. FireIn(queue, Ahead) => FireIn(queue', Ahead)
      BY <1>0, <2>1
    <3> QED  BY <1>0, <1>3, <2>3, <3>1, FireFurther
  <2>5. Pending' = Pending
    BY <1>3 DEF Pending
  <2> QED  BY <1>3, <2>2, <2>4, <2>5 DEF HeardInv
<1>4. CASE Listen
  <2>1. /\ Len(queue) < QueueSize /\ UNCHANGED <<safety, others, due>> /\ Both = 0 /\ Noise = 0
        /\ Both' = 0 /\ Noise' = 1
        /\ queue' = queue \/ \E event \in {"noise_alarm", "noise_warning"} : Send(event)
    BY <1>4, ListenStep
  <2>2. UNCHANGED <<hot, heard>>
    BY <1>4 DEF Listen
  <2>3. queue' = queue \/ (\E event \in Events : Send(event) /\ Len(queue) < QueueSize)
    <3>1. {"noise_alarm", "noise_warning"} \subseteq Events
      BY DEF Events
    <3> QED  BY <2>1, <3>1
  <2>4. Ahead' \in Nat /\ Ahead' >= Ahead
    <3>1. Kinds(others'.raised) = Kinds(others.raised)
      BY <2>1
    <3>2. Kinds(others.raised) \in Nat
      BY Naturals
    <3> QED  BY <1>0, <2>1, <3>1, <3>2 DEF Ahead
  <2> QED  BY <1>3, <2>1, <2>2, <2>3, <2>4
<1>5. CASE OtherAlert \/ DoorTest
  <2>1. PICK event \in Others :
          /\ Send(event) /\ Len(queue) < QueueSize
          /\ UNCHANGED <<safety, monitor, due>> /\ Both' = Both
          /\ Kinds(others'.raised) = Kinds(others.raised) + 1
    BY <1>5, OtherStep
  <2>2. UNCHANGED <<hot, heard>>
    BY <1>5 DEF OtherAlert, DoorTest, history
  <2>3. \E e \in Events : Send(e) /\ Len(queue) < QueueSize
    <3>1. event \in Events
      BY AlarmAssumption DEF AlarmAssumption, Events
    <3> QED  BY <2>1, <3>1
  <2>4. Ahead' \in Nat /\ Ahead' >= Ahead
    <3>1. Noise' = Noise
      BY <2>1 DEF Noise
    <3>2. Kinds(others.raised) \in Nat /\ Both \in Nat /\ Noise \in Nat
      BY Naturals
    <3> QED  BY <1>0, <2>1, <3>1, <3>2 DEF Ahead
  <2> QED  BY <1>3, <2>1, <2>2, <2>3, <2>4
<1>6. CASE Receive
  <2>1. /\ UNCHANGED <<safety, monitor, others, hot>>
        /\ due' = (IF due > 0 THEN due - 1 ELSE 0)
    BY <1>6 DEF Receive
  <2>2. heard' = 0 \/ heard' = heard
    BY <1>6, TakeFirst
  <2>3. queue' \in Seq(Events)
    <3>1. TypeOK'
      BY TypeStep
    <3> QED  BY <3>1 DEF TypeOK
  <2>4. FireIn(queue, due) => heard' = 0 \/ FireIn(queue', due')
    <3>1. FireIn(queue, due) => heard' = 0 \/ (due >= 1 /\ FireIn(queue', due - 1))
      BY <1>0, <1>6, TakeFirst
    <3>2. due >= 1 => due' = due - 1
      BY <1>0, <2>1
    <3> QED  BY <3>1, <3>2
  <2>5. FireIn(queue, Ahead) => heard' = 0 \/ FireIn(queue', Ahead')
    <3>1. FireIn(queue, Ahead) => heard' = 0 \/ (Ahead >= 1 /\ FireIn(queue', Ahead - 1))
      BY <1>0, <1>6, TakeFirst
    <3>2. Ahead' \in Nat /\ Ahead' >= Ahead - 1
      <4>1. Both' = Both /\ Noise' = Noise /\ Kinds(others'.raised) = Kinds(others.raised)
        BY <2>1 DEF Both, Noise
      <4>2. Kinds(others.raised) \in Nat /\ Both \in Nat /\ Noise \in Nat
        BY Naturals
      <4>3. due \in Nat /\ due' \in Nat /\ due' + 1 >= due
        BY <1>0, <2>1
      <4>4. PICK more \in Nat : more = Both + Kinds(others.raised) + Noise + 1
        BY <4>2
      <4>5. Ahead = due + more /\ Ahead' = due' + more
        BY <4>1, <4>2, <4>3, <4>4 DEF Ahead
      <4>6. due' + more \in Nat /\ due' + more >= (due + more) - 1
        <5>1. \A a, b \in Nat : b + 1 >= a => b + more \in Nat /\ b + more >= (a + more) - 1
          OBVIOUS
        <5> QED  BY <4>3, <5>1
      <4> QED  BY <4>5, <4>6
    <3>3. Ahead >= 1 => Ahead - 1 \in Nat
      BY <1>0
    <3>4. ASSUME Ahead >= 1, FireIn(queue', Ahead - 1) PROVE FireIn(queue', Ahead')
      BY <1>0, <2>3, <3>2, <3>3, <3>4, FireFurther
    <3> QED  BY <3>1, <3>4
  <2>6. Pending' = Pending
    BY <2>1 DEF Pending
  <2>7. HeardInv => HeardInv'
    BY <1>0, <2>1, <2>2, <2>4, <2>5, <2>6 DEF HeardInv
  <2> QED  BY <2>7
<1>7. CASE Tick
  <2>1. /\ due = 0 /\ safety.at = "done" /\ safety.todo = <<>> /\ safety'.at = "due"
        /\ hot' = 0 \/ hot' = hot + 1 \/ (hot = 6 /\ hot' = 6)
        /\ heard' <= heard + 1 /\ heard' \in Nat
    BY <1>0, <1>7 DEF Tick, Older, Patience, Answer
  <2>2. ~FireIn(queue, due)
    <3>1. \A i \in DOMAIN queue : ~(i <= due)
      BY <1>0, <2>1
    <3> QED  BY <3>1 DEF FireIn
  <2>3. hot >= 4 => heard = 0 \/ FireIn(queue', due')
    <3>1. Ahead <= Rate
      <4> DEFINE kinds == Kinds(others.raised)
                 most == Kinds(Others)
      <4>1. /\ kinds \in Nat /\ most \in Nat /\ Both \in Nat /\ Noise \in Nat /\ Rate \in Nat
            /\ kinds <= most /\ Both + Noise <= 1
        <5>1. kinds \in Nat /\ most \in Nat /\ Both \in Nat /\ Noise \in Nat /\ Rate \in Nat
          BY Naturals
        <5>2. kinds <= most /\ Both + Noise <= 1
          BY Numbers
        <5> QED  BY <5>1, <5>2
      <4>2. Ahead = Both + kinds + Noise + 1
        BY <2>1, <4>1 DEF Ahead
      <4>3. Rate >= most + 2
        OBVIOUS
      <4> HIDE DEF kinds, most
      <4> QED  BY <4>1, <4>2, <4>3
    <3>2. FireIn(queue, Ahead) => FireIn(queue', due')
      BY <1>0, <1>7, <3>1, FireIsDue
    <3>3. ~Pending
      BY <2>1 DEF Pending
    <3> QED  BY <2>1, <3>2, <3>3 DEF HeardInv
  <2>4. hot >= 5 => heard <= 1
    BY <2>2 DEF HeardInv
  <2> QED  BY <1>0, <2>1, <2>3, <2>4 DEF HeardInv
(* The steps that leave the queue and everything that fills it as it is.   *)
<1>8. CASE Measure \/ Overwrite \/ Copy \/ WriteBack \/ DoorWarn \/ Air \/ UNCHANGED vars
  <2>1. /\ UNCHANGED <<queue, due, safety, heard>> /\ monitor'.slept = monitor.slept
        /\ others'.raised = others.raised /\ others'.rest = others.rest
        /\ hot' = 0 \/ hot' = hot
    BY <1>8 DEF Measure, Overwrite, Copy, WriteBack, DoorWarn, Air, vars, history, TypeOK
  <2>2. Ahead' = Ahead /\ Pending' = Pending
    BY <2>1 DEF Ahead, Both, Noise, Pending
  <2>3. FireIn(queue, due)' <=> FireIn(queue, due)
    BY <2>1
  <2>4. FireIn(queue, Ahead)' <=> FireIn(queue, Ahead)
    BY <2>1, <2>2
  <2> QED  BY <1>0, <2>1, <2>2, <2>3, <2>4 DEF HeardInv
<1> QED
  BY <1>1, <1>2, <1>4, <1>5, <1>6, <1>7, <1>8 DEF Next

(* A fire that lasts is answered and goes on being answered: EmergencyTask *)
(* has had an event of it in the last Answer periods, although each waits  *)
(* behind those of other tasks and MonitoringTask can put an older reading *)
(* back, for every queue and rate that hold what the tasks can send.       *)
THEOREM FiresAreAnswered ==
  ASSUME KeepsUp, Beat >= 3, Rate >= Kinds(Others) + 2
  PROVE  Spec => []FireIsAnswered
<1>1. Init => SeenInv /\ HeardInv /\ RealInv /\ QueueInv
  <2>1. Init => SeenInv /\ HeardInv
    BY DEF Init, SeenInv, HeardInv
  <2> QED  BY <2>1, RealInit, QueueInit
<1>2. TypeOK /\ RealInv /\ [Next]_vars => RealInv'
  BY RealStep
<1>3. RealInv => SleptInv
  BY DEF RealInv
<1>4. TypeOK /\ SleptInv /\ SeenInv /\ [Next]_vars => SeenInv'
  BY SeenStep
<1>5. TypeOK /\ QueueInv /\ [Next]_vars => QueueInv'
  BY QueueStep
<1>6. TypeOK /\ QueueInv /\ SeenInv /\ HeardInv /\ [Next]_vars => HeardInv'
  BY HeardStep
<1>7. TypeOK /\ HeardInv => FireIsAnswered
  BY DEF TypeOK, HeardInv, FireIsAnswered, Patience, Answer
<1> QED
  BY <1>1, <1>2, <1>3, <1>4, <1>5, <1>6, <1>7, TypeCorrect, PTL DEF Spec

=============================================================================
