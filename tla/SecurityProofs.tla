--------------------------- MODULE SecurityProofs ---------------------------
(***************************************************************************)
(* Proofs about SecurityTask, for all durations and whatever the pins do.  *)
(***************************************************************************)
EXTENDS Security, TLAPS

(* TypeOK, in the parts its proof deals with one by one.                   *)
Sensing ==
  /\ pin \in [Pins -> {0, 1}] /\ last \in [Pins -> {0, 1}]
  /\ given \subseteq Pins /\ quiet \in [Pins -> 0..Debounce]
Ages == /\ stable \in {Never} \cup 0..(Stable + 1)
        /\ open \in Int /\ open >= Never
Clock == phase \in 0..(Period + Late) /\ level \in 0..(Closing + 1)
Places == at \in {"delay", "pir", "door", "confirm", "stuck"}
Fates == fate \in {"none", "pending", "debounced", "alerted", "given up"}

LEMMA Parts == TypeOK <=> Sensing /\ Ages /\ Clock /\ Places /\ Fates
BY DEF TypeOK, Sensing, Ages, Clock, Places, Fates

LEMMA ClosingType == Closing \in Nat
BY TimesAssumption DEF Closing

LEMMA SensingStep == Sensing /\ [Next]_vars => Sensing'
<1> SUFFICES ASSUME Sensing, [Next]_vars PROVE Sensing'
  OBVIOUS
<1> USE SensorsAssumption, TimesAssumption DEF Sensing, Pins
<1>1. ASSUME NEW s \in Sensors, Edge(s) PROVE Sensing'
  BY <1>1 DEF Edge, Taken, Rises
<1>2. CASE Wake
  BY <1>2 DEF Wake, interrupts
<1>3. CASE Pir
  BY <1>3 DEF Pir
<1>4. CASE Door
  BY <1>4 DEF Door
<1>5. CASE Confirm
  BY <1>5 DEF Confirm, interrupts
<1>6. CASE GiveUp
  BY <1>6 DEF GiveUp, interrupts
<1>7. CASE Tick
  BY <1>7 DEF Tick, Grow, Never
<1>8. CASE UNCHANGED vars
  BY <1>8 DEF vars, interrupts
<1> QED
  BY <1>1, <1>2, <1>3, <1>4, <1>5, <1>6, <1>7, <1>8 DEF Next

LEMMA AgesStep == Ages /\ [Next]_vars => Ages'
<1> SUFFICES ASSUME Ages, [Next]_vars PROVE Ages'
  OBVIOUS
<1> USE TimesAssumption DEF Ages, Never
<1>1. ASSUME NEW s \in Sensors, Edge(s) PROVE Ages'
  BY <1>1 DEF Edge, door
<1>2. CASE Wake
  BY <1>2 DEF Wake, door
<1>3. CASE Pir
  BY <1>3 DEF Pir, door
<1>4. CASE Door
  BY <1>4 DEF Door
<1>5. CASE Confirm
  BY <1>5 DEF Confirm
<1>6. CASE GiveUp
  <2>1. (open' = Never /\ stable' = Never) \/ UNCHANGED door
    BY <1>6 DEF GiveUp
  <2> QED
    BY <2>1 DEF door
<1>7. CASE Tick
  BY <1>7 DEF Tick, Grow
<1>8. CASE UNCHANGED vars
  BY <1>8 DEF vars, door
<1> QED
  BY <1>1, <1>2, <1>3, <1>4, <1>5, <1>6, <1>7, <1>8 DEF Next

LEMMA ClockStep == Clock /\ [Next]_vars => Clock'
<1> SUFFICES ASSUME Clock, [Next]_vars PROVE Clock'
  OBVIOUS
<1> USE TimesAssumption, ClosingType DEF Clock
<1>1. ASSUME NEW s \in Sensors, Edge(s) PROVE Clock'
  BY <1>1 DEF Edge
<1>2. CASE Wake
  BY <1>2 DEF Wake
<1>3. CASE Tick
  BY <1>3 DEF Tick, Grow
<1>4. CASE Pir \/ Door \/ Confirm \/ GiveUp \/ UNCHANGED vars
  BY <1>4 DEF Pir, Door, Confirm, GiveUp, vars
<1> QED
  BY <1>1, <1>2, <1>3, <1>4 DEF Next

LEMMA PlacesStep == Places /\ Fates /\ [Next]_vars => Places' /\ Fates'
BY DEF Places, Fates, Next, Edge, Wake, Pir, Door, Confirm, GiveUp, Tick, vars

(* TypeOK, for all durations and sensors.                                  *)
THEOREM TypeCorrect == Spec => []TypeOK
<1>1. Init => TypeOK
  BY TimesAssumption, ClosingType DEF Init, TypeOK, Pins, Never
<1>2. TypeOK /\ [Next]_vars => TypeOK'
  <2> SUFFICES ASSUME TypeOK, [Next]_vars PROVE TypeOK'
    OBVIOUS
  <2>1. Sensing' /\ Ages' /\ Clock' /\ Places' /\ Fates'
    BY Parts, SensingStep, AgesStep, ClockStep, PlacesStep
  <2> QED
    BY <2>1 DEF TypeOK, Sensing, Ages, Clock, Places, Fates
<1> QED
  BY <1>1, <1>2, PTL DEF Spec

-----------------------------------------------------------------------------
(* The open time has an owner: it runs only while the door is taken for    *)
(* open, and runs from every alert.                                        *)
Owned == /\ open # Never => last["door"] = 1
         /\ last["door"] = 1 /\ fate = "alerted" => open # Never

(* A pass is over by the time it may be late, and GiveUp looked at the     *)
(* open time since the pass was due.                                       *)
Punctual == at # "delay" => phase <= Late
Watched == open # Never => open < Stuck + phase + (IF at = "delay" THEN 0 ELSE Period)

Deadline == Sensing /\ Ages /\ Clock /\ Places /\ Owned /\ Punctual /\ Watched

LEMMA PunctualStep == Clock /\ Punctual /\ [Next]_vars => Punctual'
<1> SUFFICES ASSUME Clock, Punctual, [Next]_vars PROVE Punctual'
  OBVIOUS
<1> USE TimesAssumption, ClosingType DEF Clock, Punctual
<1>1. ASSUME NEW s \in Sensors, Edge(s) PROVE Punctual'
  BY <1>1 DEF Edge
<1>2. CASE Wake
  BY <1>2 DEF Wake
<1>3. CASE Tick
  BY <1>3 DEF Tick
<1>4. CASE Pir \/ Door \/ Confirm \/ GiveUp \/ UNCHANGED vars
  BY <1>4 DEF Pir, Door, Confirm, GiveUp, vars
<1> QED
  BY <1>1, <1>2, <1>3, <1>4 DEF Next

LEMMA OwnedStep == Sensing /\ Ages /\ Owned /\ [Next]_vars => Owned'
<1> SUFFICES ASSUME Sensing, Ages, Owned, [Next]_vars PROVE Owned'
  OBVIOUS
<1> USE TimesAssumption DEF Sensing, Ages, Owned, Pins, Never
<1>1. ASSUME NEW s \in Sensors, Edge(s) PROVE Owned'
  BY <1>1 DEF Edge, door
<1>2. CASE Wake
  BY <1>2 DEF Wake, door
<1>3. CASE Pir
  <2>1. last'["door"] = last["door"]
    BY <1>3 DEF Pir
  <2> QED
    BY <1>3, <2>1 DEF Pir, door
<1>4. CASE Door
  <2>1. last'["door"] = IF "door" \in given THEN pin["door"] ELSE last["door"]
    BY <1>4 DEF Door
  <2> QED
    BY <1>4, <2>1 DEF Door, Opens, Closes
<1>5. CASE Confirm
  BY <1>5 DEF Confirm
<1>6. CASE GiveUp
  BY <1>6 DEF GiveUp, door
<1>7. CASE Tick
  BY <1>7 DEF Tick
<1>8. CASE UNCHANGED vars
  BY <1>8 DEF vars, door
<1> QED
  BY <1>1, <1>2, <1>3, <1>4, <1>5, <1>6, <1>7, <1>8 DEF Next

LEMMA WatchedStep ==
  Ages /\ Clock /\ Places /\ Owned /\ Watched /\ [Next]_vars => Watched'
<1> SUFFICES ASSUME Ages, Clock, Places, Owned, Watched, [Next]_vars PROVE Watched'
  OBVIOUS
<1>0. phase \in Nat /\ open \in Int
  BY TimesAssumption DEF Clock, Ages
<1> USE <1>0, TimesAssumption DEF Watched, Never
<1>1. ASSUME NEW s \in Sensors, Edge(s) PROVE Watched'
  BY <1>1 DEF Edge, door
<1>2. CASE Wake
  BY <1>2 DEF Wake, door
<1>3. CASE Pir
  BY <1>3 DEF Pir, door
<1>4. CASE Door
  BY <1>4 DEF Door
<1>5. CASE Confirm
  BY <1>5 DEF Confirm
<1>6. CASE GiveUp
  <2>1. at' = "delay" /\ phase' = phase
    BY <1>6 DEF GiveUp
  <2>2. CASE last["door"] = 1 /\ open >= Stuck
    <3>1. open' = Never
      BY <1>6, <2>2 DEF GiveUp
    <3> QED
      BY <3>1
  <2>3. CASE ~(last["door"] = 1 /\ open >= Stuck)
    <3>1. UNCHANGED door
      BY <1>6, <2>3 DEF GiveUp
    <3>2. open' = open
      BY <3>1 DEF door
    <3>3. open # Never => open < Stuck
      BY <2>3, Stuck \in Nat DEF Owned
    <3> QED
      BY <2>1, <3>2, <3>3
  <2> QED
    BY <2>2, <2>3
<1>7. CASE Tick
  BY <1>7 DEF Tick
<1>8. CASE UNCHANGED vars
  BY <1>8 DEF vars, door
<1> QED
  BY <1>1, <1>2, <1>3, <1>4, <1>5, <1>6, <1>7, <1>8 DEF Next

(* OpenDoorHasDeadline, for all durations: the alarm of a door that stays  *)
(* open ends a period and a delay after the 30 s of FIX-35 at the latest.  *)
THEOREM DeadlineKept == Spec => []OpenDoorHasDeadline
<1>1. Init => Deadline /\ Fates
  BY TimesAssumption, ClosingType
     DEF Init, Deadline, Fates, Sensing, Ages, Clock, Places, Owned, Punctual, Watched,
         Pins, Never
<1>2. Deadline /\ Fates /\ [Next]_vars => (Deadline /\ Fates)'
  BY SensingStep, AgesStep, ClockStep, PlacesStep, OwnedStep, PunctualStep, WatchedStep
     DEF Deadline
<1>3. Deadline => OpenDoorHasDeadline
  <2> SUFFICES ASSUME Deadline, last["door"] = 1
               PROVE /\ fate = "alerted" => open # Never
                     /\ open <= Stuck + Period + Late
    BY DEF OpenDoorHasDeadline
  <2>1. phase \in Nat /\ phase <= Period + Late /\ open \in Int
    BY TimesAssumption DEF Deadline, Clock, Ages
  <2>2. open # Never => open <= Stuck + Period + Late
    BY <2>1, TimesAssumption DEF Deadline, Punctual, Watched
  <2> QED
    BY <2>1, <2>2, TimesAssumption DEF Deadline, Owned, Never
<1> QED
  BY <1>1, <1>2, <1>3, PTL DEF Spec

-----------------------------------------------------------------------------
(* An opening whose edge was taken is known, or its semaphore is still     *)
(* given; and a given semaphore was given, or the door has moved, since    *)
(* the last look at it.                                                    *)
Noticed ==
  pin["door"] = 1 =>
    /\ fate \in {"none", "alerted"} => last["door"] = 1
    /\ fate = "pending" => "door" \in given \/ last["door"] = 1

SinceDoor == IF at \in {"pir", "door"} THEN phase + Period ELSE phase
SeenSoon == "door" \in given => level <= SinceDoor

LEMMA NoticedStep == Sensing /\ Noticed /\ [Next]_vars => Noticed'
<1> SUFFICES ASSUME Sensing, Noticed, [Next]_vars PROVE Noticed'
  OBVIOUS
<1> USE DEF Sensing, Noticed, Pins
<1>1. ASSUME NEW s \in Sensors, Edge(s) PROVE Noticed'
  <2>1. s \in Pins /\ last' = last
    BY <1>1, SensorsAssumption DEF Edge
  <2>2. CASE s = "door"
    BY <1>1, <2>1, <2>2 DEF Edge, Taken, Rises
  <2>3. CASE s # "door"
    <3>1. pin'["door"] = pin["door"] /\ fate' = fate /\ given \subseteq given'
      BY <1>1, <2>1, <2>3 DEF Edge
    <3> QED
      BY <2>1, <3>1
  <2> QED
    BY <2>2, <2>3
<1>2. CASE Pir
  <2>1. /\ pin' = pin /\ fate' = fate /\ last'["door"] = last["door"]
        /\ "door" \in given' <=> "door" \in given
    BY <1>2 DEF Pir
  <2> QED
    BY <2>1
<1>3. CASE Door
  <2>1. /\ pin' = pin
        /\ last'["door"] = IF "door" \in given THEN pin["door"] ELSE last["door"]
        /\ fate' = IF Opens THEN "alerted" ELSE fate
    BY <1>3 DEF Door
  <2> QED
    BY <2>1 DEF Opens
<1>4. CASE Confirm
  <2>1. /\ pin' = pin /\ fate' = fate /\ given' = given
        /\ pin["door"] = 1 => last' = last
    BY <1>4 DEF Confirm, interrupts
  <2> QED
    BY <2>1
<1>5. CASE GiveUp
  <2>1. pin' = pin /\ given' = given
    BY <1>5 DEF GiveUp, interrupts
  <2>2. fate' = "given up" \/ (fate' = fate /\ last' = last)
    BY <1>5 DEF GiveUp
  <2> QED
    BY <2>1, <2>2
<1>6. CASE Wake \/ Tick \/ UNCHANGED vars
  <2>1. UNCHANGED <<pin, given, last, fate>>
    BY <1>6 DEF Wake, Tick, vars, interrupts
  <2> QED
    BY <2>1
<1> QED
  BY <1>1, <1>2, <1>3, <1>4, <1>5, <1>6 DEF Next

LEMMA SeenSoonStep ==
  Clock /\ Places /\ SeenSoon /\ [Next]_vars => SeenSoon'
<1> SUFFICES ASSUME Clock, Places, SeenSoon, [Next]_vars PROVE SeenSoon'
  OBVIOUS
<1>0. phase \in Nat /\ level \in Nat /\ Period \in Nat
  BY TimesAssumption, ClosingType DEF Clock
<1> USE <1>0 DEF SeenSoon, SinceDoor
<1>1. ASSUME NEW s \in Sensors, Edge(s) PROVE SeenSoon'
  <2>1. CASE s = "door"
    BY <1>1, <2>1 DEF Edge
  <2>2. CASE s # "door"
    BY <1>1, <2>2 DEF Edge
  <2> QED
    BY <2>1, <2>2
<1>2. CASE Wake
  BY <1>2 DEF Wake, interrupts
<1>3. CASE Pir
  BY <1>3 DEF Pir
<1>4. CASE Door
  BY <1>4 DEF Door
<1>5. CASE Confirm \/ GiveUp
  BY <1>5 DEF Confirm, GiveUp, interrupts
<1>6. CASE Tick
  <2>1. level' \in Nat /\ level' <= level + 1
    BY <1>6 DEF Tick, Grow
  <2>2. given' = given /\ at' = at /\ phase' = phase + 1
    BY <1>6 DEF Tick
  <2> QED
    BY <2>1, <2>2
<1>7. CASE UNCHANGED vars
  BY <1>7 DEF vars, interrupts
<1> QED
  BY <1>1, <1>2, <1>3, <1>4, <1>5, <1>6, <1>7 DEF Next

(* OpeningIsNoticed, for all durations: nothing but the debounce of the    *)
(* handler and FIX-35 keeps an open door from being known to be open.      *)
THEOREM OpeningsAreNoticed == Spec => []OpeningIsNoticed
<1> DEFINE Inv == Sensing /\ Clock /\ Places /\ Fates /\ Punctual /\ Noticed /\ SeenSoon
<1>1. Init => Inv
  BY TimesAssumption, ClosingType
     DEF Init, Fates, Sensing, Clock, Places, Punctual, Noticed, SeenSoon, SinceDoor,
         Pins, Never
<1>2. Inv /\ [Next]_vars => Inv'
  BY SensingStep, ClockStep, PlacesStep, PunctualStep, NoticedStep, SeenSoonStep
<1>3. Inv => OpeningIsNoticed
  <2> SUFFICES ASSUME Inv, pin["door"] = 1, level > Period + Late, last["door"] = 0
               PROVE fate \in {"debounced", "given up"}
    BY DEF OpeningIsNoticed
  <2>1. SinceDoor <= Period + Late
    BY TimesAssumption DEF SinceDoor, Clock, Places, Punctual
  <2>2. level \in Nat /\ SinceDoor \in Int
    BY TimesAssumption, ClosingType DEF Clock, SinceDoor
  <2>3. "door" \notin given
    BY <2>1, <2>2, TimesAssumption DEF SeenSoon
  <2>4. Noticed /\ Fates /\ last["door"] # 1
    OBVIOUS
  <2>5. fate # "none" /\ fate # "alerted" /\ fate # "pending"
    BY <2>3, <2>4 DEF Noticed
  <2> QED
    BY <2>4, <2>5 DEF Fates
<1> QED
  BY <1>1, <1>2, <1>3, PTL DEF Spec

-----------------------------------------------------------------------------
(* A closed door that is taken for open: until the confirmation has seen   *)
(* it closed, it has not been so for longer than since the last look; and  *)
(* from then on the confirmation is under way, and over at the first look  *)
(* after Stable.                                                           *)
SinceConfirm == IF at \in {"stuck", "delay"} THEN phase ELSE phase + Period
Cleared ==
  pin["door"] = 0 /\ last["door"] = 1 =>
    IF stable = Never THEN level <= SinceConfirm
    ELSE /\ level <= Stable + Period + Late + SinceConfirm
         /\ stable <= Stable => level <= stable + Period + Late

LEMMA ClearedStep ==
  Sensing /\ Ages /\ Clock /\ Places /\ Punctual /\ Cleared /\ [Next]_vars => Cleared'
<1> SUFFICES ASSUME Sensing, Ages, Clock, Places, Punctual, Cleared, [Next]_vars
             PROVE Cleared'
  OBVIOUS
<1>0. /\ phase \in Nat /\ level \in Nat /\ stable \in Int
      /\ Period \in Nat /\ Late \in Nat /\ Stable \in Nat
      /\ stable # Never => stable >= 0
  BY TimesAssumption, ClosingType DEF Clock, Ages, Never
<1> USE <1>0 DEF Cleared, SinceConfirm, Never
<1>1. ASSUME NEW s \in Sensors, Edge(s) PROVE Cleared'
  <2>1. /\ s \in Pins /\ last' = last /\ stable' = stable /\ at' = at /\ phase' = phase
    BY <1>1, SensorsAssumption DEF Edge, door, Pins
  <2>2. CASE s = "door"
    <3>1. level' = 0
      BY <1>1, <2>2 DEF Edge
    <3> QED
      BY <2>1, <3>1
  <2>3. CASE s # "door"
    <3>1. pin'["door"] = pin["door"] /\ level' = level
      BY <1>1, <2>1, <2>3 DEF Edge, Sensing, Pins
    <3> QED
      BY <2>1, <3>1
  <2> QED
    BY <2>2, <2>3
<1>2. CASE Wake
  BY <1>2 DEF Wake, interrupts, door
<1>3. CASE Pir
  <2>1. /\ last'["door"] = last["door"]
    BY <1>3 DEF Pir, Sensing, Pins
  <2> QED
    BY <1>3, <2>1 DEF Pir, door
<1>4. CASE Door
  <2>1. last'["door"] = IF "door" \in given THEN pin["door"] ELSE last["door"]
    BY <1>4 DEF Door, Sensing, Pins
  <2>2. pin["door"] = 0 /\ last'["door"] = 1 => last["door"] = 1 /\ "door" \notin given
    BY <2>1
  <2> QED
    BY <1>4, <2>2 DEF Door, Opens, Closes
<1>5. CASE Confirm
  <2> SUFFICES ASSUME pin'["door"] = 0, last'["door"] = 1
               PROVE IF stable' = Never THEN level' <= SinceConfirm'
                     ELSE /\ level' <= Stable + Period + Late + SinceConfirm'
                          /\ stable' <= Stable => level' <= stable' + Period + Late
    OBVIOUS
  <2>1. pin' = pin /\ level' = level /\ phase' = phase /\ at = "confirm" /\ at' = "stuck"
    BY <1>5 DEF Confirm, interrupts
  <2>2. phase <= Late
    BY <2>1 DEF Punctual
  <2>3. last["door"] = 1 /\ stable <= Stable
    BY <1>5, <2>1 DEF Confirm, Sensing, Pins
  <2>4. CASE stable = Never
    <3>1. stable' = 0
      BY <1>5, <2>1, <2>3, <2>4 DEF Confirm
    <3> QED
      BY <2>1, <2>2, <2>3, <2>4, <3>1
  <2>5. CASE stable # Never
    <3>1. stable' = stable
      BY <1>5, <2>1, <2>3, <2>5 DEF Confirm
    <3> QED
      BY <2>1, <2>2, <2>3, <2>5, <3>1
  <2> QED
    BY <2>4, <2>5
<1>6. CASE GiveUp
  <2>1. /\ pin' = pin /\ level' = level /\ phase' = phase /\ at = "stuck" /\ at' = "delay"
    BY <1>6 DEF GiveUp, interrupts
  <2>2. last'["door"] = 0 \/ (last' = last /\ stable' = stable)
    BY <1>6 DEF GiveUp, door, Sensing, Pins
  <2> QED
    BY <2>1, <2>2
<1>7. CASE Tick
  <2>1. /\ pin' = pin /\ last' = last /\ at' = at /\ phase' = phase + 1
        /\ level' \in Nat /\ level' <= level + 1
    BY <1>7 DEF Tick, Grow
  <2>2. \/ stable = Never /\ stable' = Never
        \/ stable = Stable + 1 /\ stable' = stable
        \/ stable # Never /\ stable' = stable + 1
    BY <1>7 DEF Tick, Grow
  <2>3. CASE stable = Never /\ stable' = Never
    BY <2>1, <2>3
  <2>4. CASE stable = Stable + 1 /\ stable' = stable
    BY <2>1, <2>4
  <2>5. CASE stable # Never /\ stable' = stable + 1
    BY <2>1, <2>5
  <2> QED
    BY <2>2, <2>3, <2>4, <2>5
<1>8. CASE UNCHANGED vars
  BY <1>8 DEF vars, interrupts, door
<1> QED
  BY <1>1, <1>2, <1>3, <1>4, <1>5, <1>6, <1>7, <1>8 DEF Next

(* ClosedDoorIsCleared, for all durations: a door that stays closed is     *)
(* known to be after the 50 ms and two passes, however late they are.      *)
THEOREM ClosingsAreNoticed == Spec => []ClosedDoorIsCleared
<1> DEFINE Inv == Sensing /\ Ages /\ Clock /\ Places /\ Fates /\ Punctual /\ Cleared
<1>1. Init => Inv
  BY TimesAssumption, ClosingType
     DEF Init, Fates, Sensing, Ages, Clock, Places, Punctual, Cleared, SinceConfirm,
         Pins, Never
<1>2. Inv /\ [Next]_vars => Inv'
  BY SensingStep, AgesStep, ClockStep, PlacesStep, PunctualStep, ClearedStep
<1>3. Inv => ClosedDoorIsCleared
  <2> SUFFICES ASSUME Inv, pin["door"] = 0, level > Closing, last["door"] # 0 PROVE FALSE
    BY DEF ClosedDoorIsCleared
  <2>1. last["door"] = 1
    BY DEF Sensing, Pins
  <2>2. SinceConfirm \in Int /\ SinceConfirm <= Period + Late
    BY TimesAssumption DEF SinceConfirm, Clock, Places, Punctual
  <2>3. level \in Nat /\ level <= Closing
    BY <2>1, <2>2, TimesAssumption, ClosingType DEF Cleared, Clock, Closing
  <2> QED
    BY <2>3, ClosingType
<1> QED
  BY <1>1, <1>2, <1>3, PTL DEF Spec

=============================================================================
