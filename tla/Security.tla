------------------------------ MODULE Security ------------------------------
(***************************************************************************)
(* SecurityTask and the interrupt handlers of the PIR and door sensors.    *)
(*                                                                         *)
(* A rising edge of a sensor's pin runs its handler, which debounces it    *)
(* and gives the sensor's binary semaphore.  SecurityTask looks at the     *)
(* semaphores and at the pins in a pass it makes every Period; it can be   *)
(* Late, and vTaskDelayUntil then makes the next pass on time all the      *)
(* same.  The pins move whenever they like, between two steps of a pass    *)
(* too.                                                                    *)
(*                                                                         *)
(* Time is counted in ticks.  A time stamp is modelled by its age, which   *)
(* stops growing where the code no longer tells ages apart.                *)
(***************************************************************************)
EXTENDS Integers

CONSTANTS
  Sensors,   (* which of "pir" and "door" are moving                         *)
  Debounce,  (* the 50 ms of the interrupt handlers                          *)
  Stable,    (* the 50 ms of the confirmation that the door is closed        *)
  Period,    (* SECURITY_PERIOD_MS                                           *)
  Late,      (* how late a pass may start or end                             *)
  Stuck      (* the 30 s after which an open door is given up                *)

ASSUME SensorsAssumption == Sensors \subseteq {"pir", "door"}
ASSUME TimesAssumption ==
  /\ Debounce \in Nat \ {0} /\ Stable \in Nat \ {0} /\ Stuck \in Nat \ {0}
  /\ Period \in Nat /\ Late \in Nat
  /\ Stable < Period /\ Late < Period

Pins == {"pir", "door"}
Never == -1                     (* the 0 of a time stamp that is not set     *)

VARIABLES
  pin,    (* hal_read_pir and hal_read_door                                  *)
  quiet,  (* how long ago each handler took an edge: its last_ms             *)
  given,  (* of xPIRSemaphore and xDoorSemaphore, those that were given      *)
  last,   (* last_pir and last_door                                          *)
  stable, (* the age of door_stable_since                                    *)
  open,   (* the age of door_open_since                                      *)
  at,     (* where SecurityTask is in its pass                               *)
  phase,  (* the time since its pass was due                                 *)
  level,  (* history: for how long the door's pin has not moved              *)
  fate    (* history: what became of the last opening of the door            *)

interrupts == <<pin, quiet, given>>
door == <<stable, open>>
vars == <<interrupts, last, door, at, phase, level, fate>>

-----------------------------------------------------------------------------
(* The interrupt handlers.  An edge within Debounce of the last one taken  *)
(* is dropped.                                                             *)

Rises(s) == pin[s] = 0

Taken(s) == Rises(s) /\ quiet[s] = Debounce

Edge(s) ==
  /\ pin' = [pin EXCEPT ![s] = 1 - @]
  /\ quiet' = IF Taken(s) THEN [quiet EXCEPT ![s] = 0] ELSE quiet
  /\ given' = IF Taken(s) THEN given \cup {s} ELSE given
  /\ level' = IF s = "door" THEN 0 ELSE level
  /\ fate' = IF s = "door" /\ Rises(s)
             THEN IF Taken(s) THEN "pending" ELSE "debounced"
             ELSE fate
  /\ UNCHANGED <<last, door, at, phase>>

-----------------------------------------------------------------------------
(* SecurityTask                                                            *)

(* Mutant: the task does not wait for its period.                          *)
WakeAtOnce ==
  /\ at = "delay"
  /\ phase' = phase - Period
  /\ at' = "pir"
  /\ UNCHANGED <<interrupts, last, door, level, fate>>

Wake ==
  /\ at = "delay" /\ phase >= Period
  /\ phase' = phase - Period
  /\ at' = "pir"
  /\ UNCHANGED <<interrupts, last, door, level, fate>>

(* Motion is an entry, and an alert, when last_pir says there was none.    *)
Pir ==
  /\ at = "pir" /\ at' = "door"
  /\ given' = given \ {"pir"}
  /\ last' = IF "pir" \in given THEN [last EXCEPT !["pir"] = pin["pir"]] ELSE last
  /\ UNCHANGED <<pin, quiet, door, phase, level, fate>>

Opens  == "door" \in given /\ pin["door"] = 1 /\ last["door"] = 0
Closes == "door" \in given /\ pin["door"] = 0 /\ last["door"] = 1

(* Mutant: the start of the open time is not recorded.                     *)
DoorUntimed ==
  /\ at = "door" /\ at' = "confirm"
  /\ given' = given \ {"door"}
  /\ last' = IF "door" \in given THEN [last EXCEPT !["door"] = pin["door"]] ELSE last
  /\ stable' = IF Opens THEN Never ELSE IF Closes THEN 0 ELSE stable
  /\ open' = IF Opens \/ Closes THEN Never ELSE open
  /\ fate' = IF Opens THEN "alerted" ELSE fate
  /\ UNCHANGED <<pin, quiet, phase, level>>

(* The semaphore of the door: an opening is an alert and starts the open   *)
(* time; a door found closed is closed at once.                            *)
Door ==
  /\ at = "door" /\ at' = "confirm"
  /\ given' = given \ {"door"}
  /\ last' = IF "door" \in given THEN [last EXCEPT !["door"] = pin["door"]] ELSE last
  /\ stable' = IF Opens THEN Never ELSE IF Closes THEN 0 ELSE stable
  /\ open' = IF Opens THEN 0 ELSE IF Closes THEN Never ELSE open
  /\ fate' = IF Opens THEN "alerted" ELSE fate
  /\ UNCHANGED <<pin, quiet, phase, level>>

(* Mutant: every look at a closed door restarts the confirmation.          *)
ConfirmRestarts ==
  /\ at = "confirm" /\ at' = "stuck"
  /\ stable' = IF last["door"] = 1 THEN IF pin["door"] = 0 THEN 0 ELSE Never
               ELSE stable
  /\ UNCHANGED <<interrupts, last, open, phase, level, fate>>

(* Mutant: the confirmation does not look at the pin again.                *)
ConfirmBlind ==
  /\ at = "confirm" /\ at' = "stuck"
  /\ LET confirmed == last["door"] = 1 /\ stable > Stable
     IN /\ last' = IF confirmed THEN [last EXCEPT !["door"] = 0] ELSE last
        /\ stable' = IF confirmed THEN Never
                     ELSE IF last["door"] = 1 /\ stable = Never THEN 0
                     ELSE stable
        /\ open' = IF confirmed THEN Never ELSE open
  /\ UNCHANGED <<interrupts, phase, level, fate>>

(* FIX-07: a door found closed Stable after it was first found so, and not *)
(* found open since, is closed.                                            *)
Confirm ==
  /\ at = "confirm" /\ at' = "stuck"
  /\ LET closed == last["door"] = 1 /\ pin["door"] = 0
         confirmed == closed /\ stable > Stable
     IN /\ last' = IF confirmed THEN [last EXCEPT !["door"] = 0] ELSE last
        /\ stable' = IF confirmed \/ (last["door"] = 1 /\ ~closed) THEN Never
                     ELSE IF closed /\ stable = Never THEN 0
                     ELSE stable
        /\ open' = IF confirmed THEN Never ELSE open
  /\ UNCHANGED <<interrupts, phase, level, fate>>

(* FIX-35: a door open for Stuck is taken for closed.                      *)
GiveUp ==
  /\ at = "stuck" /\ at' = "delay"
  /\ IF last["door"] = 1 /\ open >= Stuck
     THEN /\ last' = [last EXCEPT !["door"] = 0]
          /\ open' = Never /\ stable' = Never
          /\ fate' = "given up"
     ELSE UNCHANGED <<last, door, fate>>
  /\ UNCHANGED <<interrupts, phase, level>>

-----------------------------------------------------------------------------
Grow(age, most) == IF age \in {Never, most} THEN age ELSE age + 1

(* The longest a closed door is taken for open.                            *)
Closing == Stable + 2 * (Period + Late)

Tick ==
  /\ phase < Late \/ (at = "delay" /\ phase < Period + Late)
  /\ phase' = phase + 1
  /\ quiet' = [s \in Pins |-> Grow(quiet[s], Debounce)]
  /\ stable' = Grow(stable, Stable + 1)
  /\ open' = IF open = Never THEN Never ELSE open + 1
  /\ level' = Grow(level, Closing + 1)
  /\ UNCHANGED <<pin, given, last, at, fate>>

(* FIX-33: what the pins read at the start is not news.                    *)
Init ==
  /\ pin \in [Pins -> {0, 1}] /\ last = pin
  /\ quiet = [s \in Pins |-> Debounce] /\ given = {}
  /\ stable = Never /\ open = Never
  /\ at = "delay" /\ phase = 0
  /\ level = 0 /\ fate = "none"

Next ==
  \/ \E s \in Sensors : Edge(s)
  \/ Wake \/ Pir \/ Door \/ Confirm \/ GiveUp
  \/ Tick

Spec == Init /\ [][Next]_vars

-----------------------------------------------------------------------------
(* Properties                                                              *)

(* Type invariant; the open time is bounded because FIX-35 acts on it.     *)
TypeOK ==
  /\ pin \in [Pins -> {0, 1}] /\ last \in [Pins -> {0, 1}]
  /\ quiet \in [Pins -> 0..Debounce] /\ given \subseteq Pins
  /\ stable \in {Never} \cup 0..(Stable + 1)
  /\ open \in Int /\ open >= Never
  /\ at \in {"delay", "pir", "door", "confirm", "stuck"}
  /\ phase \in 0..(Period + Late)
  /\ level \in 0..(Closing + 1)
  /\ fate \in {"none", "pending", "debounced", "alerted", "given up"}

(* However the closing is found out, by the semaphore or by two looks of   *)
(* the confirmation, and however late the passes are: a door that has been *)
(* closed for two of them and the 50 ms is known to be closed.             *)
ClosedDoorIsCleared == pin["door"] = 0 /\ level > Closing => last["door"] = 0

(* FIX-35: an alarm for an open door always has its deadline running, and  *)
(* ends with it; the only door that may stay open for ever is one that was *)
(* open when the system started.                                           *)
OpenDoorHasDeadline ==
  /\ last["door"] = 1 /\ fate = "alerted" => open # Never
  /\ last["door"] = 1 => open <= Stuck + Period + Late

(* A door that has been open for a pass and is taken for closed is one     *)
(* whose opening the debounce of the handler dropped, or one that has been *)
(* given up: no other interleaving loses an opening.                       *)
OpeningIsNoticed ==
  pin["door"] = 1 /\ level > Period + Late /\ last["door"] = 0 =>
    fate \in {"debounced", "given up"}

(* README.md:119: SecurityTask "Monitors PIR and door sensor for           *)
(* unauthorized access".  Motion whose edge was taken and that is still    *)
(* there when the pass looks raises an alert.                              *)
MotionIsReported ==
  ~(at = "pir" /\ "pir" \in given /\ pin["pir"] = 1 /\ last["pir"] = 1)

=============================================================================
