----------------------------- MODULE Vibration ------------------------------
(***************************************************************************)
(* How a vibration is noticed, answered and reported.                      *)
(*                                                                         *)
(* A rising edge of the sensor's pin runs an interrupt handler, which sets *)
(* g_vib_isr_flag and gives a binary semaphore.  ScalabilityTask takes it, *)
(* raises the event, sleeps for a window of 3 s, and clears the flag when  *)
(* no further edge has come.  MonitoringTask publishes the flag once a     *)
(* second.                                                                 *)
(*                                                                         *)
(* Time is counted in periods of 500 ms, by ages.                          *)
(***************************************************************************)
EXTENDS Integers

CONSTANTS
  Timeout,   (* SCALABILITY_PERIOD_MS: how long it waits for the semaphore   *)
  Debounce,  (* VIBRATION_DEBOUNCE_MS                                        *)
  Window,    (* the delay after an alert                                     *)
  Beat,      (* MONITORING_PERIOD_MS                                         *)
  Late       (* how long a task that could run may be kept from it           *)

ASSUME VibrationAssumption ==
  /\ {Timeout, Debounce, Window, Beat, Late} \subseteq Nat \ {0}
  /\ Debounce <= Window /\ Timeout <= Window

VARIABLES
  pin,       (* the level of the sensor's pin                                *)
  isr,       (* vibration_isr_handler: "idle", or about to "give"            *)
  flag,      (* g_vib_isr_flag                                               *)
  given,     (* xVibrationSemaphore                                          *)
  task,      (* ScalabilityTask: [at, slept, late]                           *)
  since,     (* the age of lastTick                                          *)
  monitor,   (* the time since MonitoringTask was due the last time          *)
  edge,      (* the age of last_ms, the last edge the handler took           *)
  alert,     (* history: the age of the last alert                           *)
  silent,    (* history: for how long an edge has had no alert, -1: none     *)
  shown,     (* history: the age of the last report of a vibration           *)
  unshown,   (* history: for how long an edge has been in no report, -1      *)
  calm       (* history: how long ago there was an edge or a high level      *)

code    == <<pin, isr, flag, given, task, since, monitor, edge>>
history == <<alert, silent, shown, unshown, calm>>
vars    == <<code, history>>

(* The longest age that matters.                                           *)
Ever == Window + Timeout + Beat + 4 * Late + 2

Older(age) == IF age = Ever THEN Ever ELSE age + 1
Waits(age) == IF age = -1 THEN -1 ELSE Older(age)

Goto(place) == task' = [at |-> place, slept |-> 0, late |-> 0]

-----------------------------------------------------------------------------
(* The interrupt.  A period is longer than its 50 ms: an edge in the period*)
(* of the last one, or in the next, can come too early for it.             *)

Rise(taken) ==
  /\ pin = 0 /\ pin' = 1 /\ isr = "idle"
  /\ IF taken
     THEN /\ isr' = "give" /\ flag' = 1 /\ edge' = 0
          /\ silent'  = IF silent = -1 /\ alert > Window + Late THEN 0 ELSE silent
          /\ unshown' = IF unshown = -1 /\ shown > Beat + Late THEN 0 ELSE unshown
     ELSE edge <= 1 /\ UNCHANGED <<isr, flag, edge, silent, unshown>>
  /\ calm' = 0
  /\ UNCHANGED <<given, task, since, monitor, alert, shown>>

(* Mutant: a semaphore that counts.                                        *)
GiveCounts ==
  /\ isr = "give" /\ isr' = "idle" /\ given' = given + 1
  /\ UNCHANGED <<pin, flag, task, since, monitor, edge, history>>

Give ==
  /\ isr = "give" /\ isr' = "idle" /\ given' = 1
  /\ UNCHANGED <<pin, flag, task, since, monitor, edge, history>>

Fall ==
  /\ pin = 1 /\ pin' = 0
  /\ UNCHANGED <<isr, flag, given, task, since, monitor, edge, history>>

-----------------------------------------------------------------------------
(* ScalabilityTask                                                         *)

(* Mutant: a debounce that is longer than the window.                      *)
TakenSlowly ==
  /\ task.at = "wait" /\ given = 1 /\ given' = 0
  /\ IF since < 2 * Window
     THEN Goto("wait") /\ UNCHANGED <<since, flag>>
     ELSE Goto("raise") /\ since' = 0 /\ flag' = 1
  /\ UNCHANGED <<pin, isr, monitor, edge, history>>

(* The semaphore is taken; an edge too soon after the last alert is none.  *)
Taken ==
  /\ task.at = "wait" /\ given = 1 /\ given' = 0
  /\ IF since < Debounce
     THEN Goto("wait") /\ UNCHANGED <<since, flag>>
     ELSE Goto("raise") /\ since' = 0 /\ flag' = 1
  /\ UNCHANGED <<pin, isr, monitor, edge, history>>

(* The log, the event, its bit and the system state; then it sleeps.       *)
Raise ==
  /\ task.at = "raise" /\ Goto("window")
  /\ alert' = 0 /\ silent' = -1
  /\ UNCHANGED <<pin, isr, flag, given, since, monitor, edge, shown, unshown, calm>>

(* The window is over.                                                     *)
Wake ==
  /\ task.at = "window" /\ task.slept >= Window
  /\ given' = 0
  /\ Goto(IF given = 1 THEN "wait" ELSE "clear")
  /\ UNCHANGED <<pin, isr, flag, since, monitor, edge, history>>

(* Mutant: the flag is left alone when the semaphore does not come.        *)
TimesOutOnly ==
  /\ task.at = "wait" /\ given = 0 /\ task.slept >= Timeout
  /\ Goto("wait")
  /\ UNCHANGED <<pin, isr, flag, given, since, monitor, edge, history>>

(* The semaphore did not come: it looks at the pin.                        *)
TimesOut ==
  /\ task.at = "wait" /\ given = 0 /\ task.slept >= Timeout
  /\ Goto(IF pin = 0 THEN "clear" ELSE "wait")
  /\ UNCHANGED <<pin, isr, flag, given, since, monitor, edge, history>>

(* By now the handler may have set the flag again.                         *)
Clear ==
  /\ task.at = "clear" /\ Goto("wait") /\ flag' = 0
  /\ UNCHANGED <<pin, isr, given, since, monitor, edge, history>>

(* MonitoringTask publishes the flag; its next pass is due on the grid.    *)
Report ==
  /\ monitor >= Beat /\ monitor' = monitor - Beat
  /\ shown'   = IF flag = 1 THEN 0 ELSE shown
  /\ unshown' = IF flag = 1 THEN -1 ELSE unshown
  /\ UNCHANGED <<pin, isr, flag, given, task, since, edge, alert, silent, calm>>

-----------------------------------------------------------------------------
Runnable ==
  \/ task.at \in {"raise", "clear"}
  \/ task.at = "wait" /\ (given = 1 \/ task.slept >= Timeout)
  \/ task.at = "window" /\ task.slept >= Window

Tick ==
  /\ isr = "idle"
  /\ Runnable => task.late < Late
  /\ monitor < Beat + Late /\ monitor' = monitor + 1
  /\ task' = [task EXCEPT !.slept = IF @ = Window THEN @ ELSE @ + 1,
                          !.late = IF Runnable THEN @ + 1 ELSE 0]
  /\ since' = Older(since) /\ edge' = Older(edge)
  /\ alert' = Older(alert) /\ silent' = Waits(silent)
  /\ shown' = Older(shown) /\ unshown' = Waits(unshown)
  /\ calm' = IF pin = 1 THEN 0 ELSE Older(calm)
  /\ UNCHANGED <<pin, isr, flag, given>>

(* The tasks start more than VIBRATION_DEBOUNCE_MS after the clock, which  *)
(* lastTick and last_ms start from; an edge that came before is kept in    *)
(* the semaphore.                                                          *)
Init ==
  /\ pin \in {0, 1} /\ isr = "idle" /\ given \in {0, 1} /\ flag = given
  /\ task = [at |-> "wait", slept |-> 0, late |-> 0]
  /\ since = Debounce /\ monitor = 0 /\ edge = IF given = 1 THEN 0 ELSE Debounce
  /\ alert = Ever /\ silent = given - 1 /\ shown = Ever /\ unshown = given - 1
  /\ calm = 0

Next ==
  \/ \E taken \in BOOLEAN : Rise(taken)
  \/ Give \/ Fall
  \/ Taken \/ Raise \/ Wake \/ TimesOut \/ Clear
  \/ Report
  \/ Tick

Spec == Init /\ [][Next]_vars

-----------------------------------------------------------------------------
(* Properties                                                              *)

(* Type invariant.                                                         *)
TypeOK ==
  /\ pin \in {0, 1} /\ flag \in {0, 1} /\ given \in {0, 1}
  /\ isr \in {"idle", "give"}
  /\ task \in [at : {"wait", "raise", "window", "clear"}, slept : 0..Window, late : 0..Late]
  /\ monitor \in 0..(Beat + Late)
  /\ {since, edge, alert, shown, calm} \subseteq 0..Ever
  /\ {silent, unshown} \subseteq -1..Ever

(* An edge is answered by an alert once ScalabilityTask comes to run, or it*)
(* lies in the window of the last one: the check at the end of a window,   *)
(* which takes the semaphore and raises nothing, swallows no edge that the *)
(* window does not cover, nor does the debounce of the task.               *)
VibrationIsAnswered == silent <= 3 * Late

(* What MonitoringTask publishes.  An edge is in a report within a beat and*)
(* the delays, unless one a beat before had already told of the vibration, *)
(* although the flag can be cleared just after an edge has set it.  And a  *)
(* flag whose edge was swallowed by the check at the end of a window is not*)
(* left standing when the sensor has come to rest.                         *)
ReportsAreTrue ==
  /\ unshown <= Beat + 3 * Late
  /\ flag = 1 => calm <= Window + Timeout + 4 * Late

=============================================================================
