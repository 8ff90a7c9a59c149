-------------------------- MODULE VibrationProofs ---------------------------
(***************************************************************************)
(* Proofs about Vibration: the types of its state, that no vibration       *)
(* outside the window of an alert goes without one, and that the reports   *)
(* of MonitoringTask tell the truth, for all durations that allow it.      *)
(***************************************************************************)
EXTENDS Vibration, TLAPS

LEMMA Times ==
  /\ Timeout \in Nat \ {0} /\ Debounce \in Nat \ {0} /\ Window \in Nat \ {0}
  /\ Beat \in Nat \ {0} /\ Late \in Nat \ {0} /\ Debounce <= Window /\ Timeout <= Window
  /\ Ever \in Nat /\ Window + 4 * Late + 1 < Ever
BY VibrationAssumption DEF VibrationAssumption, Ever

Tasks == [at : {"wait", "raise", "window", "clear"}, slept : 0..Window, late : 0..Late]

LEMMA OlderType ==
  ASSUME NEW age \in 0..Ever
  PROVE  /\ Older(age) \in 0..Ever /\ age <= Older(age) /\ Older(age) <= age + 1
         /\ age < Ever => Older(age) = age + 1
BY Times DEF Older

LEMMA WaitsType ==
  ASSUME NEW age \in -1..Ever
  PROVE  /\ Waits(age) \in -1..Ever
         /\ age = -1 => Waits(age) = -1
         /\ age >= 0 => Waits(age) = Older(age)
BY Times DEF Waits, Older

LEMMA GotoType ==
  ASSUME NEW place \in {"wait", "raise", "window", "clear"}, Goto(place)
  PROVE  /\ task' \in Tasks
         /\ task'.at = place /\ task'.slept = 0 /\ task'.late = 0
BY Times DEF Goto, Tasks

-----------------------------------------------------------------------------
(* Types                                                                   *)

TypeInv ==
  /\ pin \in {0, 1} /\ flag \in {0, 1} /\ given \in {0, 1}
  /\ isr \in {"idle", "give"}
  /\ task \in Tasks
  /\ monitor \in 0..(Beat + Late)
  /\ since \in 0..Ever /\ edge \in 0..Ever /\ alert \in 0..Ever /\ shown \in 0..Ever
  /\ calm \in 0..Ever
  /\ silent \in -1..Ever /\ unshown \in -1..Ever

LEMMA TypeInit == Init => TypeInv
<1> SUFFICES ASSUME Init PROVE TypeInv
  OBVIOUS
<1>1. given \in {0, 1} /\ flag \in {0, 1} /\ pin \in {0, 1}
  BY DEF Init
<1>2. task \in Tasks
  BY Times DEF Init, Tasks
<1>3. given - 1 \in -1..Ever /\ Debounce \in 0..Ever /\ 0 \in 0..Ever /\ Ever \in 0..Ever
  BY <1>1, Times
<1>4. silent \in -1..Ever /\ unshown \in -1..Ever /\ edge \in 0..Ever
  BY <1>3 DEF Init
<1> QED  BY <1>1, <1>2, <1>3, <1>4, Times DEF Init, TypeInv

LEMMA TypeStep == TypeInv /\ [Next]_vars => TypeInv'
<1> SUFFICES ASSUME TypeInv, [Next]_vars PROVE TypeInv'
  OBVIOUS
<1> USE Times DEF TypeInv
<1>0. 0 \in 0..Ever /\ -1 \in -1..Ever /\ 0 \in -1..Ever
  OBVIOUS
<1>1. ASSUME NEW taken \in BOOLEAN, Rise(taken) PROVE TypeInv'
  <2>1. CASE taken
    <3>1. silent' \in -1..Ever /\ unshown' \in -1..Ever
      BY <1>0, <1>1, <2>1 DEF Rise
    <3> QED  BY <1>0, <1>1, <2>1, <3>1 DEF Rise
  <2>2. CASE ~taken
    BY <1>0, <1>1, <2>2 DEF Rise
  <2> QED  BY <2>1, <2>2
<1>2. CASE Give
  BY <1>2 DEF Give, history
<1>3. CASE Fall
  BY <1>3 DEF Fall, history
<1>4. CASE Taken
  <2>1. task' \in Tasks
    BY <1>4, GotoType DEF Taken
  <2>2. since' \in 0..Ever /\ flag' \in {0, 1}
    BY <1>0, <1>4 DEF Taken
  <2> QED  BY <1>4, <2>1, <2>2 DEF Taken, history
<1>5. CASE Raise
  <2>1. task' \in Tasks
    BY <1>5, GotoType DEF Raise
  <2> QED  BY <1>0, <1>5, <2>1 DEF Raise
<1>6. CASE Wake
  <2>1. task' \in Tasks
    BY <1>6, GotoType DEF Wake
  <2> QED  BY <1>6, <2>1 DEF Wake, history
<1>7. CASE TimesOut
  <2>1. task' \in Tasks
    BY <1>7, GotoType DEF TimesOut
  <2> QED  BY <1>7, <2>1 DEF TimesOut, history
<1>8. CASE Clear
  <2>1. task' \in Tasks
    BY <1>8, GotoType DEF Clear
  <2> QED  BY <1>8, <2>1 DEF Clear, history
<1>9. CASE Report
  <2>1. monitor' \in 0..(Beat + Late)
    BY <1>9 DEF Report
  <2>2. shown' \in 0..Ever /\ unshown' \in -1..Ever
    BY <1>0, <1>9 DEF Report
  <2> QED  BY <1>9, <2>1, <2>2 DEF Report
<1>10. CASE Tick
  <2>1. task' \in Tasks
    <3>1. (IF task.slept = Window THEN task.slept ELSE task.slept + 1) \in 0..Window
      BY DEF Tasks
    <3>2. (IF Runnable THEN task.late + 1 ELSE 0) \in 0..Late
      BY <1>10 DEF Tick, Tasks
    <3>3. task' = [task EXCEPT !.slept = IF task.slept = Window THEN task.slept ELSE task.slept + 1,
                               !.late = IF Runnable THEN task.late + 1 ELSE 0]
      BY <1>10 DEF Tick
    <3> HIDE DEF Runnable
    <3> QED  BY <3>1, <3>2, <3>3 DEF Tasks
  <2>2. /\ since' \in 0..Ever /\ edge' \in 0..Ever /\ alert' \in 0..Ever /\ shown' \in 0..Ever
        /\ silent' \in -1..Ever /\ unshown' \in -1..Ever
    BY <1>10, OlderType, WaitsType DEF Tick
  <2>3. calm' \in 0..Ever
    BY <1>0, <1>10, OlderType DEF Tick
  <2>4. monitor' \in 0..(Beat + Late)
    BY <1>10 DEF Tick
  <2> QED  BY <1>10, <2>1, <2>2, <2>3, <2>4 DEF Tick
<1>11. CASE UNCHANGED vars
  BY <1>11 DEF vars, code, history
<1> QED
  BY <1>1, <1>2, <1>3, <1>4, <1>5, <1>6, <1>7, <1>8, <1>9, <1>10, <1>11 DEF Next

LEMMA TypeHolds == Spec => []TypeInv
BY TypeInit, TypeStep, PTL DEF Spec

(* The types of all state of Vibration, the semaphore's among them, which  *)
(* does not count.                                                         *)
THEOREM TypeCorrect == Spec => []TypeOK
<1>1. TypeInv => TypeOK
  BY DEF TypeInv, TypeOK, Tasks
<1> QED  BY <1>1, TypeHolds, PTL

-----------------------------------------------------------------------------
(* An edge without an alert has its semaphore given, or about to be given, *)
(* until ScalabilityTask raises the alert, and no more than three delays   *)
(* pass by then: that of Clear, of Taken and of Raise.                     *)

(* The debounce of the task is over when the window is.                    *)
SinceInv ==
  /\ task.at \in {"wait", "clear"} => since >= Debounce
  /\ task.at = "window" => since >= task.slept

(* While the task sleeps the last alert is as old as the window so far.    *)
WindowInv ==
  task.at = "window" => /\ silent = -1
                        /\ task.slept < Window => alert <= task.slept
                        /\ alert <= Window + task.late

EdgeInv ==
  silent >= 0 =>
    /\ alert > Window + Late \/ task.at = "raise"
    /\ silent > 0 => given = 1 \/ task.at = "raise"
    /\ given = 1 \/ isr = "give" \/ task.at = "raise"
    /\ task.at = "clear" => silent <= task.late
    /\ task.at = "wait"  => silent <= Late + task.late
    /\ task.at = "raise" => silent <= 2 * Late + task.late

AnswerInv == SinceInv /\ WindowInv /\ EdgeInv

LEMMA AnswerInit == Init => AnswerInv
<1> SUFFICES ASSUME Init PROVE AnswerInv
  OBVIOUS
<1>1. task.at = "wait" /\ task.late = 0 /\ given \in {0, 1}
  BY DEF Init
<1>2. SinceInv
  BY Times DEF Init, SinceInv
<1>3. WindowInv
  BY <1>1 DEF WindowInv
<1>4. EdgeInv
  BY <1>1, Times DEF Init, EdgeInv
<1> QED  BY <1>2, <1>3, <1>4 DEF AnswerInv

LEMMA AnswerStep == TypeInv /\ AnswerInv /\ [Next]_vars => AnswerInv'
<1> SUFFICES ASSUME TypeInv, AnswerInv, [Next]_vars PROVE AnswerInv'
  OBVIOUS
<1>0. /\ since \in 0..Ever /\ alert \in 0..Ever /\ silent \in -1..Ever
      /\ given \in {0, 1} /\ isr \in {"idle", "give"}
      /\ task.at \in {"wait", "raise", "window", "clear"}
      /\ task.slept \in 0..Window /\ task.late \in 0..Late
  BY DEF TypeInv, Tasks
<1> USE <1>0, Times DEF AnswerInv
<1>1. ASSUME NEW taken \in BOOLEAN, Rise(taken) PROVE AnswerInv'
  <2>1. UNCHANGED <<given, task, since, alert>>
    BY <1>1 DEF Rise
  <2>2. \/ silent' = silent /\ isr' \in {"idle", "give"} /\ (isr' = isr \/ isr' = "give")
        \/ silent' = 0 /\ silent = -1 /\ alert > Window + Late /\ isr' = "give"
    <3>1. CASE taken
      <4>1. isr' = "give"
        BY <1>1, <3>1 DEF Rise
      <4>2. CASE silent = -1 /\ alert > Window + Late
        BY <1>1, <3>1, <4>1, <4>2 DEF Rise
      <4>3. CASE ~(silent = -1 /\ alert > Window + Late)
        <5>1. silent' = silent
          BY <1>1, <3>1, <4>3 DEF Rise
        <5> QED  BY <4>1, <5>1
      <4> QED  BY <4>2, <4>3
    <3>2. CASE ~taken
      <4>1. silent' = silent /\ isr' = isr
        BY <1>1, <3>2 DEF Rise
      <4> QED  BY <4>1
    <3> QED  BY <3>1, <3>2
  <2>3. SinceInv'
    BY <2>1 DEF SinceInv
  <2>4. WindowInv'
    BY <2>1, <2>2 DEF WindowInv
  <2>5. EdgeInv'
    BY <2>1, <2>2 DEF EdgeInv
  <2> QED  BY <2>3, <2>4, <2>5
<1>2. CASE Give
  BY <1>2 DEF Give, history, SinceInv, WindowInv, EdgeInv
<1>3. CASE Fall \/ Report
  <2>1. UNCHANGED <<task, since, alert, silent, given, isr>>
    BY <1>3 DEF Fall, Report, history
  <2> QED  BY <2>1 DEF SinceInv, WindowInv, EdgeInv
<1>4. CASE Taken
  <2>1. UNCHANGED <<alert, silent, isr>> /\ task.at = "wait" /\ given' = 0
    BY <1>4 DEF Taken, history
  <2>2. since >= Debounce
    BY <2>1 DEF SinceInv
  <2>3. task'.at = "raise" /\ task'.late = 0
    BY <1>4, <2>2, GotoType DEF Taken
  <2> QED  BY <2>1, <2>3 DEF SinceInv, WindowInv, EdgeInv
<1>5. CASE Raise
  <2>1. /\ alert' = 0 /\ silent' = -1 /\ since' = since
        /\ task'.at = "window" /\ task'.slept = 0 /\ task'.late = 0
    BY <1>5, GotoType DEF Raise
  <2> QED  BY <2>1 DEF SinceInv, WindowInv, EdgeInv
<1>6. CASE Wake
  <2>1. /\ UNCHANGED <<since, alert, silent>> /\ task.at = "window" /\ task.slept = Window
        /\ task'.at \in {"wait", "clear"}
    BY <1>6, GotoType DEF Wake, history
  <2> QED  BY <2>1 DEF SinceInv, WindowInv, EdgeInv
<1>7. CASE TimesOut
  <2>1. /\ UNCHANGED <<since, alert, silent, given, isr>> /\ task.at = "wait" /\ given = 0
        /\ task'.at \in {"wait", "clear"} /\ task'.late = 0
    BY <1>7, GotoType DEF TimesOut, history
  <2> QED  BY <2>1 DEF SinceInv, WindowInv, EdgeInv
<1>8. CASE Clear
  <2>1. /\ UNCHANGED <<since, alert, silent, given, isr>> /\ task.at = "clear"
        /\ task'.at = "wait" /\ task'.late = 0
    BY <1>8, GotoType DEF Clear, history
  <2> QED  BY <2>1 DEF SinceInv, WindowInv, EdgeInv
<1>9. CASE Tick
  <2>1. /\ task'.at = task.at /\ given' = given /\ isr' = isr /\ isr = "idle"
        /\ since' = Older(since) /\ alert' = Older(alert) /\ silent' = Waits(silent)
        /\ task'.slept = IF task.slept = Window THEN task.slept ELSE task.slept + 1
        /\ task'.late = IF Runnable THEN task.late + 1 ELSE 0
        /\ Runnable => task.late < Late
    BY <1>9 DEF Tick, TypeInv, Tasks
  <2>2. /\ since' \in 0..Ever /\ since <= since' /\ since' <= since + 1
        /\ alert' \in 0..Ever /\ alert <= alert' /\ alert' <= alert + 1
        /\ since < Ever => since' = since + 1
        /\ silent = -1 => silent' = -1
        /\ silent >= 0 => silent' >= 0 /\ silent' <= silent + 1
        /\ silent' \in -1..Ever
    BY <2>1, OlderType, WaitsType
  <2>3. SinceInv'
    BY <2>1, <2>2 DEF SinceInv
  <2>4. WindowInv'
    <3>1. CASE task.slept = Window
      BY <2>1, <2>2, <3>1 DEF WindowInv, Runnable
    <3>2. CASE task.slept < Window
      BY <2>1, <2>2, <3>2 DEF WindowInv, Runnable
    <3> QED  BY <3>1, <3>2
  <2>5. EdgeInv'
    <3> SUFFICES ASSUME silent >= 0 PROVE EdgeInv'
      BY <2>2 DEF EdgeInv
    <3>1. task.at # "window"
      BY DEF WindowInv
    <3>2. given = 1 \/ task.at = "raise"
      BY <2>1 DEF EdgeInv
    <3>3. Runnable
      BY <3>1, <3>2 DEF Runnable
    <3> QED  BY <2>1, <2>2, <3>1, <3>2, <3>3 DEF EdgeInv
  <2> QED  BY <2>3, <2>4, <2>5
<1>10. CASE UNCHANGED vars
  BY <1>10 DEF vars, code, history, SinceInv, WindowInv, EdgeInv
<1> QED
  BY <1>1, <1>2, <1>3, <1>4, <1>5, <1>6, <1>7, <1>8, <1>9, <1>10 DEF Next

(* A vibration that the window of the last alert does not cover has its    *)
(* alert within three delays of ScalabilityTask: neither the check at the  *)
(* end of the window nor the debounce of the task swallows it.             *)
THEOREM VibrationsAreAnswered == Spec => []VibrationIsAnswered
<1>1. TypeInv /\ AnswerInv => VibrationIsAnswered
  BY Times DEF TypeInv, Tasks, AnswerInv, EdgeInv, WindowInv, VibrationIsAnswered
<1> QED  BY <1>1, TypeHolds, AnswerInit, AnswerStep, PTL DEF Spec

-----------------------------------------------------------------------------
(* What MonitoringTask publishes.                                          *)

(* From the alert to the end of the window the flag is set, and its first  *)
(* report comes with the first beat.                                       *)
FlagInv ==
  task.at \in {"raise", "window"} => flag = 1 /\ (shown <= monitor \/ since <= monitor)

UnshownInv ==
  unshown >= 0 =>
    /\ shown > Beat + Late
    /\ task.at \in {"wait", "clear"} => /\ given = 1 \/ isr = "give"
                                        /\ unshown > 0 => given = 1
    /\ task.at = "clear" => unshown <= task.late
    /\ task.at = "wait"  => unshown <= Late + task.late
    /\ task.at \in {"raise", "window"} => unshown <= 2 * Late + since

(* A given semaphore comes from an edge of late.                           *)
CalmInv ==
  /\ pin = 1 \/ isr = "give" => calm = 0
  /\ task.at = "clear" /\ given = 1 => calm <= task.late
  /\ task.at = "wait" /\ given = 1 => calm <= Late + task.late
  /\ task.at = "raise" => /\ calm <= 2 * Late + task.late
                          /\ given = 1 => calm <= task.late
  /\ task.at = "window" =>
       /\ calm <= 3 * Late + Window + task.late
       /\ task.slept < Window => calm <= 3 * Late + task.slept
       /\ given = 1 => /\ calm <= Late + Window + task.late
                       /\ task.slept < Window => calm <= Late + task.slept
  /\ task.at = "wait" /\ flag = 1 =>
       /\ calm <= Window + 2 * Late + Timeout + task.late
       /\ task.slept < Timeout => calm <= Window + 2 * Late + task.slept
  /\ task.at = "clear" /\ flag = 1 => calm <= Window + Timeout + 3 * Late + task.late

ReportInv == SinceInv /\ FlagInv /\ UnshownInv /\ CalmInv

LEMMA ReportInit == Init => ReportInv
<1> SUFFICES ASSUME Init PROVE ReportInv
  OBVIOUS
<1>1. /\ task.at = "wait" /\ task.slept = 0 /\ task.late = 0
      /\ given \in {0, 1} /\ calm = 0 /\ since = Debounce
      /\ unshown = given - 1 /\ shown = Ever
  BY DEF Init
<1>2. Beat + Late < Ever
  BY Times DEF Ever
<1> QED
  BY <1>1, <1>2, Times DEF ReportInv, SinceInv, FlagInv, UnshownInv, CalmInv

LEMMA ReportStep ==
  ASSUME Late <= Timeout, Beat + Late < Window, TypeInv, ReportInv, [Next]_vars
  PROVE  ReportInv'
<1>0. /\ since \in 0..Ever /\ shown \in 0..Ever /\ calm \in 0..Ever /\ unshown \in -1..Ever
      /\ monitor \in 0..(Beat + Late)
      /\ pin \in {0, 1} /\ flag \in {0, 1} /\ given \in {0, 1} /\ isr \in {"idle", "give"}
      /\ task.at \in {"wait", "raise", "window", "clear"}
      /\ task.slept \in 0..Window /\ task.late \in 0..Late
  BY DEF TypeInv, Tasks
<1> USE <1>0, Times DEF ReportInv
<1>1. ASSUME NEW taken \in BOOLEAN, Rise(taken) PROVE ReportInv'
  <2>1. UNCHANGED <<given, task, since, monitor, shown>> /\ calm' = 0 /\ isr = "idle"
    BY <1>1 DEF Rise
  <2>2. \/ unshown' = unshown /\ flag' \in {flag, 1} /\ isr' \in {isr, "give"}
        \/ unshown' = 0 /\ shown > Beat + Late /\ flag' = 1 /\ isr' = "give"
    <3>1. CASE taken
      <4>1. isr' = "give" /\ flag' = 1
        BY <1>1, <3>1 DEF Rise
      <4>2. CASE unshown = -1 /\ shown > Beat + Late
        <5>1. unshown' = 0
          BY <1>1, <3>1, <4>2 DEF Rise
        <5> QED  BY <4>1, <4>2, <5>1
      <4>3. CASE ~(unshown = -1 /\ shown > Beat + Late)
        <5>1. unshown' = unshown
          BY <1>1, <3>1, <4>3 DEF Rise
        <5> QED  BY <4>1, <5>1
      <4> QED  BY <4>2, <4>3
    <3>2. CASE ~taken
      <4>1. UNCHANGED <<unshown, flag, isr>>
        BY <1>1, <3>2 DEF Rise
      <4> QED  BY <4>1
    <3> QED  BY <3>1, <3>2
  <2>3. SinceInv' /\ FlagInv'
    BY <2>1, <2>2 DEF SinceInv, FlagInv
  <2>4. UnshownInv'
    BY <2>1, <2>2 DEF UnshownInv
  <2>5. CalmInv'
    BY <2>1, <2>2 DEF CalmInv
  <2> QED  BY <2>3, <2>4, <2>5
<1>2. CASE Give
  <2>1. /\ UNCHANGED <<pin, flag, task, since, monitor, shown, unshown, calm>>
        /\ given' = 1 /\ isr = "give"
    BY <1>2 DEF Give, history
  <2> QED  BY <2>1 DEF SinceInv, FlagInv, UnshownInv, CalmInv
<1>3. CASE Fall
  <2>1. /\ UNCHANGED <<isr, flag, given, task, since, monitor, shown, unshown, calm>>
        /\ pin' = 0
    BY <1>3 DEF Fall, history
  <2> QED  BY <2>1 DEF SinceInv, FlagInv, UnshownInv, CalmInv
<1>4. CASE Taken
  <2>1. /\ UNCHANGED <<pin, isr, monitor, shown, unshown, calm>>
        /\ task.at = "wait" /\ given = 1 /\ given' = 0
    BY <1>4 DEF Taken, history
  <2>2. since >= Debounce
    BY <2>1 DEF SinceInv
  <2>3. task'.at = "raise" /\ task'.late = 0 /\ since' = 0 /\ flag' = 1
    BY <1>4, <2>2, GotoType DEF Taken
  <2> QED  BY <2>1, <2>3 DEF SinceInv, FlagInv, UnshownInv, CalmInv
<1>5. CASE Raise
  <2>1. /\ UNCHANGED <<pin, isr, flag, given, since, monitor, shown, unshown, calm>>
        /\ task.at = "raise" /\ task'.at = "window" /\ task'.slept = 0 /\ task'.late = 0
    BY <1>5, GotoType DEF Raise
  <2> QED  BY <2>1 DEF SinceInv, FlagInv, UnshownInv, CalmInv
<1>6. CASE Wake
  <2>1. /\ UNCHANGED <<pin, isr, flag, since, monitor, shown, unshown, calm>>
        /\ task.at = "window" /\ task.slept = Window /\ given' = 0
        /\ task'.slept = 0 /\ task'.late = 0
        /\ task'.at = IF given = 1 THEN "wait" ELSE "clear"
    BY <1>6, GotoType DEF Wake, history
  <2>2. unshown = -1
    BY <2>1 DEF SinceInv, FlagInv, UnshownInv
  <2> QED  BY <2>1, <2>2 DEF SinceInv, FlagInv, UnshownInv, CalmInv
<1>7. CASE TimesOut
  <2>1. /\ UNCHANGED <<pin, isr, flag, given, since, monitor, shown, unshown, calm>>
        /\ task.at = "wait" /\ given = 0
        /\ task'.slept = 0 /\ task'.late = 0
        /\ task'.at = IF pin = 0 THEN "clear" ELSE "wait"
    BY <1>7, GotoType DEF TimesOut, history
  <2> QED  BY <2>1 DEF SinceInv, FlagInv, UnshownInv, CalmInv
<1>8. CASE Clear
  <2>1. /\ UNCHANGED <<pin, isr, given, since, monitor, shown, unshown, calm>>
        /\ task.at = "clear" /\ flag' = 0 /\ task'.at = "wait"
        /\ task'.slept = 0 /\ task'.late = 0
    BY <1>8, GotoType DEF Clear, history
  <2> QED  BY <2>1 DEF SinceInv, FlagInv, UnshownInv, CalmInv
<1>9. CASE Report
  <2>1. /\ UNCHANGED <<pin, isr, flag, given, task, since, calm>>
        /\ monitor' \in 0..(Beat + Late)
        /\ shown' = IF flag = 1 THEN 0 ELSE shown
        /\ unshown' = IF flag = 1 THEN -1 ELSE unshown
    BY <1>9 DEF Report
  <2> QED  BY <2>1 DEF SinceInv, FlagInv, UnshownInv, CalmInv
<1>10. CASE Tick
  <2>1. /\ task'.at = task.at /\ UNCHANGED <<given, isr, flag, pin>> /\ isr = "idle"
        /\ monitor' = monitor + 1
        /\ since' = Older(since) /\ shown' = Older(shown) /\ unshown' = Waits(unshown)
        /\ calm' = IF pin = 1 THEN 0 ELSE Older(calm)
        /\ task'.slept = IF task.slept = Window THEN task.slept ELSE task.slept + 1
        /\ task'.late = IF Runnable THEN task.late + 1 ELSE 0
        /\ Runnable => task.late < Late
    BY <1>10 DEF Tick, TypeInv, Tasks
  <2>2. /\ since' \in 0..Ever /\ since <= since' /\ since' <= since + 1
        /\ since < Ever => since' = since + 1
        /\ shown' \in 0..Ever /\ shown <= shown' /\ shown' <= shown + 1
        /\ calm' \in 0..Ever /\ calm' <= calm + 1 /\ (pin = 1 => calm' = 0)
        /\ unshown = -1 => unshown' = -1
        /\ unshown >= 0 => unshown' >= 0 /\ unshown' <= unshown + 1
        /\ unshown' \in -1..Ever
    BY <2>1, OlderType, WaitsType
  <2>3. SinceInv' /\ FlagInv'
    BY <2>1, <2>2 DEF SinceInv, FlagInv
  <2>4. UnshownInv'
    <3>0. CASE unshown = -1
      BY <2>2, <3>0 DEF UnshownInv
    <3> SUFFICES ASSUME unshown >= 0 PROVE UnshownInv'
      BY <3>0
    <3>1. CASE task.at \in {"wait", "clear"}
      <4>1. given = 1 /\ Runnable
        BY <2>1, <3>1 DEF UnshownInv, Runnable
      <4> QED  BY <2>1, <2>2, <3>1, <4>1 DEF UnshownInv
    <3>2. CASE task.at \in {"raise", "window"}
      <4>1. since < Ever
        BY <3>2 DEF UnshownInv, FlagInv, Ever
      <4> QED  BY <2>1, <2>2, <3>2, <4>1 DEF UnshownInv
    <3> QED  BY <3>1, <3>2
  <2>5. CalmInv'
    <3>1. CASE task.at = "clear" \/ task.at = "raise"
      BY <2>1, <2>2, <3>1 DEF CalmInv, Runnable
    <3>2. CASE task.at = "wait"
      <4>1. CASE given = 1
        BY <2>1, <2>2, <3>2, <4>1 DEF CalmInv, Runnable
      <4>2. CASE given = 0 /\ task.slept < Timeout
        <5>0. ~Runnable
          BY <3>2, <4>2 DEF Runnable
        <5>1. task'.slept = task.slept + 1 /\ task'.late = 0
          <6> HIDE DEF Runnable
          <6> QED  BY <2>1, <4>2, <5>0
        <5>2. flag = 1 => calm <= Window + 2 * Late + task.slept
          BY <3>2, <4>2 DEF CalmInv
        <5>3. flag = 1 => calm' <= Window + 2 * Late + task'.slept /\ task'.slept <= Timeout
          BY <2>2, <4>2, <5>1, <5>2
        <5> QED  BY <2>1, <2>2, <3>2, <4>2, <5>1, <5>3 DEF CalmInv
      <4>3. CASE given = 0 /\ task.slept >= Timeout
        BY <2>1, <2>2, <3>2, <4>3 DEF CalmInv, Runnable
      <4> QED  BY <4>1, <4>2, <4>3
    <3>3. CASE task.at = "window"
      <4>1. CASE task.slept < Window
        BY <2>1, <2>2, <3>3, <4>1 DEF CalmInv, Runnable
      <4>2. CASE task.slept = Window
        BY <2>1, <2>2, <3>3, <4>2 DEF CalmInv, Runnable
      <4> QED  BY <4>1, <4>2
    <3> QED  BY <3>1, <3>2, <3>3
  <2> QED  BY <2>3, <2>4, <2>5
<1>11. CASE UNCHANGED vars
  BY <1>11 DEF vars, code, history, SinceInv, FlagInv, UnshownInv, CalmInv
<1> QED
  BY <1>1, <1>2, <1>3, <1>4, <1>5, <1>6, <1>7, <1>8, <1>9, <1>10, <1>11 DEF Next

(* An edge is in a report within a beat and three delays, although the flag*)
(* may be cleared just after it was set, and no flag outlives its          *)
(* vibration, if a window is longer than a late beat and a delay is not    *)
(* longer than the time-out of ScalabilityTask.                            *)
THEOREM ReportsTellTheTruth ==
  ASSUME Late <= Timeout, Beat + Late < Window
  PROVE  Spec => []ReportsAreTrue
<1>1. TypeInv /\ ReportInv /\ [Next]_vars => ReportInv'
  BY ReportStep
<1>2. TypeInv /\ ReportInv => ReportsAreTrue
  <2> SUFFICES ASSUME TypeInv, ReportInv PROVE ReportsAreTrue
    OBVIOUS
  <2>0. /\ since \in 0..Ever /\ shown \in 0..Ever /\ calm \in 0..Ever /\ unshown \in -1..Ever
        /\ monitor \in 0..(Beat + Late)
        /\ task.at \in {"wait", "raise", "window", "clear"}
        /\ task.slept \in 0..Window /\ task.late \in 0..Late
    BY DEF TypeInv, Tasks
  <2> USE <2>0, Times
  <2>1. unshown <= Beat + 3 * Late
    BY DEF ReportInv, FlagInv, UnshownInv
  <2>2. ASSUME flag = 1 PROVE calm <= Window + Timeout + 4 * Late
    BY <2>2 DEF ReportInv, CalmInv
  <2> QED  BY <2>1, <2>2 DEF ReportsAreTrue
<1> QED
  BY <1>1, <1>2, TypeHolds, ReportInit, PTL DEF Spec

=============================================================================
