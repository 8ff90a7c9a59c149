--------------------------- MODULE DisplayProofs ----------------------------
(***************************************************************************)
(* Proofs about Presence and Display: who is counted, on a clock that does *)
(* not wrap; that what Display adds takes nothing away from that; that the *)
(* glass follows the clients; and that no text on it is cut off.  For all  *)
(* durations and any number of failed transfers.                           *)
(***************************************************************************)
EXTENDS Display, TLAPS

-----------------------------------------------------------------------------
(* Presence: who is counted.                                               *)

LEMMA Times ==
  /\ Timeout \in Nat \ {0} /\ Check \in Nat \ {0} /\ Boot \in Nat \ {0}
  /\ Ready \in Nat \ {0} /\ Banner \in Nat \ {0} /\ Page \in Nat \ {0}
  /\ Pages \in Nat \ {0} /\ Misses \in Nat /\ Wrap \in Nat
  /\ Timeout < Wrap
  BY PresenceAssumption DEF Durations

(* The times after which CleanupTask is as late as it can be.              *)
Missed(m) == m * (Check + 1)

LEMMA MissedType ==
  /\ Missed(0) = 0
  /\ \A m \in Nat : /\ Missed(m) \in Nat
                    /\ Missed(m + 1) = Missed(m) + Check + 1
                    /\ m <= Misses => Missed(m) + Check + 1 <= Missed(Misses + 1)
<1>1. Missed(0) = 0
  BY Times DEF Missed
<1>2. ASSUME NEW m \in Nat PROVE Missed(m) \in Nat /\ Missed(m + 1) = Missed(m) + Check + 1
  BY Times DEF Missed
<1>3. ASSUME NEW m \in Nat, m <= Misses PROVE Missed(m) + Check + 1 <= Missed(Misses + 1)
  <2>1. PICK d \in Nat : Misses = m + d
    BY <1>3, Times, Misses - m \in Nat
  <2>2. Missed(Misses + 1) = Missed(m) + Missed(d) + Check + 1
    BY <2>1, Times DEF Missed
  <2> QED
    BY <1>2, <2>2, Times
<1> QED
  BY <1>1, <1>2, <1>3

LEMMA SilenceType == Silence \in Nat /\ Silence = Timeout + Missed(Misses + 1)
  BY Times, MissedType DEF Silence, Missed

LEMMA SmallMod == \A x \in Nat : x < Wrap => x % Wrap = x
  BY Times

-----------------------------------------------------------------------------
(* Types.                                                                  *)

OledTimes == 0..(Boot + Ready + Banner)
States == {"BOOT", "READY", "WAIT_APP", "CONNECTED", "LIVE", "off"}
Oleds == [state : States, since : OledTimes, prev : {0, 1}, page : 0..(Pages - 1),
            shown : 0..Page]

LEMMA OledType ==
  ASSUME oled \in Oleds, count \in {0, 1}, OledStep
  PROVE  oled' \in Oleds
<1>0. 0 \in OledTimes /\ 0 \in 0..(Pages - 1) /\ 0 \in 0..Page
  BY Times DEF OledTimes
<1> USE <1>0 DEF Oleds
<1>1. ASSUME NEW state \in States, NEW next \in States, Turn(state, next)
      PROVE  oled' \in Oleds
  <2>1. PICK since \in OledTimes :
          oled' = [oled EXCEPT !.state = next, !.prev = count, !.since = since]
    BY <1>1 DEF Turn
  <2> QED
    BY <2>1
<1>2. CASE Splash \/ Greet \/ WaitApp \/ Change
  BY <1>1, <1>2 DEF Splash, Greet, WaitApp, Change, States
<1>3. CASE Connected
  <2>1. \/ oled' = [oled EXCEPT !.state = "LIVE", !.prev = count, !.page = 0, !.shown = 0]
        \/ oled' = [oled EXCEPT !.prev = count]
    BY <1>3 DEF Connected
  <2> QED
    BY <2>1 DEF States
<1>4. CASE Rotate
  <2>1. (oled.page + 1) % Pages \in 0..(Pages - 1)
    BY Times
  <2>2. \/ oled' = [oled EXCEPT !.prev = count, !.page = (oled.page + 1) % Pages, !.shown = 0]
        \/ oled' = [oled EXCEPT !.prev = count]
    BY <1>4 DEF Rotate
  <2> QED
    BY <2>1, <2>2
<1> QED
  BY <1>2, <1>3, <1>4 DEF OledStep

(* TypeOK, whatever the durations and whether the clock wraps or not.      *)
THEOREM TypeCorrect == Spec => []TypeOK
<1> USE Times, SilenceType
<1>1. Init => TypeOK
  <2> SUFFICES ASSUME Init PROVE TypeOK
    OBVIOUS
  <2>1. /\ now \in 0..(Wrap - 1) /\ request \in 0..(Wrap - 1) /\ count \in {0, 1}
        /\ ran \in BOOLEAN /\ asked \in 0..(Silence + 1)
    <3>1. 1 \in 0..(Wrap - 1) /\ 0 \in 0..(Wrap - 1) /\ Silence + 1 \in 0..(Silence + 1)
      OBVIOUS
    <3>2. now = 1 /\ request = 0 /\ count = 0 /\ ran = FALSE /\ asked = Silence + 1
      BY DEF Init
    <3> QED
      BY <3>1, <3>2
  <2>2. cleanup \in [slept : 0..(Check + 1), missed : 0..Misses]
    <3>1. cleanup = [slept |-> 0, missed |-> 0]
      BY DEF Init
    <3>2. 0 \in 0..(Check + 1) /\ 0 \in 0..Misses
      OBVIOUS
    <3> QED
      BY <3>1, <3>2
  <2>3. oled \in Oleds
    <3>1. 0 \in OledTimes /\ 0 \in 0..(Pages - 1) /\ 0 \in 0..Page
      BY DEF OledTimes
    <3> QED
      BY <3>1 DEF Init, Oleds, States
  <2> QED
    BY <2>1, <2>2, <2>3 DEF TypeOK, Oleds, States, OledTimes
<1>2. TypeOK /\ [Next]_vars => TypeOK'
  <2> SUFFICES ASSUME TypeOK, [Next]_vars PROVE TypeOK'
    OBVIOUS
  <2>0. oled \in Oleds
    BY DEF TypeOK, Oleds, States, OledTimes
  <2> USE DEF TypeOK
  <2>1. CASE Activity
    BY <2>1 DEF Activity
  <2>2. CASE Cleanup
    BY <2>2 DEF Cleanup
  <2>3. CASE CleanupMisses
    BY <2>3 DEF CleanupMisses
  <2>4. CASE OledStep
    <3>1. oled' \in Oleds
      BY <2>0, <2>4, OledType
    <3>2. ran' = TRUE /\ UNCHANGED <<now, request, count, cleanup, asked>>
      BY <2>4 DEF OledStep, Splash, Greet, WaitApp, Connected, Change, Rotate, Turn
    <3> QED
      BY <3>1, <3>2 DEF Oleds, States, OledTimes
  <2>5. CASE Tick
    <3>1. now' \in 0..(Wrap - 1)
      BY <2>5 DEF Tick
    <3>2. cleanup' \in [slept : 0..(Check + 1), missed : 0..Misses]
      BY <2>5 DEF Tick
    <3>3. oled' \in Oleds
      <4>1. /\ Older(oled.since, Boot + Ready + Banner) \in OledTimes
            /\ Older(oled.shown, Page) \in 0..Page
        BY <2>0 DEF Older, Oleds, OledTimes
      <4>2. oled' = [oled EXCEPT !.since = Older(oled.since, Boot + Ready + Banner),
                                 !.shown = Older(oled.shown, Page)]
        BY <2>5 DEF Tick
      <4> QED
        BY <2>0, <4>1, <4>2 DEF Oleds
    <3>4. asked' \in 0..(Silence + 1)
      BY <2>5 DEF Tick, Older
    <3> QED
      BY <2>5, <3>1, <3>2, <3>3, <3>4 DEF Tick, Oleds, States, OledTimes
  <2>6. CASE UNCHANGED vars
    BY <2>6 DEF vars
  <2> QED
    BY <2>1, <2>2, <2>3, <2>4, <2>5, <2>6 DEF Next
<1> QED
  BY <1>1, <1>2, PTL DEF Spec

-----------------------------------------------------------------------------
(* The clock has not wrapped: the time stamp lies in the past, the history *)
(* of the last request is its age, a client is counted while its request   *)
(* is recent, and is uncounted by the checks that did not miss it.         *)
Quiet == now - request
Fresh ==
  /\ 1 <= now /\ request <= now
  /\ request = 0 => asked = Silence + 1
  /\ request > 0 => asked = IF Quiet <= Silence THEN Quiet ELSE Silence + 1
  /\ request > 0 /\ Quiet <= Timeout => count = 1
  /\ count = 1 => request > 0 /\ Quiet <= Timeout + Missed(cleanup.missed) + cleanup.slept

LEMMA FreshInit == Init => Fresh
  BY Times, SilenceType DEF Init, Fresh, Quiet

LEMMA FreshStep ==
  ASSUME ~Rollover, TypeOK, Fresh, [Next]_vars
  PROVE  Fresh'
<1>0. /\ now \in Nat /\ request \in Nat /\ count \in {0, 1} /\ now < Wrap
      /\ cleanup.slept \in Nat /\ cleanup.slept <= Check + 1
      /\ cleanup.missed \in Nat /\ cleanup.missed <= Misses
      /\ asked \in Nat /\ Quiet \in Nat /\ Age = Quiet
  BY Times, SilenceType, SmallMod DEF TypeOK, Fresh, Quiet, Age
<1>1. /\ Missed(0) = 0 /\ Missed(cleanup.missed) \in Nat
      /\ Missed(cleanup.missed + 1) = Missed(cleanup.missed) + Check + 1
  BY <1>0, MissedType
<1> USE <1>0, <1>1, Times, SilenceType DEF Fresh
<1>2. CASE Activity
  <2>1. now' = now /\ request' = now /\ asked' = 0 /\ cleanup' = cleanup /\ Quiet' = 0
    BY <1>2 DEF Activity, Quiet
  <2>2. count' = 1
    BY <1>2 DEF Activity
  <2> QED
    BY <2>1, <2>2
<1>3. CASE Cleanup
  <2>1. now' = now /\ request' = request /\ asked' = asked /\ Quiet' = Quiet
    BY <1>3 DEF Cleanup, Quiet
  <2>2. /\ count' = IF request > 0 /\ Quiet > Timeout THEN 0 ELSE count
        /\ cleanup'.slept = 0 /\ cleanup'.missed = 0
    BY <1>3 DEF Cleanup
  <2> QED
    BY <2>1, <2>2
<1>4. CASE CleanupMisses
  <2>1. now' = now /\ request' = request /\ asked' = asked /\ count' = count /\ Quiet' = Quiet
    BY <1>4 DEF CleanupMisses, Quiet
  <2>2. cleanup'.slept = 0 /\ cleanup'.missed = cleanup.missed + 1
    BY <1>4 DEF CleanupMisses
  <2> QED
    BY <2>1, <2>2
<1>5. CASE Tick
  <2>1. /\ now' = now + 1 /\ request' = request /\ count' = count
        /\ cleanup'.slept = cleanup.slept + 1 /\ cleanup'.missed = cleanup.missed
        /\ asked' = Older(asked, Silence + 1)
    BY <1>5, SmallMod DEF Tick, TypeOK
  <2>2. Quiet' = Quiet + 1
    BY <2>1 DEF Quiet
  <2> QED
    BY <2>1, <2>2 DEF Older
<1>6. CASE OledStep \/ UNCHANGED vars
  <2>1. UNCHANGED <<now, request, count, cleanup, asked>>
    BY <1>6 DEF OledStep, Splash, Greet, WaitApp, Connected, Change, Rotate, Turn, vars
  <2> QED
    BY <2>1 DEF Quiet
<1> QED
  BY <1>2, <1>3, <1>4, <1>5, <1>6 DEF Next

LEMMA FreshInvariance == ASSUME ~Rollover PROVE Spec => [](TypeOK /\ Fresh)
<1>1. TypeOK /\ Fresh /\ [Next]_vars => Fresh'
  BY FreshStep
<1> QED
  BY <1>1, FreshInit, TypeCorrect, PTL DEF Spec

(* PollingClientIsCounted, as long as the clock does not wrap: no order of *)
(* requests, checks and failed takes leaves out a client that has asked in *)
(* the last Timeout.                                                       *)
THEOREM PollersAreCounted == ASSUME ~Rollover PROVE Spec => []PollingClientIsCounted
<1>1. TypeOK /\ Fresh => PollingClientIsCounted
  <2> SUFFICES ASSUME TypeOK, Fresh, asked <= Timeout PROVE count = 1
    BY DEF PollingClientIsCounted
  <2>1. Missed(Misses + 1) \in Nat
    BY MissedType, Times
  <2>2. request \in Nat /\ request # 0
    BY <2>1, Times, SilenceType DEF TypeOK, Fresh
  <2> QED
    BY <2>1, <2>2, Times, SilenceType DEF TypeOK, Fresh
<1> QED
  BY <1>1, FreshInvariance, PTL

(* SilentClientIsDropped, as long as the clock does not wrap: a client is  *)
(* counted out after the checks that CleanupTask can have missed.          *)
THEOREM SilentAreDropped == ASSUME ~Rollover PROVE Spec => []SilentClientIsDropped
<1>1. TypeOK /\ Fresh => SilentClientIsDropped
  <2> SUFFICES ASSUME TypeOK, Fresh, count = 1 PROVE asked <= Silence
    BY DEF SilentClientIsDropped
  <2>1. /\ cleanup.slept \in Nat /\ cleanup.slept <= Check + 1
        /\ cleanup.missed \in Nat /\ cleanup.missed <= Misses
        /\ Quiet \in Int
    BY Times DEF TypeOK, Quiet
  <2>2. /\ Missed(cleanup.missed) \in Nat
        /\ Missed(cleanup.missed) + Check + 1 <= Missed(Misses + 1)
        /\ Missed(Misses + 1) \in Nat
    BY <2>1, MissedType, Times
  <2>3. Quiet <= Silence
    BY <2>1, <2>2, Times, SilenceType DEF Fresh
  <2> QED
    BY <2>3 DEF Fresh
<1> QED
  BY <1>1, FreshInvariance, PTL

-----------------------------------------------------------------------------
(* Whoever the banner greets is still counted when it goes: the last       *)
(* request is not older than the screens before the rotation together. A   *)
(* client that asked only once, when the board had just started, has been  *)
(* silent for the longest.                                                 *)
Greeted ==
  /\ oled.state = "BOOT" => /\ now = 1 + oled.since
                            /\ oled.since <= Boot /\ (ran => oled.since < Boot)
  /\ oled.state = "READY" => /\ now = 1 + Boot + oled.since
                             /\ oled.since <= Ready /\ (ran => oled.since < Ready)
  /\ oled.state = "WAIT_APP" /\ count = 1 =>
       Quiet <= Boot + Ready + (IF ran THEN 0 ELSE 1)
  /\ oled.state = "CONNECTED" => /\ request > 0 /\ Quiet <= Boot + Ready + 1 + oled.since
                                 /\ oled.since <= Banner /\ (ran => oled.since < Banner)
  /\ oled.state = "LIVE" => oled.prev = 1

LEMMA GreetedInit == Init => Greeted
  BY Times DEF Init, Greeted

LEMMA GreetedStep ==
  ASSUME ~Rollover, Boot + Ready + Banner < Timeout, TypeOK, Fresh, Greeted, [Next]_vars
  PROVE  Greeted'
<1>0. /\ now \in Nat /\ request \in Nat /\ count \in {0, 1} /\ now < Wrap
      /\ oled.since \in Nat /\ oled.prev \in {0, 1} /\ ran \in BOOLEAN
      /\ Quiet = now - request /\ request <= now
      /\ count = 1 => request > 0
      /\ request > 0 /\ Quiet <= Timeout => count = 1
      /\ Age = Quiet
  BY Times, SmallMod DEF TypeOK, Fresh, Quiet, Age
<1>1. oled \in Oleds
  BY DEF TypeOK, Oleds, States, OledTimes
<1> USE <1>0, Times DEF Greeted
<1>2. CASE Activity
  <2>1. now' = now /\ request' = now /\ oled' = oled /\ ran' = ran /\ Quiet' = 0
    BY <1>2 DEF Activity, Quiet
  <2>2. now > 0
    BY DEF Fresh
  <2> QED
    BY <2>1, <2>2
<1>3. CASE Cleanup \/ CleanupMisses \/ UNCHANGED vars
  <2>1. UNCHANGED <<now, request, oled, ran>> /\ Quiet' = Quiet /\ count' \in {0, count}
    BY <1>3 DEF Cleanup, CleanupMisses, vars, Quiet
  <2> QED
    BY <2>1
<1>4. CASE OledStep
  <2>1. UNCHANGED <<now, request, count>> /\ Quiet' = Quiet /\ ran' = TRUE
    BY <1>4 DEF OledStep, Splash, Greet, WaitApp, Connected, Change, Rotate, Turn, Quiet
  <2>2. ASSUME NEW state \in States, NEW next \in States, Turn(state, next)
        PROVE  /\ oled.state = state /\ oled'.state = next /\ oled'.prev = count
               /\ oled'.since = IF next # state /\ next # "LIVE" THEN 0 ELSE oled.since
    BY <1>1, <2>2 DEF Turn, Oleds
  <2>3. CASE Splash
    <3>1. Turn("BOOT", IF oled.since >= Boot THEN "READY" ELSE "BOOT")
      BY <2>3 DEF Splash
    <3>2. CASE oled.since >= Boot
      BY <2>1, <2>2, <3>1, <3>2 DEF States
    <3>3. CASE ~(oled.since >= Boot)
      BY <2>1, <2>2, <3>1, <3>3 DEF States
    <3> QED
      BY <3>2, <3>3
  <2>4. CASE Greet
    <3>1. Turn("READY", IF oled.since >= Ready THEN "WAIT_APP" ELSE "READY")
      BY <2>4 DEF Greet
    <3>2. CASE oled.since >= Ready
      BY <2>1, <2>2, <3>1, <3>2 DEF States
    <3>3. CASE ~(oled.since >= Ready)
      BY <2>1, <2>2, <3>1, <3>3 DEF States
    <3> QED
      BY <3>2, <3>3
  <2>5. CASE WaitApp
    <3>1. Turn("WAIT_APP", IF count > 0 THEN "CONNECTED" ELSE "WAIT_APP")
      BY <2>5 DEF WaitApp
    <3>2. CASE count > 0
      BY <2>1, <2>2, <3>1, <3>2 DEF States
    <3>3. CASE ~(count > 0)
      BY <2>1, <2>2, <3>1, <3>3 DEF States
    <3> QED
      BY <3>2, <3>3
  <2>6. CASE Connected
    <3>1. oled.state = "CONNECTED" /\ count = 1
      BY <2>6 DEF Connected
    <3>2. CASE oled.since >= Banner
      <4>1. oled'.state = "LIVE" /\ oled'.prev = count
        BY <1>1, <2>6, <3>2 DEF Connected, Oleds
      <4> QED
        BY <2>1, <3>1, <4>1
    <3>3. CASE ~(oled.since >= Banner)
      <4>1. oled'.state = "CONNECTED" /\ oled'.since = oled.since
        BY <1>1, <2>6, <3>3 DEF Connected, Oleds
      <4> QED
        BY <2>1, <3>1, <3>3, <4>1
    <3> QED
      BY <3>2, <3>3
  <2>7. CASE Change
    <3>1. Turn("LIVE", IF Left THEN "WAIT_APP" ELSE "CONNECTED")
      BY <2>7 DEF Change
    <3>2. Left
      BY <2>7, <3>1 DEF Change, Stays, Joined, Turn
    <3>3. Turn("LIVE", "WAIT_APP") /\ count = 0
      BY <3>1, <3>2 DEF Left
    <3> QED
      BY <2>1, <2>2, <3>3 DEF States
  <2>8. CASE Rotate
    <3>1. oled.state = "LIVE" /\ oled.prev = 1 /\ count = 1
      BY <2>8 DEF Rotate, Stays, Left
    <3>2. oled'.state = "LIVE" /\ oled'.prev = count
      BY <1>1, <2>8 DEF Rotate, Oleds
    <3> QED
      BY <2>1, <3>1, <3>2
  <2> QED
    BY <1>4, <2>3, <2>4, <2>5, <2>6, <2>7, <2>8 DEF OledStep
<1>5. CASE Tick
  <2>1. /\ now' = now + 1 /\ request' = request /\ count' = count
        /\ ran' = FALSE /\ (oled.state = "off" \/ ran)
    BY <1>5, SmallMod DEF Tick
  <2>2. Quiet' = Quiet + 1
    BY <2>1 DEF Quiet
  <2>3. /\ oled'.state = oled.state /\ oled'.prev = oled.prev
        /\ oled'.since = Older(oled.since, Boot + Ready + Banner)
    BY <1>1, <1>5 DEF Tick, Oleds
  <2>4. oled.since < Boot + Ready + Banner => oled'.since = oled.since + 1
    BY <2>3 DEF Older
  <2> QED
    BY <2>1, <2>2, <2>3, <2>4
<1> QED
  BY <1>2, <1>3, <1>4, <1>5 DEF Next

(* LiveHasClient, if the timeout of a client is longer than the boot       *)
(* screens and the banner together: nobody is counted out under the banner,*)
(* which is the one place where OledTask would not notice.                 *)
THEOREM RotationHasClient ==
  ASSUME ~Rollover, Boot + Ready + Banner < Timeout
  PROVE  Spec => []LiveHasClient
<1>1. TypeOK /\ Fresh /\ Greeted /\ [Next]_vars => Greeted'
  BY GreetedStep
<1>2. Greeted => LiveHasClient
  BY DEF Greeted, LiveHasClient
<1> QED
  BY <1>1, <1>2, GreetedInit, FreshInvariance, PTL DEF Spec

-----------------------------------------------------------------------------
(* Display: what it shows.                                                 *)

LEMMA RoundIsStep == Round => OledStep
BY DEF Round, OledStep

LEMMA OthersAreSteps == Others => Activity \/ Cleanup \/ CleanupMisses \/ Tick
BY DEF Others

(* Whatever the display does with its transfers, requests, checks and the  *)
(* state machine of OledTask go on as in Presence.                         *)
THEOREM DisplayIsPresence == DisplaySpec => Spec
<1>1. DisplayInit => Init
  BY DEF DisplayInit
<1>2. [DisplayNext]_<<vars, displayVars>> => [Next]_vars
  BY RoundIsStep, OthersAreSteps DEF DisplayNext, Next
<1> QED
  BY <1>1, <1>2, PTL DEF DisplaySpec, Spec

-----------------------------------------------------------------------------
(* A picture that came through whole, with the pointer at the top, is the  *)
(* whole glass.                                                            *)

Top(screens) == whole /\ pointer = 0 => Shows(screens)

Banners == {"connected"}
LiveScreens == {"connected", "page1", "page2", "page3", "page4", "page5", "page6"}

LEMMA LiveScreensType == LiveScreens \subseteq Screens \ {"boot", "wait", "ready"}
BY DEF LiveScreens, Screens

LEMMA PageType == \A page \in 0..(Pages - 1) : LivePage(page) \in LiveScreens
<1>1. Pages \in Nat /\ Pages <= 6
  BY Times, DisplayAssumption DEF DisplayAssumption
<1> SUFFICES ASSUME NEW page \in 0..(Pages - 1) PROVE LivePage(page) \in LiveScreens
  OBVIOUS
<1>2. page \in {0, 1, 2, 3, 4, 5}
  BY <1>1
<1> QED
  BY <1>2 DEF LivePage, LiveScreens

LEMMA ShowEffect ==
  ASSUME NEW screen, pointer \in Halves, Show(screen)
  PROVE  pointer' \in Halves /\ whole' \in BOOLEAN /\ Top({screen})'
<1>1. CASE Flush(screen, 2)
  <2>1. pointer' = pointer /\ whole' = TRUE
    <3>1. pointer' = (pointer + 2) % 2 /\ whole' = TRUE
      BY <1>1 DEF Flush
    <3>2. (0 + 2) % 2 = 0 /\ (1 + 2) % 2 = 1
      OBVIOUS
    <3> QED
      BY <3>1, <3>2 DEF Halves
  <2>2. ASSUME pointer = 0
        PROVE  glass' = [h \in Halves |-> [screen |-> screen, half |-> h]]
    <3>1. \A h \in Halves : (h + pointer) % 2 = h
      BY <2>2 DEF Halves
    <3>2. glass' = [h \in Halves |-> [screen |-> screen, half |-> (h + pointer) % 2]]
      BY <1>1 DEF Flush
    <3> QED
      BY <3>1, <3>2
  <2> QED
    BY <2>1, <2>2 DEF Top, Shows
<1>2. CASE \E sent \in {0, 1} : Flush(screen, sent)
  <2>1. PICK sent \in {0, 1} : Flush(screen, sent)
    BY <1>2
  <2>2. pointer' = (pointer + sent) % 2 /\ whole' = FALSE
    <3>1. pointer' = (pointer + sent) % 2 /\ whole' = (sent = 2)
      BY <2>1 DEF Flush
    <3>2. ~(sent = 2)
      OBVIOUS
    <3> QED
      BY <3>1, <3>2
  <2>3. (pointer + sent) % 2 \in Halves
    BY DEF Halves
  <2> QED
    BY <2>2, <2>3 DEF Top
<1> QED
  BY <1>1, <1>2 DEF Show

(* What the glass shows, for each state of OledTask, and how long ago the  *)
(* count can have changed: a round that sees no client leaves the pages,   *)
(* one that sees a client leaves the invitation.                           *)
Current ==
  /\ pointer \in Halves /\ whole \in BOOLEAN /\ unseen \in 0..2
  /\ oled.state \in {"BOOT", "READY"} => unseen = 0
  /\ oled.state = "WAIT_APP" => /\ count = 1 => unseen = 0
                                /\ unseen = 2 => Top({"wait"})
  /\ oled.state = "CONNECTED" /\ unseen = 2 => Top(Banners)
  /\ oled.state = "LIVE" => /\ count = 0 => unseen = 0
                            /\ Top(LiveScreens)

LEMMA CurrentInit == DisplayInit => Current
<1> SUFFICES ASSUME DisplayInit PROVE Current
  OBVIOUS
<1>1. oled.state \in {"BOOT", "off"}
  BY DEF DisplayInit, Init
<1>2. pointer \in Halves /\ whole = FALSE /\ unseen = 0
  BY DEF DisplayInit
<1>3. unseen \in 0..2
  BY <1>2
<1>4. oled.state \notin {"READY", "WAIT_APP", "CONNECTED", "LIVE"}
  BY <1>1
<1>5. whole \in BOOLEAN
  BY <1>2, Zenon
<1> QED
  BY <1>1, <1>2, <1>3, <1>4, <1>5 DEF Current

(* Under the banner there is a client.                                     *)
LEMMA BannerHasClient ==
  ASSUME TypeOK, Fresh, Greeted, Boot + Ready + Banner < Timeout, oled.state = "CONNECTED"
  PROVE  count = 1
<1>1. request > 0 /\ Quiet <= Boot + Ready + 1 + oled.since /\ oled.since <= Banner
  BY DEF Greeted
<1> QED
  BY <1>1, Times DEF TypeOK, Fresh, Quiet

LEMMA CurrentStep ==
  ASSUME ~Rollover, Boot + Ready + Banner < Timeout, TypeOK, Fresh, Greeted, Current,
         [DisplayNext]_<<vars, displayVars>>
  PROVE  Current'
<1>0. /\ pointer \in Halves /\ whole \in BOOLEAN /\ unseen \in 0..2
      /\ count \in {0, 1} /\ oled \in Oleds
  BY DEF Current, TypeOK, Oleds, States, OledTimes
<1>1. ASSUME Round PROVE Current'
  <2> DEFINE seen == IF unseen = 2 THEN 2 ELSE unseen + 1
  <2>1. count' = count
    BY <1>1 DEF Round, Splash, Greet, WaitApp, Connected, Change, Rotate, Turn
  <2>2. unseen' = IF oled.state \in {"BOOT", "READY"} THEN 0 ELSE seen
    BY <1>1 DEF Round
  <2>3. unseen' \in 0..2
    BY <1>0, <2>2
  <2>4. ASSUME NEW state \in States, NEW next \in States, Turn(state, next)
        PROVE  oled.state = state /\ oled'.state = next
    BY <1>0, <2>4 DEF Turn, Oleds
  <2>5. CASE Splash /\ Show("boot")
    <3>1. oled.state = "BOOT" /\ oled'.state \in {"BOOT", "READY"}
      BY <2>4, <2>5 DEF Splash, States
    <3>2. unseen' = 0
      BY <2>2, <3>1
    <3> QED
      BY <1>0, <2>5, <3>1, <3>2, ShowEffect DEF Current
  <2>6. CASE Greet /\ Show("ready")
    <3>1. oled.state = "READY" /\ oled'.state \in {"READY", "WAIT_APP"}
      BY <2>4, <2>6 DEF Greet, States
    <3>2. unseen' = 0
      BY <2>2, <3>1
    <3> QED
      <4>1. pointer' \in Halves /\ whole' \in BOOLEAN
        BY <1>0, <2>6, ShowEffect
      <4> QED
        BY <3>1, <3>2, <4>1 DEF Current
  <2>7. CASE WaitApp /\ Show("wait")
    <3>1. /\ oled.state = "WAIT_APP"
          /\ oled'.state = IF count > 0 THEN "CONNECTED" ELSE "WAIT_APP"
      BY <2>4, <2>7 DEF WaitApp, States
    <3>2. Top({"wait"})' /\ pointer' \in Halves /\ whole' \in BOOLEAN
      BY <1>0, <2>7, ShowEffect
    <3>3. CASE count = 1
      <4>1. oled'.state = "CONNECTED" /\ unseen' = 1
        BY <2>2, <3>1, <3>3 DEF Current
      <4> QED
        BY <3>2, <4>1 DEF Current
    <3>4. CASE count = 0
      BY <2>1, <2>3, <3>1, <3>2, <3>4 DEF Current
    <3> QED
      BY <1>0, <3>3, <3>4
  <2>8. CASE Connected /\ Show("connected")
    <3>1. oled'.state \in {"CONNECTED", "LIVE"}
      BY <1>0, <2>8 DEF Connected, Oleds
    <3>2. count = 1
      BY <2>8, BannerHasClient DEF Connected
    <3>3. Top(Banners)' /\ Top(LiveScreens)' /\ pointer' \in Halves /\ whole' \in BOOLEAN
      BY <1>0, <2>8, ShowEffect DEF Top, Shows, Banners, LiveScreens
    <3> QED
      BY <2>1, <2>3, <3>1, <3>2, <3>3 DEF Current
  <2>9. CASE Change /\ UNCHANGED <<glass, pointer, whole, faults>>
    <3>1. oled.state = "LIVE" /\ oled.prev = 1
      BY <2>9 DEF Change, Turn, Greeted
    <3>2. count = 0 /\ oled'.state = "WAIT_APP"
      BY <1>0, <2>4, <2>9, <3>1 DEF Change, Stays, Left, Joined, States
    <3>3. unseen' = 1
      BY <2>2, <3>1, <3>2 DEF Current
    <3> QED
      BY <1>0, <2>1, <2>9, <3>2, <3>3 DEF Current
  <2>10. CASE Rotate /\ Show(LivePage(oled'.page))
    <3>1. oled.state = "LIVE" /\ oled.prev = 1 /\ count = 1
      BY <1>0, <2>10 DEF Rotate, Stays, Left, Greeted
    <3>2. oled' \in Oleds
      BY <1>0, <2>10, OledType DEF OledStep
    <3>3. oled'.state = "LIVE" /\ oled'.page \in 0..(Pages - 1)
      BY <1>0, <2>10, <3>2 DEF Rotate, Oleds
    <3>4. LivePage(oled'.page) \in LiveScreens
      BY <3>3, PageType
    <3>5. PICK screen \in LiveScreens : Show(screen)
      BY <2>10, <3>4
    <3>6. pointer' \in Halves /\ whole' \in BOOLEAN /\ Top({screen})'
      BY <1>0, <3>5, ShowEffect
    <3>7. Top(LiveScreens)'
      BY <3>5, <3>6 DEF Top, Shows
    <3> QED
      BY <2>1, <2>3, <3>1, <3>3, <3>6, <3>7 DEF Current
  <2> QED
    BY <1>1, <2>5, <2>6, <2>7, <2>8, <2>9, <2>10 DEF Round
<1>2. CASE Others
  <2>1. /\ UNCHANGED <<glass, pointer, whole>> /\ oled'.state = oled.state
        /\ unseen' = IF count' # count THEN 0 ELSE unseen
    BY <1>0, <1>2 DEF Others, Activity, Cleanup, CleanupMisses, Tick, Oleds
  <2> QED
    BY <1>0, <2>1 DEF Current, Top, Shows
<1>3. CASE UNCHANGED <<vars, displayVars>>
  BY <1>3 DEF vars, displayVars, Current, Top, Shows
<1> QED
  BY <1>1, <1>2, <1>3 DEF DisplayNext

(* GlassIsCurrent, if the timeout of a client is longer than the boot      *)
(* screens and the banner: two rounds after a client came or went the      *)
(* glass says so, for any number of transfers that fail before the last.   *)
THEOREM GlassFollows ==
  ASSUME ~Rollover, Boot + Ready + Banner < Timeout
  PROVE  DisplaySpec => []GlassIsCurrent
<1>1. Spec => [](TypeOK /\ Fresh)
  BY FreshInvariance
<1>2. TypeOK /\ Fresh /\ Greeted /\ [Next]_vars => Greeted'
  BY GreetedStep
<1>3. Spec => []Greeted
  BY <1>1, <1>2, GreetedInit, PTL DEF Spec
<1>4. /\ TypeOK /\ Fresh /\ Greeted /\ Current
      /\ [DisplayNext]_<<vars, displayVars>>
      => Current'
  BY CurrentStep
<1>5. TypeOK /\ Fresh /\ Greeted /\ Current => GlassIsCurrent
  <2> SUFFICES ASSUME TypeOK, Fresh, Greeted, Current, whole, pointer = 0, unseen = 2,
                      oled.state \in {"WAIT_APP", "CONNECTED", "LIVE"}
               PROVE  IF count = 0 THEN Shows({"wait"})
                                   ELSE Shows(Screens \ {"boot", "wait", "ready"})
    BY DEF GlassIsCurrent
  <2>1. count \in {0, 1}
    BY DEF TypeOK
  <2>2. CASE oled.state = "WAIT_APP"
    BY <2>1, <2>2 DEF Current, Top
  <2>3. CASE oled.state = "CONNECTED"
    <3>1. count = 1
      BY <2>3, BannerHasClient
    <3> QED
      BY <2>3, <3>1 DEF Current, Top, Shows, Banners, Screens
  <2>4. CASE oled.state = "LIVE"
    <3>1. count = 1
      BY <2>1, <2>4 DEF Current
    <3> QED
      BY <2>4, <3>1, LiveScreensType DEF Current, Top, Shows
  <2> QED
    BY <2>2, <2>3, <2>4
<1> QED
  BY <1>1, <1>3, <1>4, <1>5, CurrentInit, DisplayIsPresence, PTL DEF DisplaySpec

-----------------------------------------------------------------------------
(* Every text is whole.                                                    *)

(* A text in the middle of a row, or from a column on, that is drawn whole *)
(* if it has no more characters than there is room for.                    *)
LEMMA MiddleFits ==
  ASSUME NEW row \in Nat, NEW least \in Nat, NEW most \in Nat, most <= 21
  PROVE  \A n \in least..most : Drawn(Middle(row, least, most), n) = n
<1> SUFFICES ASSUME NEW n \in least..most PROVE Drawn(Middle(row, least, most), n) = n
  OBVIOUS
<1>1. n \in Nat /\ n <= 21
  OBVIOUS
<1>2. From(Middle(row, least, most), n) = (129 - 6 * n) \div 2
  BY <1>1 DEF From, Middle, Text, Width, Cell
<1>3. (128 - (129 - 6 * n) \div 2) \div 6 >= n
  BY <1>1
<1> QED
  BY <1>1, <1>2, <1>3 DEF Drawn, Width, Cell

LEMMA ColumnFits ==
  ASSUME NEW row \in Nat, NEW column \in Nat, NEW least \in Nat, NEW most \in Nat,
         column + 6 * most <= 128
  PROVE  \A n \in least..most : Drawn(Text(row, column, least, most), n) = n
<1> SUFFICES ASSUME NEW n \in least..most PROVE Drawn(Text(row, column, least, most), n) = n
  OBVIOUS
<1>1. n \in Nat /\ column + 6 * n <= 128
  OBVIOUS
<1>2. From(Text(row, column, least, most), n) = column
  BY DEF From, Text
<1>3. (128 - column) \div 6 >= n
  BY <1>1
<1> QED
  BY <1>1, <1>2, <1>3 DEF Drawn, Width, Cell

Whole(texts) == \A t \in texts : \A n \in t.least..t.most : Drawn(t, n) = n

Apart(texts) ==
  \A t, u \in texts :
    t.row = u.row /\ t # u /\ From(t, t.most) <= From(u, u.most) => To(t, t.most) <= From(u, u.most)

(* The ten screens, one by one.                                            *)
LEMMA ScreensAreWhole ==
  \A screen \in Screens : Whole(TextsOf(screen)) /\ Apart(TextsOf(screen))
<1>1. Whole(BootTexts) /\ Apart(BootTexts)
  <2>1. Whole(BootTexts)
    BY MiddleFits, ColumnFits DEF Whole, BootTexts, Title, Footer, Middle, Text
  <2>2. Apart(BootTexts)
    BY DEF Apart, BootTexts, Title, Footer, Middle, Text, From, To, Width, Cell
  <2> QED  BY <2>1, <2>2
<1>2. Whole(ReadyTexts) /\ Apart(ReadyTexts)
  <2>1. Whole(ReadyTexts)
    BY MiddleFits, ColumnFits DEF Whole, ReadyTexts, Title, Footer, Middle, Text
  <2>2. Apart(ReadyTexts)
    BY DEF Apart, ReadyTexts, Title, Footer, Middle, Text, From, To, Width, Cell
  <2> QED  BY <2>1, <2>2
<1>3. Whole(WaitTexts) /\ Apart(WaitTexts)
  <2>1. Whole(WaitTexts)
    BY MiddleFits, ColumnFits DEF Whole, WaitTexts, Title, Footer, Middle, Text
  <2>2. Apart(WaitTexts)
    BY DEF Apart, WaitTexts, Title, Footer, Middle, Text, From, To, Width, Cell
  <2> QED  BY <2>1, <2>2
<1>4. Whole(ConnectedTexts) /\ Apart(ConnectedTexts)
  <2>1. Whole(ConnectedTexts)
    BY MiddleFits, ColumnFits DEF Whole, ConnectedTexts, Title, Footer, Middle, Text
  <2>2. Apart(ConnectedTexts)
    BY DEF Apart, ConnectedTexts, Title, Footer, Middle, Text, From, To, Width, Cell
  <2> QED  BY <2>1, <2>2
<1>5. Whole(TemperatureTexts) /\ Apart(TemperatureTexts)
  <2>1. Whole(TemperatureTexts)
    BY MiddleFits, ColumnFits DEF Whole, TemperatureTexts, Title, Footer, Middle, Text
  <2>2. Apart(TemperatureTexts)
    BY DEF Apart, TemperatureTexts, Title, Footer, Middle, Text, From, To, Width, Cell
  <2> QED  BY <2>1, <2>2
<1>6. Whole(GasTexts) /\ Apart(GasTexts)
  <2>1. Whole(GasTexts)
    BY MiddleFits, ColumnFits DEF Whole, GasTexts, Title, Footer, Middle, Text
  <2>2. Apart(GasTexts)
    BY DEF Apart, GasTexts, Title, Footer, Middle, Text, From, To, Width, Cell
  <2> QED  BY <2>1, <2>2
<1>7. Whole(NoiseTexts) /\ Apart(NoiseTexts)
  <2>1. Whole(NoiseTexts)
    BY MiddleFits, ColumnFits DEF Whole, NoiseTexts, Title, Footer, Middle, Text
  <2>2. Apart(NoiseTexts)
    BY DEF Apart, NoiseTexts, Title, Footer, Middle, Text, From, To, Width, Cell
  <2> QED  BY <2>1, <2>2
<1>8. Whole(SecurityTexts) /\ Apart(SecurityTexts)
  <2>1. Whole(SecurityTexts)
    BY MiddleFits, ColumnFits DEF Whole, SecurityTexts, Title, Footer, Middle, Text
  <2>2. Apart(SecurityTexts)
    BY DEF Apart, SecurityTexts, Title, Footer, Middle, Text, From, To, Width, Cell
  <2> QED  BY <2>1, <2>2
<1>9. Whole(MonitoringTexts) /\ Apart(MonitoringTexts)
  <2>1. Whole(MonitoringTexts)
    BY MiddleFits, ColumnFits DEF Whole, MonitoringTexts, Title, Footer, Middle, Text
  <2>2. Apart(MonitoringTexts)
    BY DEF Apart, MonitoringTexts, Title, Footer, Middle, Text, From, To, Width, Cell
  <2> QED  BY <2>1, <2>2
<1>10. Whole(SystemTexts) /\ Apart(SystemTexts)
  <2>1. Whole(SystemTexts)
    BY MiddleFits, ColumnFits DEF Whole, SystemTexts, Title, Footer, Middle, Text
  <2>2. Apart(SystemTexts)
    BY DEF Apart, SystemTexts, Title, Footer, Middle, Text, From, To, Width, Cell
  <2> QED  BY <2>1, <2>2
<1> QED
  BY <1>1, <1>2, <1>3, <1>4, <1>5, <1>6, <1>7, <1>8, <1>9, <1>10 DEF Screens, TextsOf

(* TextsAreWhole: whatever screen is on the glass, and whatever the values *)
(* in its texts, each text ends in front of the edge and of the next one.  *)
THEOREM TextsFit == DisplaySpec => []TextsAreWhole
<1>1. TextsAreWhole
  BY ScreensAreWhole DEF TextsAreWhole, Whole, Apart
<1> QED  BY <1>1, PTL

=============================================================================
