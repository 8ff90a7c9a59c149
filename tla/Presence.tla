------------------------------ MODULE Presence ------------------------------
(***************************************************************************)
(* How the display learns that a dashboard is connected.                   *)
(*                                                                         *)
(* Every GET /data of the web server notes its time and counts the client  *)
(* in; CleanupTask counts it out when no request came for Timeout.  The    *)
(* count is 0 or 1.  OledTask looks at it every 100 ms and walks through   *)
(* its screens, comparing it with what it saw the last time.               *)
(*                                                                         *)
(* Time is counted in seconds, on a clock of Wrap seconds: the 32 bits of  *)
(* a time stamp in milliseconds.                                           *)
(***************************************************************************)
EXTENDS Integers

CONSTANTS
  Timeout,   (* CLIENT_TIMEOUT_MS                                            *)
  Check,     (* the period of CleanupTask                                    *)
  Misses,    (* how often in a row its timed take may fail                   *)
  Boot, Ready, Banner, Page,  (* how long OledTask shows a screen            *)
  Pages,     (* OLED_LIVE_PAGES                                              *)
  Wrap,      (* the clock counts 0 .. Wrap - 1                               *)
  Rollover   (* whether the runs go on when the clock starts over            *)

Durations == {Timeout, Check, Boot, Ready, Banner, Page, Pages}

ASSUME PresenceAssumption ==
  /\ Durations \subseteq Nat \ {0} /\ Misses \in Nat
  /\ Wrap \in Nat /\ \A d \in Durations : d < Wrap
  /\ Rollover \in BOOLEAN

VARIABLES
  now,      (* xTaskGetTickCount, in seconds                                 *)
  request,  (* s_last_request_ms, 0 when there was none                      *)
  count,    (* g_ws_client_count                                             *)
  cleanup,  (* CleanupTask: [slept, missed]                                  *)
  oled,     (* OledTask: [state, since, prev, page, shown], the times ages   *)
  ran,      (* OledTask has had its turn in this second                      *)
  asked     (* history: how long ago the last request was, on no clock       *)

vars == <<now, request, count, cleanup, oled, ran, asked>>

Age == (now - request) % Wrap

-----------------------------------------------------------------------------
(* The web server                                                          *)

(* Mutant: a client is counted in by the very first request only.          *)
ActivityOnce ==
  /\ count' = IF request = 0 THEN 1 ELSE count
  /\ request' = now /\ asked' = 0
  /\ UNCHANGED <<now, cleanup, oled, ran>>

(* Mutant: clients are counted up.                                         *)
ActivityAdds ==
  /\ count' = IF request = 0 \/ Age > Timeout THEN count + 1 ELSE count
  /\ request' = now /\ asked' = 0
  /\ UNCHANGED <<now, cleanup, oled, ran>>

(* client_activity_update; when it does not get xClientMutex in time it    *)
(* does nothing.                                                           *)
Activity ==
  /\ count' = IF request = 0 \/ Age > Timeout THEN 1 ELSE count
  /\ request' = now /\ asked' = 0
  /\ UNCHANGED <<now, cleanup, oled, ran>>

(* Mutant: the time stamp is reset and the count is not.                   *)
CleanupForgets ==
  /\ cleanup.slept >= Check
  /\ cleanup' = [slept |-> 0, missed |-> 0]
  /\ request' = IF request > 0 /\ Age > Timeout THEN 0 ELSE request
  /\ UNCHANGED <<now, count, oled, ran, asked>>

(* Mutant: the age is compared with the period of the check.               *)
CleanupEager ==
  /\ cleanup.slept >= Check
  /\ cleanup' = [slept |-> 0, missed |-> 0]
  /\ count' = IF request > 0 /\ Age > Check THEN 0 ELSE count
  /\ UNCHANGED <<now, request, oled, ran, asked>>

Cleanup ==
  /\ cleanup.slept >= Check
  /\ cleanup' = [slept |-> 0, missed |-> 0]
  /\ count' = IF request > 0 /\ Age > Timeout THEN 0 ELSE count
  /\ UNCHANGED <<now, request, oled, ran, asked>>

(* It does not get xClientMutex in time.                                   *)
CleanupMisses ==
  /\ cleanup.slept >= Check /\ cleanup.missed < Misses
  /\ cleanup' = [slept |-> 0, missed |-> cleanup.missed + 1]
  /\ UNCHANGED <<now, request, count, oled, ran, asked>>

-----------------------------------------------------------------------------
(* OledTask: one round of its loop, in each of its states.                 *)

(* In state, the next one is next; phase_start is set anew, but for LIVE.  *)
Turn(state, next) ==
  /\ oled.state = state
  /\ oled' = [oled EXCEPT !.state = next, !.prev = count,
                          !.since = IF next # state /\ next # "LIVE" THEN 0 ELSE @]
  /\ ran' = TRUE
  /\ UNCHANGED <<now, request, count, cleanup, asked>>

Splash  == Turn("BOOT", IF oled.since >= Boot THEN "READY" ELSE "BOOT")
Greet   == Turn("READY", IF oled.since >= Ready THEN "WAIT_APP" ELSE "READY")
WaitApp == Turn("WAIT_APP", IF count > 0 THEN "CONNECTED" ELSE "WAIT_APP")

(* The banner; the pages start over when it is gone.                       *)
Connected ==
  /\ oled.state = "CONNECTED"
  /\ oled' = IF oled.since >= Banner
             THEN [oled EXCEPT !.state = "LIVE", !.prev = count,
                               !.page = 0, !.shown = 0]
             ELSE [oled EXCEPT !.prev = count]
  /\ ran' = TRUE
  /\ UNCHANGED <<now, request, count, cleanup, asked>>

(* The count went down, or up, since the last round.  It is never seen to  *)
(* go up here: with 0 and 1 only, it would have had to go down before.     *)
(* Mutant: only a second client that leaves is noticed.                    *)
LeftOfTwo == count = 0 /\ oled.prev > 1
Left   == count = 0 /\ oled.prev > 0
Joined == count > oled.prev
Stays  == ~Left /\ ~Joined

Change == ~Stays /\ Turn("LIVE", IF Left THEN "WAIT_APP" ELSE "CONNECTED")

Rotate ==
  /\ oled.state = "LIVE" /\ Stays
  /\ oled' = IF oled.shown >= Page
             THEN [oled EXCEPT !.prev = count, !.page = (@ + 1) % Pages, !.shown = 0]
             ELSE [oled EXCEPT !.prev = count]
  /\ ran' = TRUE
  /\ UNCHANGED <<now, request, count, cleanup, asked>>

OledStep ==
  Splash \/ Greet \/ WaitApp \/ Connected \/ Change \/ Rotate

-----------------------------------------------------------------------------
Older(age, most) == IF age = most THEN age ELSE age + 1

(* The longest a client that stopped asking is counted in.                 *)
Silence == Timeout + (Misses + 1) * (Check + 1)

(* A second passes: OledTask has had its turn in it, CleanupTask is not    *)
(* late by more than one.                                                  *)
Tick ==
  /\ oled.state = "off" \/ ran
  /\ cleanup.slept <= Check
  /\ Rollover \/ now < Wrap - 1
  /\ now' = (now + 1) % Wrap
  /\ cleanup' = [cleanup EXCEPT !.slept = @ + 1]
  /\ oled' = [oled EXCEPT !.since = Older(@, Boot + Ready + Banner),
                          !.shown = Older(@, Page)]
  /\ ran' = FALSE
  /\ asked' = Older(asked, Silence + 1)
  /\ UNCHANGED <<request, count>>

(* OledTask ends at once when there is no display.                         *)
Init ==
  /\ now = 1 /\ request = 0 /\ count = 0
  /\ cleanup = [slept |-> 0, missed |-> 0]
  /\ \E state \in {"BOOT", "off"} :
       oled = [state |-> state, since |-> 0, prev |-> 0, page |-> 0, shown |-> 0]
  /\ ran = FALSE /\ asked = Silence + 1

Next == Activity \/ Cleanup \/ CleanupMisses \/ OledStep \/ Tick

Spec == Init /\ [][Next]_vars

-----------------------------------------------------------------------------
(* Properties                                                              *)

(* Type invariant.                                                         *)
TypeOK ==
  /\ now \in 0..(Wrap - 1) /\ request \in 0..(Wrap - 1) /\ count \in {0, 1}
  /\ cleanup \in [slept : 0..(Check + 1), missed : 0..Misses]
  /\ oled \in [state : {"BOOT", "READY", "WAIT_APP", "CONNECTED", "LIVE", "off"},
               since : 0..(Boot + Ready + Banner), prev : {0, 1},
               page : 0..(Pages - 1), shown : 0..Page]
  /\ ran \in BOOLEAN /\ asked \in 0..(Silence + 1)

(* A client that stops asking is counted out: a second after the checks    *)
(* that can have missed it at the latest, however the requests, the checks *)
(* and the failed takes interleave.                                        *)
SilentClientIsDropped == count = 1 => asked <= Silence

(* isms_web_server.c:42: "0 = no client active, 1 = client actively        *)
(* polling /data endpoint".  Whoever asked in the last Timeout is counted. *)
PollingClientIsCounted == asked <= Timeout => count = 1

(* The pages are shown to somebody: OledTask is never in its rotation with *)
(* no client and nothing left to notice, although it only looks for the    *)
(* step from 1 to 0 and only there.  It does not see a client that leaves  *)
(* during the banner; none can, as Timeout is longer than the screens      *)
(* before the rotation, the banner among them, take together.              *)
LiveHasClient ==
  oled.state = "LIVE" => count = 1 \/ oled.prev = 1

=============================================================================
