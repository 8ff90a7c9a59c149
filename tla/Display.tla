------------------------------ MODULE Display -------------------------------
(***************************************************************************)
(* What OledTask shows.  In every round of its state machine (Presence) it *)
(* draws one screen into the frame buffer and sends the whole buffer to    *)
(* the SSD1306, except in the round in which it notices that a client came *)
(* or went.                                                                *)
(*                                                                         *)
(* The controller writes what it receives from a pointer on, which goes    *)
(* around: ssd1306_init sets it, nothing sets it again.  A transfer can    *)
(* end early (200 ms, or no acknowledgement), and OledTask does not look.  *)
(***************************************************************************)
EXTENDS Presence, Sequences

CONSTANT Faults   (* how many transfers can fail                             *)

ASSUME DisplayAssumption == Pages <= 6 /\ Faults \in Nat

-----------------------------------------------------------------------------
(* Drawing.  A text is so many characters of Cell columns in one of the 8  *)
(* rows; what it says is left out.                                         *)

Width == 128

(* Mutant: a font of 6 columns and a gap.                                  *)
CellOfSix == 7
Cell == 6

(* A text of least to most characters; column -1 stands for the middle.    *)
Text(row, column, least, most) ==
  [row |-> row, column |-> column, least |-> least, most |-> most]
Middle(row, least, most) == Text(row, -1, least, most)

(* oled_draw_str_centred, and where the text it draws ends.                *)
From(text, length) ==
  IF text.column >= 0 THEN text.column
  ELSE LET column == (Width - (length * Cell - 1)) \div 2
       IN  IF column < 0 THEN 0 ELSE column
To(text, length) == From(text, length) + length * Cell

(* oled_draw_str stops in front of the first character that does not fit.  *)
Drawn(text, length) ==
  LET room == (Width - From(text, length)) \div Cell
  IN  IF length <= room THEN length ELSE room

(* The texts of the screens; the lines are in rows of their own.           *)
Title(length) == Middle(0, length, length)
Footer        == Text(7, 92, 3, 3)

BootTexts      == {Middle(1, 15, 15), Middle(2, 13, 13), Middle(5, 13, 13), Middle(7, 15, 15)}
ReadyTexts     == {Middle(2, 18, 18), Middle(4, 16, 16), Middle(5, 16, 16)}
WaitTexts      == {Middle(1, 11, 11), Middle(2, 13, 13), Middle(4, 16, 16), Middle(5, 14, 14),
                   Middle(7, 12, 12)}
ConnectedTexts == {Middle(3, 6, 6), Middle(4, 9, 9)}

TemperatureTexts == {Title(11), Middle(3, 6, 18), Middle(5, 6, 19), Text(7, 2, 8, 8), Footer}
GasTexts         == {Title(16), Middle(3, 8, 12), Middle(5, 5, 18), Footer}
NoiseTexts       == {Title(11), Middle(3, 8, 12), Middle(5, 5, 17), Footer}
SecurityTexts    == {Title(8), Text(2, 4, 13, 13), Text(2, 82, 4, 4), Text(4, 4, 5, 5),
                     Text(4, 40, 5, 6), Middle(6, 6, 18), Footer}
MonitoringTexts  == {Title(10), Text(2, 4, 10, 10), Text(2, 70, 4, 7), Text(4, 4, 9, 9),
                     Text(4, 60, 3, 5), Text(5, 4, 9, 9), Text(5, 60, 3, 5), Footer}
SystemTexts      == {Title(10), Text(2, 4, 6, 6), Text(2, 46, 6, 9), Text(4, 4, 3, 3),
                     Text(4, 22, 8, 13), Text(5, 4, 5, 5), Text(5, 40, 2, 11),
                     Text(6, 4, 11, 13), Footer}

Screens == {"boot", "ready", "wait", "connected", "page1", "page2", "page3", "page4",
            "page5", "page6"}

LivePage(page) == <<"page1", "page2", "page3", "page4", "page5", "page6">>[page + 1]

TextsOf(screen) ==
  CASE screen = "boot"      -> BootTexts
    [] screen = "ready"     -> ReadyTexts
    [] screen = "wait"      -> WaitTexts
    [] screen = "connected" -> ConnectedTexts
    [] screen = "page1"     -> TemperatureTexts
    [] screen = "page2"     -> GasTexts
    [] screen = "page3"     -> NoiseTexts
    [] screen = "page4"     -> SecurityTexts
    [] screen = "page5"     -> MonitoringTexts
    [] screen = "page6"     -> SystemTexts

-----------------------------------------------------------------------------
VARIABLES
  glass,    (* the two halves of the display, and what each half shows       *)
  pointer,  (* the half at which the controller goes on writing              *)
  whole,    (* history: the last transfer came through                       *)
  faults,   (* how many transfers have failed                                *)
  unseen    (* history: turns of OledTask since the count last changed       *)

displayVars == <<glass, pointer, whole, faults, unseen>>

Halves == {0, 1}

(* ssd1306_flush, of which the first sent halves arrive.                   *)
Flush(screen, sent) ==
  /\ glass' = [h \in Halves |->
                 IF sent = 2 \/ (sent = 1 /\ h = pointer)
                 THEN [screen |-> screen, half |-> (h + pointer) % 2]
                 ELSE glass[h]]
  /\ pointer' = (pointer + sent) % 2
  /\ whole' = (sent = 2)

Show(screen) ==
  \/ Flush(screen, 2) /\ UNCHANGED faults
  \/ /\ faults < Faults /\ faults' = faults + 1
     /\ \E sent \in {0, 1} : Flush(screen, sent)

(* A round of OledTask with what it draws.                                 *)
Round ==
  /\ \/ Splash    /\ Show("boot")
     \/ Greet     /\ Show("ready")
     \/ WaitApp   /\ Show("wait")
     \/ Connected /\ Show("connected")
     \/ Change    /\ UNCHANGED <<glass, pointer, whole, faults>>
     \/ Rotate    /\ Show(LivePage(oled'.page))
  /\ unseen' = IF oled.state \in {"BOOT", "READY"} THEN 0
               ELSE IF unseen = 2 THEN 2 ELSE unseen + 1

(* The rest of the system leaves the display alone.                        *)
Others ==
  /\ Activity \/ Cleanup \/ CleanupMisses \/ Tick
  /\ unseen' = IF count' # count THEN 0 ELSE unseen
  /\ UNCHANGED <<glass, pointer, whole, faults>>

(* The glass is dark.  The commands that set the pointer are not checked:  *)
(* when they fail after a restart it is where the last run left it.        *)
DisplayInit ==
  /\ Init
  /\ glass = [h \in Halves |-> [screen |-> "dark", half |-> h]]
  /\ pointer \in Halves /\ faults = pointer /\ whole = FALSE /\ unseen = 0

DisplayNext == Round \/ Others

DisplaySpec == DisplayInit /\ [][DisplayNext]_<<vars, displayVars>>

-----------------------------------------------------------------------------
(* Properties                                                              *)

(* What the glass shows from its top.                                      *)
Shows(screens) == \E s \in screens : glass = [h \in Halves |-> [screen |-> s, half |-> h]]

(* Two rounds after a client came or went, the glass says so, although     *)
(* the round that notices it draws nothing: no reading and no banner is    *)
(* left on it for a client that is gone, and no invitation for one that is *)
(* there.  This needs a last transfer that came through and a pointer at   *)
(* the top: one transfer that ends early leaves every later picture        *)
(* shifted, until another one does.                                        *)
GlassIsCurrent ==
  whole /\ pointer = 0 /\ unseen = 2 /\ oled.state \in {"WAIT_APP", "CONNECTED", "LIVE"} =>
    IF count = 0 THEN Shows({"wait"})
                 ELSE Shows(Screens \ {"boot", "wait", "ready"})

(* Every text of the screen that is drawn is shown to its last character   *)
(* and no text is written over another, whatever the values in it are:     *)
(* oled_draw_str cuts off without a word what does not fit.                *)
TextsAreWhole ==
  \A h \in Halves : glass[h].screen \in Screens =>
    LET texts == TextsOf(glass[h].screen)
    IN  /\ \A t \in texts : \A n \in t.least..t.most : Drawn(t, n) = n
        /\ \A t, u \in texts :
             t.row = u.row /\ t # u /\ From(t, t.most) <= From(u, u.most) =>
               To(t, t.most) <= From(u, u.most)

=============================================================================
