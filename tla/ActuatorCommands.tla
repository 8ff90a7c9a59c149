-------------------------- MODULE ActuatorCommands --------------------------
(***************************************************************************)
(* The outputs of the system and the commands ActuatorTask executes: the   *)
(* tables that Actuator, with every step of the code, and Executor, with   *)
(* what it promises, have in common.                                       *)
(***************************************************************************)
EXTENDS Integers

Outputs == {"buzzer", "fan", "led_alarm", "led_normal"}

(* The level that switches an output on: the fan relay is active-low.      *)
Active(o) == IF o = "fan" THEN 0 ELSE 1

(* The levels when the outputs of the set S are switched on.               *)
Levels(S) == [o \in Outputs |-> IF o \in S THEN Active(o) ELSE 1 - Active(o)]

Commands == {"BUZZER_ON", "BUZZER_OFF", "FAN_ON", "FAN_OFF", "LED_ALARM_ON",
             "LED_ALARM_OFF", "LED_NORMAL_ON", "LED_NORMAL_OFF", "ALL_CLEAR"}

(* What one case of the switch writes: the outputs it switches on, those   *)
(* it switches off, and whether it ends a manual override of the fan.      *)
Drive(on, off, release) == [on |-> on, off |-> off, release |-> release]
Drives == [on : SUBSET Outputs, off : SUBSET Outputs, release : BOOLEAN]

DriveOf(cmd) ==
  CASE cmd = "BUZZER_ON"      -> Drive({"buzzer"}, {}, FALSE)
    [] cmd = "BUZZER_OFF"     -> Drive({}, {"buzzer"}, FALSE)
    [] cmd = "FAN_ON"         -> Drive({"fan"}, {}, FALSE)
    [] cmd = "FAN_OFF"        -> Drive({}, {"fan"}, TRUE)
    [] cmd = "LED_ALARM_ON"   -> Drive({"led_alarm"}, {}, FALSE)
    [] cmd = "LED_ALARM_OFF"  -> Drive({}, {"led_alarm"}, FALSE)
    [] cmd = "LED_NORMAL_ON"  -> Drive({"led_normal"}, {}, FALSE)
    [] cmd = "LED_NORMAL_OFF" -> Drive({}, {"led_normal"}, FALSE)
    [] cmd = "ALL_CLEAR"      -> Drive({"led_normal"},
                                       Outputs \ {"led_normal"}, TRUE)

(* The end of the pulse of a timed command undoes what it switched on.     *)
Undo(cmd) == Drive({}, DriveOf(cmd).on, FALSE)

(* The levels of the pins after a drive.                                   *)
Applied(drive, pins) ==
  [o \in Outputs |-> IF o \in drive.on THEN Active(o)
                     ELSE IF o \in drive.off THEN 1 - Active(o) ELSE pins[o]]

(* The lengths of the pulses in milliseconds; a command without one has 0. *)
Durations == {500, 2000, 3000, 5000, 10000}

Messages == [cmd : Commands, ms : Durations \cup {0}]
Msg(cmd, ms) == [cmd |-> cmd, ms |-> ms]

=============================================================================
