------------------------------ MODULE Executor ------------------------------
(***************************************************************************)
(* What ActuatorTask promises to the tasks that post commands, without the *)
(* mutex, the fields of g_actuator and the other tasks.                    *)
(*                                                                         *)
(* Commands that find room are executed one at a time and in the order     *)
(* they were posted, each exactly once.  The outputs move at four points   *)
(* only, all at once: when a command starts, when its pulse ends, when the *)
(* watchdog releases the fan, and when the chip restarts.  Actuator is     *)
(* shown to implement this (Actuator!Implements).                          *)
(***************************************************************************)
EXTENDS ActuatorCommands, Sequences

CONSTANT QueueSize   (* ACTUATOR_QUEUE_SIZE                                  *)

VARIABLES
  pending,  (* the commands that wait, oldest first                          *)
  pins,     (* the levels of the outputs                                     *)
  doing     (* [phase, msg]: the command in execution, if any                *)

vars == <<pending, pins, doing>>

Idle       == [phase |-> "idle",    msg |-> Msg("ALL_CLEAR", 0)]
Fetched(m) == [phase |-> "fetched", msg |-> m]
Pulse(m)   == [phase |-> "pulse",   msg |-> m]

Init ==
  /\ pending = <<>>
  /\ pins = Levels({"led_normal"})
  /\ doing = Idle

(* A command that finds no room is lost: that is no step at all.           *)
Submit(m) ==
  /\ Len(pending) < QueueSize
  /\ pending' = Append(pending, m)
  /\ UNCHANGED <<pins, doing>>

Fetch ==
  /\ doing = Idle /\ pending # <<>>
  /\ pending' = Tail(pending) /\ doing' = Fetched(Head(pending))
  /\ UNCHANGED pins

(* The whole drive of the command; one without a duration is then done.    *)
Start ==
  /\ doing.phase = "fetched"
  /\ pins' = Applied(DriveOf(doing.msg.cmd), pins)
  /\ doing' = IF doing.msg.ms > 0 THEN Pulse(doing.msg) ELSE Idle
  /\ UNCHANGED pending

(* The pulse is over and undoes what the command switched on.              *)
End ==
  /\ doing.phase = "pulse"
  /\ pins' = Applied(Undo(doing.msg.cmd), pins)
  /\ doing' = Idle
  /\ UNCHANGED pending

(* Only a fan may be left running at the end of its pulse.                 *)
Keep ==
  /\ doing.phase = "pulse" /\ doing.msg.cmd = "FAN_ON"
  /\ doing' = Idle
  /\ UNCHANGED <<pending, pins>>

(* The watchdog stops the fan, never within the execution of a command.    *)
Release ==
  /\ doing = Idle
  /\ pins' = Applied(DriveOf("FAN_OFF"), pins)
  /\ UNCHANGED <<pending, doing>>

Reset ==
  /\ pending' = <<>>
  /\ pins' = Levels({"led_normal"})
  /\ doing' = Idle

Next ==
  \/ \E m \in Messages : Submit(m)
  \/ Fetch \/ Start \/ End \/ Keep \/ Release \/ Reset

Spec == Init /\ [][Next]_vars

=============================================================================
