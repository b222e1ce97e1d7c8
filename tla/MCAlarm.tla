-------------------------------- MODULE MCAlarm --------------------------------
(* Alarm clock: instance for TLC. *)
EXTENDS Alarm

Cmd(n) == [name |-> n, kind |-> "set", value |-> 0]
Sleep == [name |-> "sleep", kind |-> "sleep", value |-> 0]
Loop(v) == [name |-> "loop", kind |-> "loop", value |-> v]

\* A light, a sequence that pauses, and the blinking of views.py: a loop that pauses.
MCBatches ==
  {<<Cmd("red")>>, <<Cmd("red"), Sleep>>, <<Cmd("off"), Loop(3), Cmd("red"), Sleep>>}
=============================================================================
