-------------------------------- MODULE MCTouch --------------------------------
(* Touch sensors: instance for TLC. *)
EXTENDS Touch

Cmd(n) == [name |-> n, kind |-> "set", value |-> 0]
Sleep == [name |-> "sleep", kind |-> "sleep", value |-> 0]
Loop(v) == [name |-> "loop", kind |-> "loop", value |-> v]

\* Two chips with a leaf each.
TwoChips == [s \in 0..1 |-> 1]

\* A list that pauses, and a loop that pauses.
MCLists == {<<Cmd("red"), Sleep>>, <<Loop(2), Sleep>>}
=============================================================================
