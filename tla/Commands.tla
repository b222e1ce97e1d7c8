------------------------------- MODULE Commands -------------------------------
(***************************************************************************)
(* handle_commands (commands.c), shared by the alarm thread and the thread *)
(* of the touch sensors: what executing a command does to the loop of its  *)
(* caller, and whether it suspends it (SLEEP_CMD, and the music of the     *)
(* server).  The other commands run to their end; setValue is left out.    *)
(***************************************************************************)
EXTENDS Integers, Sequences

\* A command: its name, and what executing it does.
Command == [name : STRING, kind : {"set", "sleep", "loop"}, value : Nat]
NoCommand == [name |-> "none", kind |-> "set", value |-> 0]

Single == [state |-> "SINGLE", count |-> 0, first_turn |-> FALSE]
Loops == [state : {"SINGLE", "LOOP"}, count : Nat \cup {-1}, first_turn : BOOLEAN]

\* A count that has passed 0 does not come back to it (but after 2^32 turns).
Countdown(n) == IF n > 0 THEN n - 1 ELSE -1

\* Mutants of LoopAfter: the first turn is not counted, and the loop never ends.
LoopOnceMore(loop, c) ==
  IF c.kind # "loop" THEN loop
  ELSE IF loop.state = "SINGLE"
       THEN [count |-> c.value, first_turn |-> TRUE, state |-> "LOOP"]
       ELSE [count |-> Countdown(loop.count), first_turn |-> FALSE,
             state |-> IF Countdown(loop.count) = 0 THEN "SINGLE" ELSE "LOOP"]

LoopForever(loop, c) ==
  IF c.kind # "loop" THEN loop
  ELSE IF loop.state = "SINGLE"
       THEN [count |-> Countdown(c.value), first_turn |-> TRUE, state |-> "LOOP"]
       ELSE [count |-> Countdown(loop.count), first_turn |-> FALSE, state |-> "LOOP"]

\* LOOP_CMD: the first one starts the loop, the next ones count its turns.
LoopAfter(loop, c) ==
  IF c.kind # "loop" THEN loop
  ELSE IF loop.state = "SINGLE"
       THEN [count |-> Countdown(c.value), first_turn |-> TRUE, state |-> "LOOP"]
       ELSE [count |-> Countdown(loop.count), first_turn |-> FALSE,
             state |-> IF Countdown(loop.count) = 0 THEN "SINGLE" ELSE "LOOP"]

=============================================================================
