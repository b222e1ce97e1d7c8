--------------------------------- MODULE Alarm ---------------------------------
(***************************************************************************)
(* The alarm clock (alarm.c): set_alarm, called by websocket_ext, fills    *)
(* the mailbox commands_box; the virtual timer wakes the alarm thread,     *)
(* which fetches and executes the commands.                                *)
(*                                                                         *)
(* commands, the array set_alarm writes to, is also the ring of the        *)
(* mailbox.  Both threads run at NORMALPRIO, without time slices: one runs *)
(* until it blocks.                                                        *)
(***************************************************************************)
EXTENDS Commands, SequencesExt

CONSTANTS MaxCommands, \* MAX_COMMANDS (128)
          Batches,   \* the lists of commands an alarm can be set with
          Requests,  \* bound: number of alarms set
          MaxRuns    \* bound: the executions of a command are counted up to MaxRuns

ASSUME MaxAssumption == MaxCommands \in Nat \ {0}
ASSUME BatchAssumption ==
  \A b \in Batches :
    b \in Seq(Command) /\ b # <<>> /\ Len(b) <= MaxCommands /\ IsInjective(b)
ASSUME RequestsAssumption == Requests \in Nat /\ MaxRuns \in Nat

VARIABLES
  commands,   \* the ring of commands_box
  rd, wr,     \* its read and write pointers, as indexes
  used,       \* the number of messages it holds
  timer,      \* alarm_clock is armed
  alarm_bsem, \* the alarm has expired
  pc,         \* the alarm thread: "wait", "fetch", "sleep" or "post"
  command,    \* the command it executes
  loop,       \* its loop_t
  xpc,        \* websocket_ext: "idle", "set", "full" (blocked) or "woken"
  batch, i,   \* the list of the alarm that was set last, and the loop index
  requests,   \* the alarms that can still be set
  posted,     \* history: the messages posted and not yet fetched, in order
  runs,       \* history: how often each command was executed for batch, while Apart
  sequential, \* history: every alarm was set when the one before it was over
  aligned     \* history: its list was set with wr at 0 or beyond the list

history == <<sequential, aligned>>
box == <<commands, rd, wr, used, posted>>
vars == <<box, timer, alarm_bsem, pc, command, loop, xpc, batch, i, requests, runs, history>>

\* No write to commands[i] could hit another message of the box.
Apart == sequential /\ aligned

Slots == 0 .. MaxCommands - 1
Commands == UNION {ToSet(b) : b \in Batches}

Init ==
  /\ commands = [s \in Slots |-> NoCommand]
  /\ rd = 0 /\ wr = 0 /\ used = 0 /\ posted = <<>>
  /\ timer = FALSE /\ alarm_bsem = FALSE
  /\ pc = "wait" /\ command = NoCommand
  /\ loop = Single
  /\ xpc = "idle" /\ batch = <<>> /\ i = 0
  /\ requests = Requests
  /\ runs = [c \in Commands |-> 0] /\ sequential = TRUE /\ aligned = TRUE

\* A thread that waits for room is given the next free slot even before it runs.
Room == used + (IF xpc = "woken" THEN 1 ELSE 0) < MaxCommands

\* The alarm thread does not hold the processor: it is blocked, or woken and not yet run.
OffCpu ==
  \/ pc = "wait"
  \/ pc = "fetch" /\ used = 0
  \/ pc = "sleep"
  \/ pc = "post" /\ ~Room

\* Mutant of Post: the write pointer does not wrap.
PostOn(base, c) ==
  /\ commands' = [base EXCEPT ![wr] = c]
  /\ wr' = wr + 1
  /\ used' = used + 1
  /\ posted' = Append(posted, c)
  /\ UNCHANGED rd

\* chMBPost, when there is room; base is the ring it posts to.
Post(base, c) ==
  /\ commands' = [base EXCEPT ![wr] = c]
  /\ wr' = (wr + 1) % MaxCommands
  /\ used' = used + 1
  /\ posted' = Append(posted, c)
  /\ UNCHANGED rd

----------------------------------------------------------------------------
(* set_alarm                                                               *)

\* Disarm the timer, and start to post the commands.
SetAlarm(b) ==
  /\ requests > 0 /\ requests' = requests - 1
  /\ xpc = "idle" /\ OffCpu
  /\ timer' = FALSE
  /\ xpc' = "set" /\ batch' = b /\ i' = 0
  /\ runs' = [c \in Commands |-> 0]
  /\ sequential' = (sequential /\ pc = "wait" /\ used = 0)
  /\ aligned' = (aligned /\ (wr = 0 \/ wr >= Len(b)))
  /\ UNCHANGED <<box, alarm_bsem, pc, command, loop>>

\* Mutant of PostNext: the array is filled from its end.
PostNextBackwards ==
  LET written == [commands EXCEPT ![Len(batch) - 1 - i] = batch[i + 1]] IN
  /\ xpc = "set" /\ i < Len(batch)
  /\ IF Room
     THEN Post(written, batch[i + 1]) /\ i' = i + 1 /\ UNCHANGED xpc
     ELSE /\ xpc' = "full" /\ commands' = written
          /\ UNCHANGED <<rd, wr, used, posted, i>>
  /\ UNCHANGED <<timer, alarm_bsem, pc, command, loop, batch, requests, runs, history>>

\* commands[i] is written, then posted, or the thread waits for room.
PostNext ==
  LET written == [commands EXCEPT ![i] = batch[i + 1]] IN
  /\ xpc = "set" /\ i < Len(batch)
  /\ IF Room
     THEN Post(written, batch[i + 1]) /\ i' = i + 1 /\ UNCHANGED xpc
     ELSE /\ xpc' = "full" /\ commands' = written
          /\ UNCHANGED <<rd, wr, used, posted, i>>
  /\ UNCHANGED <<timer, alarm_bsem, pc, command, loop, batch, requests, runs, history>>

\* The room has come, or not within 100 ms: then the command is dropped.
PostWoken ==
  /\ OffCpu
  /\ \/ xpc = "woken" /\ Post(commands, batch[i + 1])
     \/ xpc = "full" /\ UNCHANGED box
  /\ xpc' = "set" /\ i' = i + 1
  /\ UNCHANGED <<timer, alarm_bsem, pc, command, loop, batch, requests, runs, history>>

Armed ==
  /\ xpc = "set" /\ i = Len(batch)
  /\ timer' = TRUE /\ xpc' = "idle"
  /\ UNCHANGED <<box, alarm_bsem, pc, command, loop, batch, i, requests, runs, history>>

\* alarm_cb
Expire ==
  /\ timer
  /\ timer' = FALSE /\ alarm_bsem' = TRUE
  /\ UNCHANGED <<box, pc, command, loop, xpc, batch, i, requests, runs, history>>

----------------------------------------------------------------------------
(* The alarm thread                                                        *)

\* The alarm thread does not run while websocket_ext does.
Runs == xpc # "set"

Wake ==
  /\ Runs /\ pc = "wait" /\ alarm_bsem
  /\ alarm_bsem' = FALSE /\ pc' = "fetch"
  /\ UNCHANGED <<box, timer, command, loop, xpc, batch, i, requests, runs, history>>

\* In a loop, a command that has been executed is posted again.
NextPc(state) == IF state = "LOOP" THEN "post" ELSE "fetch"

\* A command is fetched and executed.  The slot it frees goes to a waiting websocket_ext.
Fetch ==
  LET c == commands[rd] IN
  /\ Runs /\ pc = "fetch" /\ used > 0
  /\ command' = c
  /\ rd' = (rd + 1) % MaxCommands /\ used' = used - 1
  /\ posted' = Tail(posted)
  /\ loop' = LoopAfter(loop, c)
  /\ runs' = [runs EXCEPT ![c] = IF Apart /\ @ < MaxRuns THEN @ + 1 ELSE @]
  /\ pc' = IF c.kind = "sleep" THEN "sleep" ELSE NextPc(loop'.state)
  /\ xpc' = IF xpc = "full" THEN "woken" ELSE xpc
  /\ UNCHANGED <<commands, wr, timer, alarm_bsem, batch, i, requests, history>>

Slept ==
  /\ Runs /\ pc = "sleep"
  /\ pc' = NextPc(loop.state)
  /\ UNCHANGED <<box, timer, alarm_bsem, command, loop, xpc, batch, i, requests, runs, history>>

Repost ==
  /\ Runs /\ pc = "post" /\ Room
  /\ Post(commands, command)
  /\ pc' = "fetch"
  /\ UNCHANGED <<timer, alarm_bsem, command, loop, xpc, batch, i, requests, runs, history>>

\* No command for 5 ms: the alarm is over.
Over ==
  /\ Runs /\ pc = "fetch" /\ used = 0
  /\ pc' = "wait"
  /\ loop' = [loop EXCEPT !.state = "SINGLE"]
  /\ UNCHANGED <<box, timer, alarm_bsem, command, xpc, batch, i, requests, runs, history>>

Next ==
  \/ \E b \in Batches : SetAlarm(b)
  \/ PostNext \/ PostWoken \/ Armed \/ Expire
  \/ Wake \/ Fetch \/ Slept \/ Repost \/ Over

\* Both threads run when they are ready, sleeps end and the timer expires.
Fairness ==
  /\ WF_vars(PostNext) /\ WF_vars(PostWoken) /\ WF_vars(Armed) /\ WF_vars(Expire)
  /\ WF_vars(Wake) /\ WF_vars(Fetch) /\ WF_vars(Slept) /\ WF_vars(Repost) /\ WF_vars(Over)

Spec == Init /\ [][Next]_vars /\ Fairness

----------------------------------------------------------------------------

\* The type invariant; the pointers of the ring agree with the number of messages.
TypeOK ==
  /\ commands \in [Slots -> Commands \cup {NoCommand}]
  /\ rd \in Slots /\ wr \in Slots /\ used \in 0..MaxCommands
  /\ wr = (rd + used) % MaxCommands
  /\ posted \in Seq(Commands \cup {NoCommand}) /\ Len(posted) = used
  /\ {timer, alarm_bsem, sequential, aligned} \subseteq BOOLEAN
  /\ pc \in {"wait", "fetch", "sleep", "post"}
  /\ command \in Commands \cup {NoCommand}
  /\ loop \in Loops
  /\ xpc \in {"idle", "set", "full", "woken"}
  /\ batch = <<>> \/ batch \in Batches
  /\ i \in 0..Len(batch) /\ requests \in 0..Requests
  /\ runs \in [Commands -> 0..MaxRuns]

\* The box holds the messages that were posted: none was overwritten since.
Held == \A k \in 1..used : commands[(rd + k - 1) % MaxCommands] = posted[k]

\* Writing commands[i] is harmless if each alarm is set when the one before it is over and
\* the write pointer is at 0 or beyond the slots the list is written to (alarm.c:88).
HeldIfApart == Apart => Held

\* "Set the alarm_clock duration and the commands to run at expiration." (alarm.h:13):
\* the commands that wait for the expiration are those that were set, at least when
\* alarms do not overlap.
AlarmHoldsCommands == sequential => Held

\* How many times command k of list b must be executed: those from a LOOP_CMD on, as
\* many times as it says.
Times(b, k) ==
  LET loops == {j \in 1..k : b[j].kind = "loop"}
  IN IF loops = {} THEN 1 ELSE b[CHOOSE j \in loops : TRUE].value

\* An alarm that is over has executed each of its commands as often as it was asked to.
AlarmDone ==
  Apart /\ batch # <<>> /\ xpc = "idle" /\ ~timer /\ ~alarm_bsem /\ pc = "wait" =>
    \A k \in DOMAIN batch : runs[batch[k]] = Times(batch, k)

\* An alarm that has expired comes to an end: a loop stops, and the thread is not blocked
\* on its own mailbox.
AlarmEnds == (pc = "fetch" /\ Apart) ~> (pc = "wait" \/ ~Apart)

=============================================================================
