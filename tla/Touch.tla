--------------------------------- MODULE Touch ---------------------------------
(***************************************************************************)
(* The touch sensors (fdc2214.c, capacitive_sensor.c): an interrupt tells  *)
(* that a chip has measured its leaves; the fdc thread reads them, detects *)
(* new touches, signals them to the server and executes the commands of    *)
(* the leaf.  Meanwhile websocket_ext may give a leaf other commands       *)
(* ("add", with clear_commands and add_command).                           *)
(*                                                                         *)
(* The fdc thread has the highest priority: websocket_ext runs only when   *)
(* it is suspended.  A leaf is a pair of a chip and a channel; of a        *)
(* measure the model keeps whether it is under the threshold.              *)
(***************************************************************************)
EXTENDS Commands

CONSTANTS ChannelsNb,  \* the number of channels of each chip (CHANNELS_NB)
          MaxCommands, \* MAX_COMMANDS (32)
          Lists,       \* the lists of commands a leaf can be given
          Adds,        \* bound: number of lists given
          Errors       \* bound: number of I2C errors

\* Two chips at most: fdc_cb posts 0 or 1.
ASSUME ChannelsAssumption ==
  /\ 0 \in DOMAIN ChannelsNb /\ DOMAIN ChannelsNb \subseteq {0, 1}
  /\ ChannelsNb \in [DOMAIN ChannelsNb -> Nat \ {0}]
ASSUME ListsAssumption ==
  /\ MaxCommands \in Nat \ {0}
  /\ \A l \in Lists : l \in Seq(Command) /\ Len(l) <= MaxCommands
ASSUME BoundsAssumption == {Adds, Errors} \subseteq Nat

VARIABLES
  ready,        \* the chips that have a new measure, and hold their interrupt line
  sensors_box,  \* the mailbox of the interrupts
  values,       \* the last value read of each leaf is under the threshold
  status,       \* the status of each leaf in the touch detection
  pc,           \* where the fdc thread is
  sensor, channel,              \* its leaf
  command, loop,                \* the command it executes, and its loop_t
  commands_box, tmp_commands_box, \* the two mailboxes of each leaf
  xpc,          \* websocket_ext: "idle", "add", "full" (blocked) or "woken"
  target, rest, \* the leaf it gives commands to, and those it has still to post
  adds, errors, \* what is left of the bounds
  conf,         \* history: the last list given to each leaf
  quiet,        \* history: it was not given during an execution of the commands
  fresh,        \* history: it has not been executed yet
  ran,          \* history: the commands this execution has run
  unread        \* history: the chips whose status could not be read

device == <<ready, sensors_box, values, status, unread>>
thread == <<sensor, channel, command, loop>>
boxes == <<commands_box, tmp_commands_box>>
adding == <<xpc, target, rest, adds>>
history == <<conf, quiet, fresh, ran>>
vars == <<device, pc, thread, boxes, adding, errors, history>>

Sensors == DOMAIN ChannelsNb
Leaves == UNION {{s} \X (0 .. ChannelsNb[s] - 1) : s \in Sensors}
Leaf == <<sensor, channel>>

\* The mailboxes are empty, and values is zero, which is under the threshold.
Init ==
  /\ ready = [s \in Sensors |-> FALSE] /\ sensors_box = <<>>
  /\ values = [l \in Leaves |-> TRUE]
  /\ status = [l \in Leaves |-> "DEFAULT_STATE"]
  /\ pc = "fetch" /\ sensor = 0 /\ channel = 0
  /\ command = NoCommand /\ loop = Single
  /\ commands_box = [l \in Leaves |-> <<>>] /\ tmp_commands_box = [l \in Leaves |-> <<>>]
  /\ xpc = "idle" /\ target = Leaf /\ rest = <<>>
  /\ adds = Adds /\ errors = Errors
  /\ conf = [l \in Leaves |-> <<>>] /\ quiet = [l \in Leaves |-> TRUE]
  /\ fresh = [l \in Leaves |-> TRUE] /\ ran = <<>>
  /\ unread = {}

\* Mutant of Room: nobody waits for room.
RoomAlways(l) == TRUE

\* There is room in the mailbox of leaf l; a thread woken up for it has its place.
Room(l) == Len(commands_box[l]) + (IF xpc = "woken" /\ target = l THEN 1 ELSE 0) < MaxCommands

\* Mutant of Saves: the commands out of a loop are not saved.
SavesTurn == loop.state = "LOOP" /\ loop.first_turn

\* The commands out of a loop are saved, and those of its first turn.
Saves == loop.state = "SINGLE" \/ loop.first_turn

\* The fdc thread waits for room in a mailbox from which nobody else fetches.
Stuck ==
  \/ pc = "repost" /\ loop.state = "LOOP" /\ ~Room(Leaf)
  \/ pc = "save" /\ Saves /\ Len(tmp_commands_box[Leaf]) = MaxCommands
  \/ pc = "post" /\ ~Room(Leaf)

\* The fdc thread is suspended: on a mailbox, the I2C bus, the Wi-Fi module or a sleep.
Suspended ==
  \/ pc = "fetch" /\ sensors_box = <<>>
  \/ pc \in {"status", "acquire", "write", "sleep", "rest"}
  \/ Stuck

\* The fdc thread executes the commands of leaf l.
Executing(l) ==
  l = Leaf /\ pc \in {"run", "sleep", "repost", "save", "restore", "post"}

----------------------------------------------------------------------------
(* The chips.                                                              *)

\* Mutant of Interrupt: the mailbox has room for one message.
InterruptOnce(s) ==
  sensors_box' = IF Len(sensors_box) < 1 THEN Append(sensors_box, s) ELSE sensors_box

\* fdc_cb, on a falling edge of the line of chip s: nothing is posted to a full box.
Interrupt(s) ==
  sensors_box' = IF Len(sensors_box) < 2 THEN Append(sensors_box, s) ELSE sensors_box

\* A measure is over.  The line stays low until the status register is read.
Measured(s) ==
  /\ ~ready[s]
  /\ ready' = [ready EXCEPT ![s] = TRUE]
  /\ Interrupt(s)
  /\ UNCHANGED <<values, status, unread, pc, thread, boxes, adding, errors, history>>

----------------------------------------------------------------------------
(* The fdc thread.                                                         *)

FetchSensor ==
  /\ pc = "fetch" /\ sensors_box # <<>>
  /\ sensor' = Head(sensors_box) /\ channel' = 0
  /\ sensors_box' = Tail(sensors_box)
  /\ pc' = "status"
  /\ UNCHANGED <<ready, values, status, unread, command, loop, boxes, adding,
                 errors, history>>

\* Mutant of ReadStatus: another register is read, which leaves the line low.
ReadOther ==
  /\ pc = "status"
  /\ pc' = IF ready[sensor] THEN "acquire" ELSE "fetch"
  /\ UNCHANGED <<ready, sensors_box, values, status, unread, thread, boxes, adding,
                 errors, history>>

ReadStatus ==
  /\ pc = "status"
  /\ pc' = IF ready[sensor] THEN "acquire" ELSE "fetch"
  /\ ready' = [ready EXCEPT ![sensor] = FALSE]
  /\ UNCHANGED <<sensors_box, values, status, unread, thread, boxes, adding,
                 errors, history>>

\* The interrupt is forgotten.
StatusError ==
  /\ pc = "status" /\ errors > 0
  /\ pc' = "fetch"
  /\ errors' = errors - 1
  /\ unread' = unread \cup {sensor}
  /\ UNCHANGED <<ready, sensors_box, values, status, thread, boxes, adding, history>>

\* The next channel of the chip, or the next interrupt.
NextChannel ==
  IF channel + 1 < ChannelsNb[sensor]
  THEN channel' = channel + 1 /\ pc' = "acquire"
  ELSE pc' = "fetch" /\ UNCHANGED channel

\* detect_action: only a new touch has a consequence.
Detect(touched) ==
  /\ status' = [status EXCEPT ![Leaf] = IF touched THEN "IN_TOUCH" ELSE "DEFAULT_STATE"]
  /\ IF touched /\ status[Leaf] = "DEFAULT_STATE"
     THEN pc' = "write" /\ UNCHANGED channel
     ELSE NextChannel

\* The leaf is touched, or not.
Acquire ==
  /\ pc = "acquire"
  /\ \E touched \in BOOLEAN :
       values' = [values EXCEPT ![Leaf] = touched] /\ Detect(touched)
  /\ UNCHANGED <<ready, sensors_box, unread, sensor, command, loop, boxes, adding,
                 errors, history>>

\* The detection works on the last value that could be read.
AcquireError ==
  /\ pc = "acquire" /\ errors > 0
  /\ errors' = errors - 1
  /\ Detect(values[Leaf])
  /\ UNCHANGED <<ready, sensors_box, values, unread, sensor, command, loop, boxes,
                 adding, history>>

\* The server has been told; the execution of the commands begins.
Told ==
  /\ pc = "write" /\ pc' = "run"
  /\ loop' = Single
  /\ ran' = <<>>
  /\ quiet' = [quiet EXCEPT ![Leaf] = @ /\ ~(xpc # "idle" /\ target = Leaf)]
  /\ UNCHANGED <<device, sensor, channel, command, boxes, adding, errors, conf, fresh>>

\* A command is fetched and executed.  The slot it frees goes to a waiting websocket_ext.
Run ==
  LET c == Head(commands_box[Leaf]) IN
  /\ pc = "run" /\ commands_box[Leaf] # <<>>
  /\ command' = c
  /\ commands_box' = [commands_box EXCEPT ![Leaf] = Tail(@)]
  /\ loop' = LoopAfter(loop, c)
  /\ ran' = Append(ran, c)
  /\ pc' = IF c.kind = "sleep" THEN "sleep" ELSE "repost"
  /\ xpc' = IF xpc = "full" /\ target = Leaf THEN "woken" ELSE xpc
  /\ UNCHANGED <<device, sensor, channel, tmp_commands_box, target, rest, adds, errors,
                 conf, quiet, fresh>>

Slept ==
  /\ pc = "sleep" /\ pc' = "repost"
  /\ UNCHANGED <<device, thread, boxes, adding, errors, history>>

\* "Reput the commands to repeat in the mailbox."
Repost ==
  /\ pc = "repost" /\ pc' = "save"
  /\ IF loop.state = "LOOP"
     THEN Room(Leaf) /\ commands_box' = [commands_box EXCEPT ![Leaf] = Append(@, command)]
     ELSE UNCHANGED commands_box
  /\ UNCHANGED <<device, thread, tmp_commands_box, adding, errors, history>>

\* "Save the commands to restore them at the end of the current activation."
Save ==
  /\ pc = "save" /\ pc' = "run"
  /\ IF Saves
     THEN /\ Len(tmp_commands_box[Leaf]) < MaxCommands
          /\ tmp_commands_box' = [tmp_commands_box EXCEPT ![Leaf] = Append(@, command)]
     ELSE UNCHANGED tmp_commands_box
  /\ UNCHANGED <<device, thread, commands_box, adding, errors, history>>

Executed ==
  /\ pc = "run" /\ commands_box[Leaf] = <<>>
  /\ pc' = "restore"
  /\ UNCHANGED <<device, thread, boxes, adding, errors, history>>

\* The commands are restored one by one.
FetchSaved ==
  /\ pc = "restore" /\ tmp_commands_box[Leaf] # <<>>
  /\ pc' = "post"
  /\ command' = Head(tmp_commands_box[Leaf])
  /\ tmp_commands_box' = [tmp_commands_box EXCEPT ![Leaf] = Tail(@)]
  /\ UNCHANGED <<device, sensor, channel, loop, commands_box, adding, errors, history>>

Restore ==
  /\ pc = "post" /\ Room(Leaf)
  /\ pc' = "restore"
  /\ commands_box' = [commands_box EXCEPT ![Leaf] = Append(@, command)]
  /\ UNCHANGED <<device, thread, tmp_commands_box, adding, errors, history>>

\* Then the thread sleeps for a second, against rebounds.  What it leaves in command and
\* loop is not read any more, and forgotten.
Restored ==
  /\ pc = "restore" /\ tmp_commands_box[Leaf] = <<>>
  /\ pc' = "rest"
  /\ command' = NoCommand /\ loop' = Single
  /\ fresh' = [fresh EXCEPT ![Leaf] = FALSE] /\ ran' = <<>>
  /\ UNCHANGED <<device, sensor, channel, boxes, adding, errors, conf, quiet>>

Rested ==
  /\ pc = "rest"
  /\ NextChannel
  /\ UNCHANGED <<device, sensor, command, loop, boxes, adding, errors, history>>

Fdc ==
  \/ FetchSensor \/ ReadStatus \/ Acquire \/ Told
  \/ Run \/ Slept \/ Repost \/ Save \/ Executed \/ FetchSaved \/ Restore \/ Restored \/ Rested

----------------------------------------------------------------------------
(* websocket_ext: "add".                                                   *)

\* The fdc thread, blocked on a mailbox that is reset, goes on without having posted.
AfterReset(l) ==
  IF Stuck /\ l = Leaf /\ pc = "repost" THEN "save"
  ELSE IF Stuck /\ l = Leaf /\ pc = "post" THEN "restore" ELSE pc

\* Mutant of Add: the mailbox is not cleared.
AddOnly(l, list) ==
  /\ xpc = "idle" /\ Suspended /\ adds > 0
  /\ adds' = adds - 1
  /\ xpc' = "add" /\ target' = l /\ rest' = list
  /\ conf' = [conf EXCEPT ![l] = list]
  /\ quiet' = [quiet EXCEPT ![l] = ~Executing(l)] /\ fresh' = [fresh EXCEPT ![l] = TRUE]
  /\ UNCHANGED <<device, pc, thread, boxes, errors, ran>>

\* clear_commands, then the list is posted.
Add(l, list) ==
  /\ xpc = "idle" /\ Suspended /\ adds > 0
  /\ adds' = adds - 1
  /\ commands_box' = [commands_box EXCEPT ![l] = <<>>]
  /\ pc' = AfterReset(l)
  /\ xpc' = "add" /\ target' = l /\ rest' = list
  /\ conf' = [conf EXCEPT ![l] = list]
  /\ quiet' = [quiet EXCEPT ![l] = ~Executing(l)] /\ fresh' = [fresh EXCEPT ![l] = TRUE]
  /\ UNCHANGED <<device, thread, tmp_commands_box, errors, ran>>

\* add_command waits for room as long as it takes.
AddCommand ==
  /\ xpc = "woken" \/ (xpc = "add" /\ rest # <<>>)
  /\ Suspended
  /\ IF xpc = "woken" \/ Room(target)
     THEN /\ commands_box' = [commands_box EXCEPT ![target] = Append(@, Head(rest))]
          /\ rest' = Tail(rest) /\ xpc' = "add"
     ELSE xpc' = "full" /\ UNCHANGED <<commands_box, rest>>
  /\ UNCHANGED <<device, pc, thread, tmp_commands_box, target, adds, errors, history>>

Added ==
  /\ xpc = "add" /\ rest = <<>> /\ Suspended
  /\ xpc' = "idle"
  /\ UNCHANGED <<device, pc, thread, boxes, target, rest, adds, errors, history>>

Next ==
  \/ \E l \in Leaves, list \in Lists : Add(l, list)
  \/ \E s \in Sensors : Measured(s)
  \/ Fdc \/ StatusError \/ AcquireError
  \/ AddCommand \/ Added

\* The chips measure on and on, and the fdc thread runs.
Fairness == WF_vars(Fdc) /\ \A s \in Sensors : WF_vars(Measured(s))

Spec == Init /\ [][Next]_vars /\ Fairness

----------------------------------------------------------------------------

\* The type invariant; websocket_ext waits for room only with a command to post.
TypeOK ==
  /\ values \in [Leaves -> BOOLEAN]
  /\ ready \in [Sensors -> BOOLEAN] /\ unread \subseteq Sensors
  /\ sensors_box \in Seq(Sensors) /\ Len(sensors_box) <= 2
  /\ status \in [Leaves -> {"DEFAULT_STATE", "IN_TOUCH"}]
  /\ pc \in {"fetch", "status", "acquire", "write", "run", "sleep", "repost", "save",
             "restore", "post", "rest"}
  /\ sensor \in Sensors /\ channel \in 0 .. ChannelsNb[sensor] - 1
  /\ command \in Command \cup {NoCommand} /\ loop \in Loops
  /\ pc \in {"sleep", "repost", "save", "post"} => command \in Command
  /\ {commands_box, tmp_commands_box, conf} \subseteq [Leaves -> Seq(Command)]
  /\ \A l \in Leaves : Len(commands_box[l]) <= MaxCommands /\ Len(tmp_commands_box[l]) <= MaxCommands
  /\ xpc \in {"idle", "add", "full", "woken"} /\ target \in Leaves
  /\ rest \in Seq(Command) /\ (xpc \in {"full", "woken"} => rest # <<>>)
  /\ adds \in 0..Adds /\ errors \in 0..Errors
  /\ {quiet, fresh} \subseteq [Leaves -> BOOLEAN] /\ ran \in Seq(Command)

\* The mailbox of the interrupts is never too small: the interrupt of a chip that has
\* a measure is in it, or being served, unless an I2C error has lost it.
NoInterruptLost ==
  \A s \in Sensors :
    ready[s] /\ s \notin unread =>
      (\E k \in DOMAIN sensors_box : sensors_box[k] = s) \/ (pc = "status" /\ sensor = s)

Plain(list) == \A k \in DOMAIN list : list[k].kind # "loop"

OneLoop(list) ==
  \A j, k \in DOMAIN list : list[j].kind = "loop" /\ list[k].kind = "loop" => j = k

\* s is before, followed by so many turns of body.
Turns(s, before, body, turns) ==
  /\ Len(s) = Len(before) + turns * Len(body)
  /\ \A j \in 1 .. Len(before) : s[j] = before[j]
  /\ \A t \in 0 .. turns - 1, j \in 1 .. Len(body) :
       s[Len(before) + t * Len(body) + j] = body[j]

\* s is what list asks for: what follows a LOOP_CMD, with it, as many times as it says.
Unrolls(s, list) ==
  \/ Plain(list) /\ s = list
  \/ \E k \in DOMAIN list :
       /\ list[k].kind = "loop"
       /\ Turns(s, SubSeq(list, 1, k - 1), SubSeq(list, k, Len(list)), list[k].value)

\* A touch executes the commands of its leaf, all of them and in order; those of a list
\* with a loop at least the first time.
RunsList ==
  /\ pc = "restore" /\ quiet[Leaf]
  /\ Plain(conf[Leaf]) \/ (OneLoop(conf[Leaf]) /\ fresh[Leaf])
  => Unrolls(ran, conf[Leaf])

\* Nothing is executed or given: the commands of leaf l are at rest.
AtRest(l) == quiet[l] /\ ~Executing(l) /\ ~(xpc # "idle" /\ target = l)

\* After a touch a leaf has its commands again, all of them and in order, whatever happens
\* to the other leaves, at least without loop.
PlainKept ==
  \A l \in Leaves : AtRest(l) /\ Plain(conf[l]) =>
    commands_box[l] = conf[l] /\ tmp_commands_box[l] = <<>>

\* Every leaf is read again and again, whatever the commands of the others do, if the thread
\* does not block on its own mailbox and the status of the chip could be read.
LeavesRead ==
  \A l \in Leaves : []<>((pc = "acquire" /\ Leaf = l) \/ Stuck \/ l[1] \in unread)

=============================================================================
