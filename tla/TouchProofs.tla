------------------------------ MODULE TouchProofs ------------------------------
(***************************************************************************)
(* Theorems about Touch, for any number of channels and of commands, any   *)
(* lists, and any number of lists given and of I2C errors.                 *)
(***************************************************************************)
EXTENDS Touch, SequenceTheorems, TLAPS

\* A thread woken up for a slot of a mailbox finds it.
RoomKept ==
  \A l \in Leaves : xpc = "woken" /\ target = l => Len(commands_box[l]) < MaxCommands

Posted(s) == \E k \in DOMAIN sensors_box : sensors_box[k] = s

\* A chip is posted once by measure, and fetched before its line is released.
PostedOnce ==
  /\ \A j, k \in DOMAIN sensors_box : sensors_box[j] = sensors_box[k] => j = k
  /\ \A k \in DOMAIN sensors_box : ready[sensors_box[k]]
  /\ pc = "status" => ready[sensor] /\ ~Posted(sensor)

\* websocket_ext gives commands to leaf l.
Giving(l) == xpc # "idle" /\ target = l

\* The commands of leaf l, and where they are: those already run, or still to be given or
\* restored, with those that wait in the mailbox, are the list it was given.
Whole(l) ==
  /\ ~Executing(l) /\ ~Giving(l) => commands_box[l] = conf[l]
  /\ ~Executing(l) /\ Giving(l) => commands_box[l] \o rest = conf[l]
  /\ Executing(l) => loop.state = "SINGLE"
  /\ l = Leaf /\ pc = "run" =>
       tmp_commands_box[l] \o commands_box[l] = conf[l] /\ ran = tmp_commands_box[l]
  /\ l = Leaf /\ pc \in {"sleep", "repost", "save"} =>
       /\ Append(tmp_commands_box[l], command) \o commands_box[l] = conf[l]
       /\ ran = Append(tmp_commands_box[l], command)
  /\ l = Leaf /\ pc = "restore" =>
       commands_box[l] \o tmp_commands_box[l] = conf[l] /\ ran = conf[l]
  /\ l = Leaf /\ pc = "post" =>
       Append(commands_box[l], command) \o tmp_commands_box[l] = conf[l] /\ ran = conf[l]

\* Nothing is saved for a leaf that does not execute its commands; while nobody gives it
\* commands during an execution, the commands of a leaf without loop are whole.
Commanded(l) ==
  /\ ~Executing(l) => tmp_commands_box[l] = <<>>
  /\ quiet[l] => ~(Executing(l) /\ Giving(l))
  /\ quiet[l] /\ Plain(conf[l]) => Whole(l)

IInv == TypeOK /\ RoomKept /\ PostedOnce /\ (\A l \in Leaves : Commanded(l))

----------------------------------------------------------------------------
(* Leaves and lists.                                                       *)

\* A leaf is a pair of a chip and one of its channels.
LEMMA LeafPair ==
  /\ \A s \in Sensors, c \in Nat : c < ChannelsNb[s] => <<s, c>> \in Leaves
  /\ \A l \in Leaves : /\ l = <<l[1], l[2]>>
                       /\ l[1] \in Sensors /\ l[2] \in 0 .. ChannelsNb[l[1]] - 1
<1>1. \A s \in Sensors : ChannelsNb[s] \in Nat \ {0}
  BY ChannelsAssumption DEF Sensors
<1>2. ASSUME NEW s \in Sensors, NEW c \in Nat, c < ChannelsNb[s] PROVE <<s, c>> \in Leaves
  <2>1. <<s, c>> \in {s} \X (0 .. ChannelsNb[s] - 1)
    BY <1>1, <1>2
  <2> QED BY <2>1 DEF Leaves
<1>3. ASSUME NEW l \in Leaves
      PROVE  /\ l = <<l[1], l[2]>>
             /\ l[1] \in Sensors /\ l[2] \in 0 .. ChannelsNb[l[1]] - 1
  <2>1. PICK s \in Sensors : l \in {s} \X (0 .. ChannelsNb[s] - 1)
    BY DEF Leaves
  <2> QED BY <2>1
<1> QED BY <1>2, <1>3

\* The leaf of the fdc thread is one, and so is the one it goes on with.
LEMMA LeafTyped == TypeOK => Leaf \in Leaves
<1> SUFFICES ASSUME TypeOK PROVE Leaf \in Leaves
  OBVIOUS
<1>1. ChannelsNb[sensor] \in Nat /\ channel \in Nat /\ channel < ChannelsNb[sensor]
  BY ChannelsAssumption DEF TypeOK, Sensors
<1> QED BY <1>1, LeafPair DEF TypeOK, Leaf

\* A command that goes from the head of a list to the end of another leaves what they hold
\* together as it is.
LEMMA MoveHead ==
  ASSUME NEW S, NEW s \in Seq(S), NEW t \in Seq(S), t # <<>>
  PROVE  Append(s, Head(t)) \o Tail(t) = s \o t
<1>1. Head(t) \in S /\ Tail(t) \in Seq(S) /\ <<Head(t)>> \in Seq(S)
  BY HeadTailProperties
<1>2. t = <<Head(t)>> \o Tail(t)
  OBVIOUS
<1>3. Append(s, Head(t)) = s \o <<Head(t)>>
  BY <1>1, AppendIsConcat
<1>4. (s \o <<Head(t)>>) \o Tail(t) = s \o (<<Head(t)>> \o Tail(t))
  BY <1>1, ConcatAssociative
<1> QED BY <1>2, <1>3, <1>4

\* A message taken from a mailbox, and one posted to it.
LEMMA BoxTail ==
  ASSUME NEW S, NEW s \in Seq(S), s # <<>>
  PROVE  /\ Head(s) \in S /\ Tail(s) \in Seq(S) /\ Len(Tail(s)) = Len(s) - 1
         /\ Len(s) \in Nat \ {0} /\ Head(s) = s[1]
         /\ \A k \in 1..Len(Tail(s)) : Tail(s)[k] = s[k + 1]
BY HeadTailProperties, EmptySeq

LEMMA BoxAppend ==
  ASSUME NEW S, NEW s \in Seq(S), NEW e \in S
  PROVE  /\ Append(s, e) \in Seq(S) /\ Len(Append(s, e)) = Len(s) + 1 /\ Len(s) \in Nat
         /\ \A k \in 1..Len(s) : Append(s, e)[k] = s[k]
         /\ Append(s, e)[Len(s) + 1] = e
BY AppendProperties

\* The head of a list is an element of those it ends.
LEMMA HeadIn ==
  ASSUME NEW S, NEW s \in Seq(S), NEW t \in Seq(S), t # <<>>
  PROVE  \E k \in DOMAIN (s \o t) : (s \o t)[k] = Head(t)
<1> DEFINE n == Len(s)
           m == Len(t)
<1>1. n \in Nat /\ m \in Nat \ {0} /\ Head(t) = t[1]
  BY BoxTail, LenProperties
<1>2. s \o t \in Seq(S) /\ Len(s \o t) = n + m
  BY ConcatProperties
<1>3. DOMAIN (s \o t) = 1..(n + m)
  BY <1>2, LenProperties
<1>4. \A i \in 1..(n + m) : (s \o t)[i] = IF i <= n THEN s[i] ELSE t[i - n]
  BY ConcatProperties
<1> HIDE DEF n, m
<1>5. n + 1 \in 1..(n + m) /\ ~(n + 1 <= n) /\ (n + 1) - n = 1
  BY <1>1
<1>6. (s \o t)[n + 1] = t[1]
  BY <1>4, <1>5
<1> QED BY <1>1, <1>3, <1>5, <1>6

\* The mailboxes of the leaves, when one is fetched from, or posted to.
LEMMA BoxesTail ==
  ASSUME NEW b \in [Leaves -> Seq(Command)], NEW m \in Leaves, b[m] # <<>>,
         NEW d, d = [b EXCEPT ![m] = Tail(@)]
  PROVE  /\ d \in [Leaves -> Seq(Command)] /\ Head(b[m]) \in Command
         /\ d[m] = Tail(b[m]) /\ \A l \in Leaves \ {m} : d[l] = b[l]
         /\ Len(d[m]) = Len(b[m]) - 1 /\ Len(b[m]) \in Nat
<1>1. /\ Head(b[m]) \in Command /\ Tail(b[m]) \in Seq(Command)
      /\ Len(Tail(b[m])) = Len(b[m]) - 1 /\ Len(b[m]) \in Nat
  BY BoxTail
<1>2. /\ d \in [Leaves -> Seq(Command)]
      /\ d[m] = Tail(b[m]) /\ \A l \in Leaves \ {m} : d[l] = b[l]
  BY <1>1
<1> QED BY <1>1, <1>2

LEMMA BoxesAppend ==
  ASSUME NEW b \in [Leaves -> Seq(Command)], NEW m \in Leaves, NEW c \in Command,
         NEW d, d = [b EXCEPT ![m] = Append(@, c)]
  PROVE  /\ d \in [Leaves -> Seq(Command)]
         /\ d[m] = Append(b[m], c) /\ \A l \in Leaves \ {m} : d[l] = b[l]
         /\ Len(d[m]) = Len(b[m]) + 1 /\ Len(b[m]) \in Nat
<1>1. /\ Append(b[m], c) \in Seq(Command)
      /\ Len(Append(b[m], c)) = Len(b[m]) + 1 /\ Len(b[m]) \in Nat
  BY BoxAppend
<1>2. /\ d \in [Leaves -> Seq(Command)]
      /\ d[m] = Append(b[m], c) /\ \A l \in Leaves \ {m} : d[l] = b[l]
  BY <1>1
<1> QED BY <1>1, <1>2

LEMMA MaxTyped == MaxCommands \in Nat \ {0}
BY ListsAssumption

\* A mailbox that has room before a command is posted has it still for a woken thread.
LEMMA RoomTyped ==
  ASSUME TypeOK, NEW m \in Leaves, Room(m)
  PROVE  /\ Len(commands_box[m]) + 1 <= MaxCommands
         /\ xpc = "woken" /\ target = m => Len(commands_box[m]) + 1 < MaxCommands
         /\ MaxCommands \in Nat /\ Len(commands_box[m]) \in Nat
<1>1. MaxCommands \in Nat /\ Len(commands_box[m]) \in Nat
  BY MaxTyped, LenProperties DEF TypeOK
<1>2. CASE xpc = "woken" /\ target = m
  <2>1. (IF xpc = "woken" /\ target = m THEN 1 ELSE 0) = 1
    BY <1>2
  <2>2. Len(commands_box[m]) + 1 < MaxCommands
    BY <2>1, Zenon DEF Room
  <2> QED BY <1>1, <2>2
<1>3. CASE ~(xpc = "woken" /\ target = m)
  <2>1. (IF xpc = "woken" /\ target = m THEN 1 ELSE 0) = 0
    BY <1>3
  <2>2. Len(commands_box[m]) + 0 < MaxCommands
    BY <2>1, Zenon DEF Room
  <2> QED BY <1>1, <1>3, <2>2
<1> QED BY <1>1, <1>2, <1>3

----------------------------------------------------------------------------
(* Types, and the room of the mailboxes.                                   *)

\* What executing a command does to the loop of its caller.
LEMMA LoopTyped ==
  ASSUME NEW l \in Loops, NEW c \in Command
  PROVE  LoopAfter(l, c) \in Loops /\ (c.kind # "loop" => LoopAfter(l, c) = l)
BY DEF LoopAfter, Loops, Command, Countdown

LEMMA SingleTyped == Single \in Loops
BY DEF Single, Loops

\* A step of the chips, or of the reading of a leaf, does not touch the lists.
LEMMA TypeDevice ==
  ASSUME TypeOK, RoomKept,
         (\E s \in Sensors : Measured(s)) \/ FetchSensor \/ ReadStatus \/ StatusError
           \/ Acquire \/ AcquireError
  PROVE  TypeOK' /\ RoomKept'
<1> DEFINE Lists1 ==
      /\ UNCHANGED <<command, loop, commands_box, tmp_commands_box, xpc, target, rest, conf, quiet,
                     fresh, ran, adds>>
<1>1. Leaf \in Leaves
  BY LeafTyped
<1>2. \A s \in Sensors : ChannelsNb[s] \in Nat \ {0}
  BY ChannelsAssumption DEF Sensors
<1>3. CASE \E s \in Sensors : Measured(s)
  <2>1. PICK s \in Sensors : Measured(s)
    BY <1>3
  <2>2. sensors_box' \in Seq(Sensors) /\ Len(sensors_box') <= 2
    BY <2>1, BoxAppend DEF Measured, Interrupt, TypeOK
  <2> QED BY <2>1, <2>2 DEF TypeOK, RoomKept, Measured, thread, boxes, adding, history
<1>4. CASE FetchSensor
  <2>1. /\ sensors_box' \in Seq(Sensors) /\ Len(sensors_box') <= 2
        /\ sensor' \in Sensors /\ channel' \in 0 .. ChannelsNb[sensor'] - 1
    BY <1>2, <1>4, BoxTail DEF FetchSensor, TypeOK
  <2> QED BY <1>4, <2>1 DEF TypeOK, RoomKept, FetchSensor, boxes, adding, history
<1>5. CASE ReadStatus
  BY <1>5 DEF TypeOK, RoomKept, ReadStatus, thread, boxes, adding, history
<1>6. CASE StatusError
  BY <1>6, BoundsAssumption DEF TypeOK, RoomKept, StatusError, thread, boxes, adding, history
<1>7. CASE Acquire \/ AcquireError
  <2>1. PICK touched \in BOOLEAN : Detect(touched)
    BY <1>1, <1>7 DEF Acquire, AcquireError, TypeOK
  <2>2. /\ pc' \in {"write", "acquire", "fetch"} /\ channel' \in 0 .. ChannelsNb[sensor] - 1
        /\ status' \in [Leaves -> {"DEFAULT_STATE", "IN_TOUCH"}]
    BY <1>1, <1>2, <2>1 DEF Detect, NextChannel, TypeOK
  <2>3. values' \in [Leaves -> BOOLEAN]
    BY <1>1, <1>7 DEF Acquire, AcquireError, TypeOK
  <2>4. errors' \in 0..Errors
    BY <1>7, BoundsAssumption DEF Acquire, AcquireError, TypeOK
  <2> QED
    BY <1>7, <2>2, <2>3, <2>4 DEF TypeOK, RoomKept, Acquire, AcquireError, boxes, adding, history
<1> QED BY <1>3, <1>4, <1>5, <1>6, <1>7

\* A post to the mailbox of leaf m, which has room for it.
LEMMA PostTyped ==
  ASSUME TypeOK, RoomKept, NEW m \in Leaves, NEW c \in Command,
         Room(m) \/ (xpc = "woken" /\ target = m /\ xpc' # "woken"),
         commands_box' = [commands_box EXCEPT ![m] = Append(@, c)],
         xpc' = "woken" => xpc = "woken" /\ target' = target
  PROVE  /\ commands_box' \in [Leaves -> Seq(Command)]
         /\ \A l \in Leaves : Len(commands_box'[l]) <= MaxCommands
         /\ RoomKept'
<1>1. commands_box \in [Leaves -> Seq(Command)] /\ MaxCommands \in Nat
  BY MaxTyped DEF TypeOK
<1>2. /\ commands_box' \in [Leaves -> Seq(Command)]
      /\ \A l \in Leaves \ {m} : commands_box'[l] = commands_box[l]
      /\ Len(commands_box'[m]) = Len(commands_box[m]) + 1 /\ Len(commands_box[m]) \in Nat
  BY <1>1, BoxesAppend
<1>3. Len(commands_box'[m]) <= MaxCommands
  <2>1. CASE Room(m)
    BY <2>1, <1>2, RoomTyped
  <2>2. CASE xpc = "woken" /\ target = m
    BY <2>2, <1>1, <1>2 DEF RoomKept
  <2> QED BY <2>1, <2>2
<1>4. ASSUME NEW l \in Leaves PROVE Len(commands_box'[l]) <= MaxCommands
  BY <1>2, <1>3 DEF TypeOK
<1>5. RoomKept'
  <2> SUFFICES ASSUME NEW l \in Leaves, xpc' = "woken", target' = l
               PROVE  Len(commands_box'[l]) < MaxCommands
    BY DEF RoomKept
  <2>1. xpc = "woken" /\ target = l
    OBVIOUS
  <2>2. CASE l = m
    <3>1. Len(commands_box[m]) + 1 < MaxCommands
      BY <2>1, <2>2, RoomTyped
    <3> QED BY <3>1, <2>2, <1>2
  <2>3. CASE l # m
    BY <2>1, <2>3, <1>2 DEF RoomKept
  <2> QED BY <2>2, <2>3
<1> QED BY <1>2, <1>4, <1>5

\* A step of the execution of the commands.
LEMMA TypeRun ==
  ASSUME TypeOK, RoomKept, Run
  PROVE  TypeOK' /\ RoomKept'
<1>1. Leaf \in Leaves /\ MaxCommands \in Nat
  BY LeafTyped, MaxTyped
<1>2. /\ commands_box \in [Leaves -> Seq(Command)] /\ commands_box[Leaf] # <<>>
      /\ commands_box' = [commands_box EXCEPT ![Leaf] = Tail(@)]
      /\ command' = Head(commands_box[Leaf]) /\ ran' = Append(ran, command')
      /\ loop' = LoopAfter(loop, command')
      /\ xpc' = IF xpc = "full" /\ target = Leaf THEN "woken" ELSE xpc
      /\ target' = target
  BY DEF Run, TypeOK
<1>3. /\ commands_box' \in [Leaves -> Seq(Command)] /\ command' \in Command
      /\ \A l \in Leaves \ {Leaf} : commands_box'[l] = commands_box[l]
      /\ Len(commands_box'[Leaf]) = Len(commands_box[Leaf]) - 1 /\ Len(commands_box[Leaf]) \in Nat
  BY <1>1, <1>2, BoxesTail
<1>4. Len(commands_box'[Leaf]) < MaxCommands
  <2>1. Len(commands_box[Leaf]) <= MaxCommands
    BY <1>1 DEF TypeOK
  <2> QED BY <2>1, <1>1, <1>3
<1>5. ASSUME NEW l \in Leaves PROVE Len(commands_box'[l]) <= MaxCommands
  <2>1. CASE l = Leaf
    BY <2>1, <1>1, <1>3, <1>4
  <2>2. CASE l # Leaf
    BY <2>2, <1>3 DEF TypeOK
  <2> QED BY <2>1, <2>2
<1>6. ran' \in Seq(Command) /\ loop' \in Loops
  BY <1>2, <1>3, BoxAppend, LoopTyped DEF TypeOK
<1>7. RoomKept'
  <2> SUFFICES ASSUME NEW l \in Leaves, xpc' = "woken", target' = l
               PROVE  Len(commands_box'[l]) < MaxCommands
    BY DEF RoomKept
  <2>1. CASE l = Leaf
    BY <2>1, <1>4
  <2>2. CASE l # Leaf
    BY <2>2, <1>2, <1>3 DEF RoomKept
  <2> QED BY <2>1, <2>2
<1>8. TypeOK'
  BY <1>3, <1>5, <1>6 DEF Run, TypeOK, device
<1> QED BY <1>7, <1>8

\* The other steps of the fdc thread.
LEMMA TypeFdc ==
  ASSUME TypeOK, RoomKept,
         Told \/ Slept \/ Repost \/ Save \/ Executed \/ FetchSaved \/ Restore \/ Restored \/ Rested
  PROVE  TypeOK' /\ RoomKept'
<1>1. Leaf \in Leaves /\ MaxCommands \in Nat
  BY LeafTyped, MaxTyped
<1>2. {commands_box, tmp_commands_box} \subseteq [Leaves -> Seq(Command)]
  BY DEF TypeOK
<1>3. CASE Told
  <2>1. quiet' \in [Leaves -> BOOLEAN]
    BY <1>3, <1>1 DEF Told, TypeOK
  <2>2. <<>> \in Seq(Command)
    OBVIOUS
  <2> QED BY <1>3, <2>1, <2>2, SingleTyped DEF Told, TypeOK, RoomKept, device, boxes, adding
<1>4. CASE Slept \/ Executed
  BY <1>4 DEF Slept, Executed, TypeOK, RoomKept, device, thread, boxes, adding, history
<1>5. CASE Repost
  <2>1. CASE loop.state = "LOOP"
    <3>1. /\ commands_box' \in [Leaves -> Seq(Command)]
          /\ \A l \in Leaves : Len(commands_box'[l]) <= MaxCommands
          /\ RoomKept'
      <4>1. command \in Command
        BY <1>5 DEF Repost, TypeOK
      <4> QED BY <1>1, <1>5, <2>1, <4>1, PostTyped DEF Repost, adding
    <3> QED BY <1>5, <3>1 DEF Repost, TypeOK, device, thread, adding, history
  <2>2. CASE loop.state # "LOOP"
    BY <1>5, <2>2 DEF Repost, TypeOK, RoomKept, device, thread, adding, history
  <2> QED BY <2>1, <2>2
<1>6. CASE Save
  <2>1. CASE Saves
    <3>1. command \in Command /\ Len(tmp_commands_box[Leaf]) < MaxCommands
      BY <1>6, <2>1 DEF Save, TypeOK
    <3>2. tmp_commands_box' = [tmp_commands_box EXCEPT ![Leaf] = Append(@, command)]
      BY <1>6, <2>1 DEF Save
    <3>3. /\ tmp_commands_box' \in [Leaves -> Seq(Command)]
          /\ \A l \in Leaves \ {Leaf} : tmp_commands_box'[l] = tmp_commands_box[l]
          /\ Len(tmp_commands_box'[Leaf]) = Len(tmp_commands_box[Leaf]) + 1
          /\ Len(tmp_commands_box[Leaf]) \in Nat
      BY <1>1, <1>2, <3>1, <3>2, BoxesAppend
    <3>4. ASSUME NEW l \in Leaves PROVE Len(tmp_commands_box'[l]) <= MaxCommands
      <4>1. CASE l = Leaf
        BY <1>1, <3>1, <3>3, <4>1
      <4>2. CASE l # Leaf
        BY <3>3, <4>2 DEF TypeOK
      <4> QED BY <4>1, <4>2
    <3> QED BY <1>6, <3>3, <3>4 DEF Save, TypeOK, RoomKept, device, thread, adding, history
  <2>2. CASE ~Saves
    BY <1>6, <2>2 DEF Save, TypeOK, RoomKept, device, thread, adding, history
  <2> QED BY <2>1, <2>2
<1>7. CASE FetchSaved
  <2>1. /\ tmp_commands_box' = [tmp_commands_box EXCEPT ![Leaf] = Tail(@)]
        /\ command' = Head(tmp_commands_box[Leaf]) /\ tmp_commands_box[Leaf] # <<>>
    BY <1>7 DEF FetchSaved
  <2>2. /\ tmp_commands_box' \in [Leaves -> Seq(Command)] /\ command' \in Command
        /\ \A l \in Leaves \ {Leaf} : tmp_commands_box'[l] = tmp_commands_box[l]
        /\ Len(tmp_commands_box'[Leaf]) = Len(tmp_commands_box[Leaf]) - 1
        /\ Len(tmp_commands_box[Leaf]) \in Nat
    BY <1>1, <1>2, <2>1, BoxesTail
  <2>3. ASSUME NEW l \in Leaves PROVE Len(tmp_commands_box'[l]) <= MaxCommands
    <3>1. CASE l = Leaf
      <4>1. Len(tmp_commands_box[Leaf]) <= MaxCommands
        BY <1>1 DEF TypeOK
      <4> QED BY <1>1, <2>2, <3>1, <4>1
    <3>2. CASE l # Leaf
      BY <2>2, <3>2 DEF TypeOK
    <3> QED BY <3>1, <3>2
  <2> QED BY <1>7, <2>2, <2>3 DEF FetchSaved, TypeOK, RoomKept, device, adding, history
<1>8. CASE Restore
  <2>1. /\ commands_box' \in [Leaves -> Seq(Command)]
        /\ \A l \in Leaves : Len(commands_box'[l]) <= MaxCommands
        /\ RoomKept'
    <3>1. command \in Command
      BY <1>8 DEF Restore, TypeOK
    <3> QED BY <1>1, <1>8, <3>1, PostTyped DEF Restore, adding
  <2> QED BY <1>8, <2>1 DEF Restore, TypeOK, device, thread, adding, history
<1>9. CASE Restored
  <2>1. <<>> \in Seq(Command) /\ fresh' \in [Leaves -> BOOLEAN]
    BY <1>1, <1>9 DEF Restored, TypeOK
  <2> QED BY <1>9, <2>1, SingleTyped DEF Restored, TypeOK, RoomKept, device, boxes, adding
<1>10. CASE Rested
  <2>1. \A s \in Sensors : ChannelsNb[s] \in Nat \ {0}
    BY ChannelsAssumption DEF Sensors
  <2>2. pc' \in {"acquire", "fetch"} /\ channel' \in 0 .. ChannelsNb[sensor] - 1
    BY <1>10, <2>1 DEF Rested, NextChannel, TypeOK
  <2> QED BY <1>10, <2>2 DEF Rested, TypeOK, RoomKept, device, boxes, adding, history
<1> QED BY <1>3, <1>4, <1>5, <1>6, <1>7, <1>8, <1>9, <1>10

\* The steps of websocket_ext.
LEMMA TypeAdding ==
  ASSUME TypeOK, RoomKept,
         (\E l \in Leaves, list \in Lists : Add(l, list)) \/ AddCommand \/ Added
  PROVE  TypeOK' /\ RoomKept'
<1>1. MaxCommands \in Nat
  BY MaxTyped
<1>2. CASE \E l \in Leaves, list \in Lists : Add(l, list)
  <2>1. PICK m \in Leaves, list \in Lists : Add(m, list)
    BY <1>2
  <2>2. list \in Seq(Command)
    BY ListsAssumption
  <2>3. /\ <<>> \in Seq(Command) /\ Len(<<>>) = 0
        /\ commands_box' = [commands_box EXCEPT ![m] = <<>>]
    BY <2>1 DEF Add
  <2>4. commands_box' \in [Leaves -> Seq(Command)] /\ conf' \in [Leaves -> Seq(Command)]
    BY <2>1, <2>2, <2>3 DEF Add, TypeOK
  <2>5. \A l \in Leaves : Len(commands_box'[l]) <= MaxCommands
    <3> SUFFICES ASSUME NEW l \in Leaves PROVE Len(commands_box'[l]) <= MaxCommands
      OBVIOUS
    <3>1. CASE l = m
      <4>1. commands_box'[l] = <<>>
        BY <2>3, <3>1 DEF TypeOK
      <4> QED BY <4>1, <2>3, <1>1
    <3>2. CASE l # m
      <4>1. commands_box'[l] = commands_box[l]
        BY <2>3, <3>2 DEF TypeOK
      <4> QED BY <4>1 DEF TypeOK
    <3> QED BY <3>1, <3>2
  <2>6. pc' = pc \/ (pc = "repost" /\ pc' = "save") \/ (pc = "post" /\ pc' = "restore")
    BY <2>1 DEF Add, AfterReset
  <2>7. quiet' \in [Leaves -> BOOLEAN] /\ fresh' \in [Leaves -> BOOLEAN]
    BY <2>1 DEF Add, TypeOK, Executing
  <2>8. adds' \in 0..Adds
    BY <2>1, BoundsAssumption DEF Add, TypeOK
  <2>9. RoomKept'
    BY <2>1 DEF Add, RoomKept
  <2>10. TypeOK'
    BY <2>1, <2>2, <2>4, <2>5, <2>6, <2>7, <2>8 DEF Add, TypeOK, device, thread
  <2> QED BY <2>9, <2>10
<1>3. CASE AddCommand
  <2>1. rest # <<>> /\ target \in Leaves /\ rest \in Seq(Command)
    BY <1>3 DEF AddCommand, TypeOK
  <2>2. CASE xpc = "woken" \/ Room(target)
    <3>1. /\ Head(rest) \in Command /\ rest' \in Seq(Command) /\ xpc' = "add"
          /\ commands_box' = [commands_box EXCEPT ![target] = Append(@, Head(rest))]
      BY <1>3, <2>1, <2>2, BoxTail DEF AddCommand
    <3>2. /\ commands_box' \in [Leaves -> Seq(Command)]
          /\ \A l \in Leaves : Len(commands_box'[l]) <= MaxCommands
          /\ RoomKept'
      BY <2>1, <2>2, <3>1, PostTyped
    <3> QED
      BY <1>3, <3>1, <3>2 DEF AddCommand, TypeOK, device, thread, history
  <2>3. CASE ~(xpc = "woken" \/ Room(target))
    <3>1. xpc' = "full" /\ UNCHANGED <<commands_box, rest>>
      BY <1>3, <2>3 DEF AddCommand
    <3> QED
      BY <1>3, <2>1, <3>1 DEF AddCommand, TypeOK, RoomKept, device, thread, history
  <2> QED BY <2>2, <2>3
<1>4. CASE Added
  BY <1>4 DEF Added, TypeOK, RoomKept, device, thread, boxes, history
<1> QED BY <1>2, <1>3, <1>4

LEMMA TypeInit == Init => TypeOK /\ RoomKept
<1> SUFFICES ASSUME Init PROVE TypeOK /\ RoomKept
  OBVIOUS
<1>1. 0 \in Sensors /\ \A s \in Sensors : ChannelsNb[s] \in Nat \ {0}
  BY ChannelsAssumption DEF Sensors
<1>2. sensor = 0 /\ channel = 0 /\ sensor \in Sensors /\ channel \in 0 .. ChannelsNb[sensor] - 1
  BY <1>1 DEF Init
<1>3. target \in Leaves
  BY <1>1, <1>2, LeafPair DEF Init, Leaf
<1>4. /\ \A l \in Leaves : commands_box[l] = <<>> /\ tmp_commands_box[l] = <<>>
      /\ {commands_box, tmp_commands_box, conf} \subseteq [Leaves -> Seq(Command)]
      /\ rest = <<>> /\ ran = <<>> /\ sensors_box = <<>>
  BY DEF Init
<1>5. \A l \in Leaves : Len(commands_box[l]) <= MaxCommands /\ Len(tmp_commands_box[l]) <= MaxCommands
  BY <1>4, MaxTyped
<1>6. adds \in 0..Adds /\ errors \in 0..Errors
  BY BoundsAssumption DEF Init
<1>7. TypeOK
  BY <1>2, <1>3, <1>4, <1>5, <1>6, SingleTyped DEF Init, TypeOK
<1> QED BY <1>7 DEF Init, RoomKept

LEMMA TypeStep ==
  ASSUME TypeOK, RoomKept, [Next]_vars
  PROVE  TypeOK' /\ RoomKept'
<1>1. CASE UNCHANGED vars
  BY <1>1 DEF TypeOK, RoomKept, vars, device, thread, boxes, adding, history
<1>2. CASE Next
  BY <1>2, TypeDevice, TypeRun, TypeFdc, TypeAdding DEF Next, Fdc
<1> QED BY <1>1, <1>2

\* The variables of the touch detection stay in their types, whatever lists are given, and
\* no mailbox ever holds more commands than it has room for.
THEOREM TouchTypeOK == Spec => []TypeOK
<1>1. Init => TypeOK /\ RoomKept
  BY TypeInit
<1>2. TypeOK /\ RoomKept /\ [Next]_vars => (TypeOK /\ RoomKept)'
  BY TypeStep
<1> QED BY <1>1, <1>2, PTL DEF Spec

----------------------------------------------------------------------------
(* The interrupts.                                                         *)

LEMMA BoxDomain ==
  TypeOK => /\ DOMAIN sensors_box = 1..Len(sensors_box) /\ Len(sensors_box) \in 0..2
            /\ \A k \in DOMAIN sensors_box : sensors_box[k] \in Sensors
<1> SUFFICES ASSUME TypeOK
             PROVE  /\ DOMAIN sensors_box = 1..Len(sensors_box) /\ Len(sensors_box) \in 0..2
                    /\ \A k \in DOMAIN sensors_box : sensors_box[k] \in Sensors
  OBVIOUS
<1>1. sensors_box \in Seq(Sensors) /\ Len(sensors_box) <= 2
  BY DEF TypeOK
<1>2. DOMAIN sensors_box = 1..Len(sensors_box) /\ Len(sensors_box) \in Nat
  BY <1>1, LenProperties
<1> QED BY <1>1, <1>2, ElementOfSeq

\* A chip that has no measure yet finds room in the mailbox of the interrupts.
LEMMA RoomForInterrupt ==
  ASSUME TypeOK, PostedOnce, NEW s \in Sensors, ~ready[s]
  PROVE  ~Posted(s) /\ Len(sensors_box) < 2
<1>1. ~Posted(s)
  BY DEF PostedOnce, Posted
<1>2. ASSUME Len(sensors_box) = 2 PROVE FALSE
  <2>1. 1 \in DOMAIN sensors_box /\ 2 \in DOMAIN sensors_box
    BY <1>2, BoxDomain
  <2>2. sensors_box[1] # sensors_box[2] /\ sensors_box[1] # s /\ sensors_box[2] # s
    BY <1>1, <2>1 DEF PostedOnce, Posted
  <2>3. sensors_box[1] \in {0, 1} /\ sensors_box[2] \in {0, 1} /\ s \in {0, 1}
    BY <2>1, BoxDomain, ChannelsAssumption DEF Sensors
  <2> QED BY <2>2, <2>3
<1> QED BY <1>1, <1>2, BoxDomain

\* The steps that are not of a chip, or of the reading of its status.
LEMMA ElsewhereStep ==
  ASSUME [Next]_vars, ~(\E s \in Sensors : Measured(s)), ~FetchSensor, ~ReadStatus, ~StatusError
  PROVE  /\ UNCHANGED <<ready, sensors_box, unread>>
         /\ pc' = "status" <=> pc = "status"
         /\ pc = "status" => sensor' = sensor
<1>1. CASE UNCHANGED vars
  BY <1>1 DEF vars, device, thread
<1>2. CASE Acquire \/ AcquireError
  <2>1. \E touched : Detect(touched)
    BY <1>2 DEF Acquire, AcquireError
  <2>2. pc' # "status"
    BY <2>1 DEF Detect, NextChannel
  <2> QED BY <1>2, <2>2 DEF Acquire, AcquireError
<1>3. CASE Told \/ Run \/ Slept \/ Repost \/ Save \/ Executed \/ FetchSaved \/ Restore \/ Restored
  BY <1>3 DEF Told, Run, Slept, Repost, Save, Executed, FetchSaved, Restore, Restored, device
<1>4. CASE Rested
  BY <1>4 DEF Rested, NextChannel, device
<1>5. CASE \E l \in Leaves, list \in Lists : Add(l, list)
  BY <1>5 DEF Add, AfterReset, device, thread
<1>6. CASE AddCommand \/ Added
  BY <1>6 DEF AddCommand, Added, device, thread
<1> QED BY <1>1, <1>2, <1>3, <1>4, <1>5, <1>6 DEF Next, Fdc

LEMMA PostedStep ==
  ASSUME TypeOK, PostedOnce, NoInterruptLost, [Next]_vars
  PROVE  PostedOnce' /\ NoInterruptLost'
<1>1. CASE \E s \in Sensors : Measured(s)
  <2>1. PICK s \in Sensors : Measured(s)
    BY <1>1
  <2>2. ~Posted(s) /\ Len(sensors_box) < 2
    BY <2>1, RoomForInterrupt DEF Measured
  <2>3. /\ ready' = [ready EXCEPT ![s] = TRUE] /\ ready \in [Sensors -> BOOLEAN]
        /\ sensors_box' = Append(sensors_box, s) /\ sensors_box \in Seq(Sensors)
        /\ UNCHANGED <<pc, sensor, unread>>
    BY <2>1, <2>2 DEF Measured, Interrupt, TypeOK, thread
  <2> DEFINE n == Len(sensors_box)
  <2>4. /\ n \in 0..1 /\ DOMAIN sensors_box = 1..n /\ DOMAIN sensors_box' = 1..(n + 1)
        /\ \A k \in 1..n : sensors_box'[k] = sensors_box[k]
        /\ sensors_box'[n + 1] = s
    <3>1. sensors_box' \in Seq(Sensors) /\ Len(sensors_box') = n + 1 /\ n \in Nat
      BY <2>3, BoxAppend
    <3>2. DOMAIN sensors_box' = 1..(n + 1)
      BY <3>1, LenProperties
    <3> QED BY <2>2, <2>3, <3>1, <3>2, BoxDomain, BoxAppend
  <2> HIDE DEF n
  <2>5. \A r \in Sensors : Posted(r)' <=> Posted(r) \/ r = s
    BY <2>4 DEF Posted
  <2>6. \A j, k \in DOMAIN sensors_box' : sensors_box'[j] = sensors_box'[k] => j = k
    <3> SUFFICES ASSUME NEW j \in DOMAIN sensors_box', NEW k \in DOMAIN sensors_box',
                        sensors_box'[j] = sensors_box'[k]
                 PROVE  j = k
      OBVIOUS
    <3>1. CASE j \in 1..n /\ k \in 1..n
      BY <2>4, <3>1 DEF PostedOnce
    <3>2. CASE j = n + 1 /\ k \in 1..n
      BY <2>2, <2>4, <3>2 DEF Posted
    <3>3. CASE j \in 1..n /\ k = n + 1
      BY <2>2, <2>4, <3>3 DEF Posted
    <3>4. CASE j = n + 1 /\ k = n + 1
      BY <3>4
    <3> QED BY <2>4, <3>1, <3>2, <3>3, <3>4
  <2>7. \A k \in DOMAIN sensors_box' : ready'[sensors_box'[k]]
    <3> SUFFICES ASSUME NEW k \in DOMAIN sensors_box' PROVE ready'[sensors_box'[k]]
      OBVIOUS
    <3>1. CASE k \in 1..n
      <4>1. ready[sensors_box[k]] /\ sensors_box[k] \in Sensors /\ sensors_box'[k] = sensors_box[k]
        BY <2>4, <3>1, BoxDomain DEF PostedOnce
      <4> QED BY <4>1, <2>3
    <3>2. CASE k = n + 1
      BY <2>3, <2>4, <3>2
    <3> QED BY <2>4, <3>1, <3>2
  <2>8. pc' = "status" => ready'[sensor'] /\ ~Posted(sensor)'
    <3> SUFFICES ASSUME pc = "status" PROVE ready'[sensor] /\ ~Posted(sensor)'
      BY <2>3 DEF Posted
    <3>1. sensor \in Sensors /\ ready[sensor] /\ ~Posted(sensor) /\ sensor # s
      BY <2>1 DEF TypeOK, PostedOnce, Measured
    <3> QED BY <2>3, <2>5, <3>1 DEF Posted
  <2>9. NoInterruptLost'
    <3> SUFFICES ASSUME NEW r \in Sensors, ready'[r], r \notin unread
                 PROVE  Posted(r)' \/ (pc = "status" /\ sensor = r)
      BY <2>3 DEF NoInterruptLost, Posted
    <3> QED BY <2>3, <2>5 DEF NoInterruptLost, Posted
  <2> QED BY <2>6, <2>7, <2>8, <2>9 DEF PostedOnce
<1>2. CASE FetchSensor
  <2> DEFINE n == Len(sensors_box)
  <2>1. /\ sensors_box # <<>> /\ sensors_box \in Seq(Sensors) /\ sensors_box' = Tail(sensors_box)
        /\ sensor' = Head(sensors_box) /\ pc' = "status" /\ pc = "fetch"
        /\ UNCHANGED <<ready, unread>>
    BY <1>2 DEF FetchSensor, TypeOK
  <2>2. /\ n \in Nat \ {0} /\ sensor' = sensors_box[1] /\ sensor' \in Sensors
        /\ DOMAIN sensors_box = 1..n /\ DOMAIN sensors_box' = 1..(n - 1)
        /\ \A k \in 1..(n - 1) : sensors_box'[k] = sensors_box[k + 1]
    <3>1. sensors_box' \in Seq(Sensors) /\ Len(sensors_box') = n - 1
      BY <2>1, BoxTail
    <3>2. DOMAIN sensors_box' = 1..(n - 1)
      BY <3>1, LenProperties
    <3> QED BY <2>1, <3>1, <3>2, BoxTail, BoxDomain
  <2> HIDE DEF n
  <2>3. \A j, k \in 1..(n - 1) : sensors_box'[j] = sensors_box'[k] => j = k
    <3> SUFFICES ASSUME NEW j \in 1..(n - 1), NEW k \in 1..(n - 1), sensors_box'[j] = sensors_box'[k]
                 PROVE  j = k
      OBVIOUS
    <3>1. sensors_box[j + 1] = sensors_box[k + 1] /\ j + 1 \in 1..n /\ k + 1 \in 1..n
      BY <2>2
    <3>2. j + 1 = k + 1
      BY <2>2, <3>1 DEF PostedOnce
    <3> QED BY <3>2
  <2>4. \A k \in 1..(n - 1) : k + 1 \in 1..n /\ sensors_box[k + 1] # sensors_box[1]
    BY <2>2 DEF PostedOnce
  <2>5. PostedOnce'
    <3>1. \A k \in DOMAIN sensors_box' : ready'[sensors_box'[k]]
      BY <2>1, <2>2, <2>4 DEF PostedOnce
    <3>2. ready'[sensor'] /\ ~\E k \in DOMAIN sensors_box' : sensors_box'[k] = sensor'
      <4>1. 1 \in DOMAIN sensors_box
        BY <2>2
      <4> QED BY <2>1, <2>2, <2>4, <4>1 DEF PostedOnce
    <3> QED BY <2>2, <2>3, <3>1, <3>2 DEF PostedOnce, Posted
  <2>6. ASSUME NEW s \in Sensors, ready'[s], s \notin unread'
        PROVE  (\E k \in DOMAIN sensors_box' : sensors_box'[k] = s) \/ (pc' = "status" /\ sensor' = s)
    <3>1. PICK k \in 1..n : sensors_box[k] = s
      BY <2>1, <2>2, <2>6 DEF NoInterruptLost
    <3>2. CASE k = 1
      BY <2>1, <2>2, <3>1, <3>2
    <3>3. CASE k # 1
      <4>1. k - 1 \in 1..(n - 1) /\ (k - 1) + 1 = k
        BY <2>2, <3>1, <3>3
      <4>2. sensors_box'[k - 1] = s
        BY <2>2, <3>1, <4>1
      <4> QED BY <2>2, <4>1, <4>2
    <3> QED BY <3>2, <3>3
  <2>7. NoInterruptLost'
    BY <2>6 DEF NoInterruptLost
  <2> QED BY <2>5, <2>7
<1>3. CASE ReadStatus
  <2>1. /\ pc = "status" /\ pc' # "status" /\ sensor' = sensor /\ sensor \in Sensors
        /\ ready' = [ready EXCEPT ![sensor] = FALSE] /\ ready \in [Sensors -> BOOLEAN]
        /\ UNCHANGED <<sensors_box, unread>>
    BY <1>3 DEF ReadStatus, thread, TypeOK
  <2>2. PostedOnce'
    BY <2>1, BoxDomain DEF PostedOnce, Posted
  <2>3. NoInterruptLost'
    BY <2>1 DEF NoInterruptLost
  <2> QED BY <2>2, <2>3
<1>4. CASE StatusError
  <2>1. /\ pc = "status" /\ pc' = "fetch" /\ unread' = unread \cup {sensor}
        /\ UNCHANGED <<ready, sensors_box>>
    BY <1>4 DEF StatusError
  <2>2. PostedOnce'
    BY <2>1 DEF PostedOnce
  <2>3. NoInterruptLost'
    BY <2>1 DEF NoInterruptLost
  <2> QED BY <2>2, <2>3
<1>5. CASE ~(\E s \in Sensors : Measured(s)) /\ ~FetchSensor /\ ~ReadStatus /\ ~StatusError
  <2>1. /\ UNCHANGED <<ready, sensors_box, unread>>
        /\ pc' = "status" <=> pc = "status"
        /\ pc = "status" => sensor' = sensor
    BY <1>5, ElsewhereStep
  <2> QED BY <2>1 DEF PostedOnce, NoInterruptLost, Posted
<1> QED BY <1>1, <1>2, <1>3, <1>4, <1>5

\* The interrupt of a chip that has a measure waits in its mailbox, or is being served, until
\* its status is read or could not be: the two slots of the mailbox are always enough.
THEOREM TouchNoInterruptLost == Spec => []NoInterruptLost
<1>1. Init => PostedOnce /\ NoInterruptLost
  <2>1. DOMAIN <<>> = {}
    OBVIOUS
  <2> QED BY <2>1 DEF Init, PostedOnce, NoInterruptLost
<1>2. TypeOK /\ PostedOnce /\ NoInterruptLost /\ [Next]_vars => (PostedOnce /\ NoInterruptLost)'
  BY PostedStep
<1> QED BY <1>1, <1>2, TouchTypeOK, PTL DEF Spec

----------------------------------------------------------------------------
(* The lists.                                                              *)

\* Where the fdc thread executes the commands of its leaf.
InExecution == {"run", "sleep", "repost", "save", "restore", "post"}

LEMMA ListTyped ==
  ASSUME TypeOK, NEW l \in Leaves
  PROVE  /\ commands_box[l] \in Seq(Command) /\ tmp_commands_box[l] \in Seq(Command)
         /\ conf[l] \in Seq(Command) /\ quiet[l] \in BOOLEAN
BY DEF TypeOK

\* A leaf whose commands are not executed, before or after a step that does not touch them.
LEMMA CommandedKept ==
  ASSUME NEW l \in Leaves, Commanded(l), ~Executing(l), ~Executing(l)', Giving(l)' <=> Giving(l),
         commands_box'[l] = commands_box[l], tmp_commands_box'[l] = tmp_commands_box[l],
         conf'[l] = conf[l], quiet'[l] = quiet[l], Giving(l) => rest' = rest
  PROVE  Commanded(l)'
<1>1. (l = Leaf)' => pc' \notin InExecution
  BY DEF Executing, InExecution
<1>2. ASSUME quiet'[l], Plain(conf[l]) PROVE Whole(l)'
  <2>1. Whole(l)
    BY <1>2 DEF Commanded
  <2> QED BY <2>1, <1>1 DEF Whole, InExecution
<1> QED BY <1>2 DEF Commanded

\* The steps of the fdc thread outside of an execution, and those of the chips.
LEMMA CommandedDevice ==
  ASSUME NEW l \in Leaves, Commanded(l),
         (\E s \in Sensors : Measured(s)) \/ FetchSensor \/ ReadStatus \/ StatusError
           \/ Acquire \/ AcquireError \/ Rested \/ UNCHANGED vars
  PROVE  Commanded(l)'
<1>1. CASE UNCHANGED vars \/ \E s \in Sensors : Measured(s)
  <2>1. UNCHANGED <<pc, thread, boxes, xpc, target, rest, history>>
    BY <1>1 DEF vars, Measured, adding
  <2>2. UNCHANGED <<Executing(l), Giving(l)>>
    BY <2>1 DEF Executing, Giving, Leaf, thread
  <2>3. Whole(l) => Whole(l)'
    BY <2>1, <2>2 DEF Whole, Leaf, thread, boxes, history
  <2> QED BY <2>1, <2>2, <2>3 DEF Commanded, boxes, history
<1>2. CASE FetchSensor \/ ReadStatus \/ StatusError \/ Acquire \/ AcquireError \/ Rested
  <2>1. pc \notin InExecution
    BY <1>2 DEF FetchSensor, ReadStatus, StatusError, Acquire, AcquireError, Rested, InExecution
  <2>2. pc' \notin InExecution
    BY <1>2 DEF FetchSensor, ReadStatus, StatusError, Acquire, AcquireError, Rested, InExecution,
                Detect, NextChannel
  <2>3. UNCHANGED <<commands_box, tmp_commands_box, xpc, target, rest, conf, quiet>>
    BY <1>2 DEF FetchSensor, ReadStatus, StatusError, Acquire, AcquireError, Rested, boxes,
                adding, history
  <2>4. ~Executing(l) /\ ~Executing(l)' /\ (Giving(l)' <=> Giving(l))
    BY <2>1, <2>2, <2>3 DEF Executing, InExecution, Giving
  <2> QED BY <2>3, <2>4, CommandedKept
<1> QED BY <1>1, <1>2

\* What an execution does to the leaves it does not execute.
LEMMA CommandedOther ==
  ASSUME TypeOK, NEW l \in Leaves, Commanded(l), l # Leaf,
         Told \/ Run \/ Slept \/ Repost \/ Save \/ Executed \/ FetchSaved \/ Restore \/ Restored
  PROVE  Commanded(l)'
<1>1. Leaf \in Leaves /\ Leaf' = Leaf
  BY LeafTyped DEF Told, Run, Slept, Repost, Save, Executed, FetchSaved, Restore, Restored, thread, Leaf
<1>2. ~Executing(l) /\ ~Executing(l)'
  BY <1>1 DEF Executing
<1>3. commands_box'[l] = commands_box[l] /\ tmp_commands_box'[l] = tmp_commands_box[l]
  BY <1>1 DEF Told, Run, Slept, Repost, Save, Executed, FetchSaved, Restore, Restored, boxes, TypeOK
<1>4. conf' = conf /\ rest' = rest /\ target' = target
  BY DEF Told, Run, Slept, Repost, Save, Executed, FetchSaved, Restore, Restored, adding, history
<1>5. quiet'[l] = quiet[l]
  BY <1>1 DEF Told, Run, Slept, Repost, Save, Executed, FetchSaved, Restore, Restored, history, TypeOK
<1>6. xpc' = xpc \/ (xpc' # "idle" /\ xpc # "idle")
  BY DEF Told, Run, Slept, Repost, Save, Executed, FetchSaved, Restore, Restored, adding
<1>7. Giving(l)' <=> Giving(l)
  BY <1>4, <1>6 DEF Giving
<1> QED BY <1>2, <1>3, <1>4, <1>5, <1>7, CommandedKept

\* An execution begins with the list in the mailbox, and nothing saved.
LEMMA CommandedTold ==
  ASSUME TypeOK, Commanded(Leaf), Told
  PROVE  Commanded(Leaf)'
<1> DEFINE l == Leaf
<1>1. /\ l \in Leaves /\ Leaf' = Leaf /\ ~Executing(l) /\ Executing(l)' /\ pc' = "run"
      /\ ran' = <<>> /\ loop' = Single
      /\ UNCHANGED <<commands_box, tmp_commands_box, conf>>
      /\ quiet' = [quiet EXCEPT ![l] = @ /\ ~Giving(l)] /\ Giving(l)' = Giving(l)
  BY LeafTyped DEF Told, Executing, Leaf, boxes, Giving, adding
<1>2. /\ commands_box[l] \in Seq(Command) /\ tmp_commands_box[l] = <<>>
      /\ quiet'[l] <=> quiet[l] /\ ~Giving(l)
  BY <1>1, ListTyped DEF Commanded, TypeOK
<1>3. ASSUME quiet'[l], Plain(conf[l])
      PROVE  Whole(l)'
  <2>1. commands_box[l] = conf[l]
    BY <1>1, <1>2, <1>3 DEF Commanded, Whole
  <2>2. tmp_commands_box[l] \o commands_box[l] = conf[l] /\ ran' = tmp_commands_box[l]
    BY <1>1, <1>2, <2>1, ConcatEmptySeq
  <2> QED BY <1>1, <2>2 DEF Whole, Single
<1> QED BY <1>1, <1>2, <1>3 DEF Commanded

\* A step of an execution, while the commands of the leaf are whole.
LEMMA CommandedRun ==
  ASSUME TypeOK, Commanded(Leaf),
         Run \/ Slept \/ Repost \/ Save \/ Executed \/ FetchSaved \/ Restore
  PROVE  Commanded(Leaf)'
<1> DEFINE l == Leaf
           box == commands_box[l]
           saved == tmp_commands_box[l]
<1>1. /\ l \in Leaves /\ Leaf' = Leaf /\ Executing(l) /\ Executing(l)'
      /\ UNCHANGED <<conf, quiet, target, rest>>
  BY LeafTyped DEF Run, Slept, Repost, Save, Executed, FetchSaved, Restore, Executing, Leaf,
                   thread, adding, history
<1>2. xpc' = xpc \/ (xpc' # "idle" /\ xpc # "idle")
  BY DEF Run, Slept, Repost, Save, Executed, FetchSaved, Restore, adding
<1>3. Giving(l)' <=> Giving(l)
  BY <1>1, <1>2 DEF Giving
<1>4. ASSUME quiet[l], Plain(conf[l]) PROVE Whole(l)'
  <2>1. Whole(l) /\ loop.state = "SINGLE" /\ box \in Seq(Command) /\ saved \in Seq(Command)
    BY <1>1, <1>4, ListTyped DEF Commanded, Whole
  <2>2. CASE Run
    <3> DEFINE c == Head(box)
    <3>1. /\ box # <<>> /\ saved \o box = conf[l] /\ ran = saved
      BY <2>1, <2>2 DEF Run, Whole
    <3>2. /\ commands_box'[l] = Tail(box) /\ tmp_commands_box' = tmp_commands_box
          /\ command' = c /\ ran' = Append(saved, c)
          /\ loop' = LoopAfter(loop, c) /\ pc' \in {"sleep", "repost"}
      BY <1>1, <2>2, <3>1 DEF Run, TypeOK
    <3>3. Append(saved, c) \o Tail(box) = conf[l]
      BY <2>1, <3>1, MoveHead
    <3>4. c.kind # "loop"
      <4>1. \E k \in DOMAIN (saved \o box) : (saved \o box)[k] = c
        BY <2>1, <3>1, HeadIn
      <4> QED BY <1>4, <3>1, <4>1 DEF Plain
    <3>5. loop' = loop
      BY <3>2, <3>4 DEF LoopAfter
    <3> HIDE DEF c
    <3> QED BY <1>1, <2>1, <3>2, <3>3, <3>5 DEF Whole
  <2>3. CASE Slept
    BY <1>1, <2>1, <2>3 DEF Whole, Slept, thread, boxes, history
  <2>4. CASE Repost
    BY <1>1, <2>1, <2>4 DEF Whole, Repost, thread, history
  <2>5. CASE Save
    <3>1. /\ tmp_commands_box'[l] = Append(saved, command) /\ UNCHANGED <<commands_box, ran, loop>>
          /\ pc = "save" /\ pc' = "run"
      BY <1>1, <2>1, <2>5 DEF Save, Saves, thread, history, TypeOK
    <3> QED BY <1>1, <2>1, <3>1 DEF Whole
  <2>6. CASE Executed
    <3>1. /\ pc = "run" /\ pc' = "restore" /\ box = <<>>
          /\ UNCHANGED <<commands_box, tmp_commands_box, ran, loop>>
      BY <2>6 DEF Executed, thread, boxes, history
    <3>2. saved \o box = conf[l] /\ ran = saved
      BY <2>1, <3>1 DEF Whole
    <3>3. saved \o <<>> = saved /\ <<>> \o saved = saved
      BY <2>1, ConcatEmptySeq
    <3>4. box \o saved = conf[l] /\ ran = conf[l]
      BY <3>1, <3>2, <3>3
    <3> QED BY <1>1, <2>1, <3>1, <3>4 DEF Whole
  <2>7. CASE FetchSaved
    <3>1. /\ pc = "restore" /\ pc' = "post" /\ saved # <<>> /\ command' = Head(saved)
          /\ tmp_commands_box'[l] = Tail(saved) /\ UNCHANGED <<commands_box, ran, loop>>
      BY <1>1, <2>7 DEF FetchSaved, history, TypeOK
    <3>2. box \o saved = conf[l] /\ ran = conf[l]
      BY <2>1, <3>1 DEF Whole
    <3>3. Append(box, Head(saved)) \o Tail(saved) = conf[l]
      BY <2>1, <3>1, <3>2, MoveHead
    <3> QED BY <1>1, <2>1, <3>1, <3>2, <3>3 DEF Whole
  <2>8. CASE Restore
    <3>1. /\ pc = "post" /\ pc' = "restore" /\ commands_box'[l] = Append(box, command)
          /\ UNCHANGED <<tmp_commands_box, ran, loop>>
      BY <1>1, <2>8 DEF Restore, thread, history, TypeOK
    <3> QED BY <1>1, <2>1, <3>1 DEF Whole
  <2> QED BY <2>2, <2>3, <2>4, <2>5, <2>6, <2>7, <2>8
<1> QED BY <1>1, <1>3, <1>4 DEF Commanded

\* An execution ends with the list in the mailbox again.
LEMMA CommandedRestored ==
  ASSUME TypeOK, Commanded(Leaf), Restored
  PROVE  Commanded(Leaf)'
<1> DEFINE l == Leaf
<1>1. /\ l \in Leaves /\ Leaf' = Leaf /\ pc = "restore" /\ Executing(l) /\ ~Executing(l)'
      /\ tmp_commands_box[l] = <<>>
      /\ UNCHANGED <<commands_box, tmp_commands_box, conf, quiet, rest>>
      /\ Giving(l)' = Giving(l) /\ pc' = "rest"
  BY LeafTyped DEF Restored, Executing, Leaf, boxes, Giving, adding
<1>2. ASSUME quiet[l], Plain(conf[l]) PROVE Whole(l)'
  <2>1. ~Giving(l) /\ commands_box[l] \o <<>> = conf[l] /\ commands_box[l] \in Seq(Command)
    BY <1>1, <1>2, ListTyped DEF Commanded, Whole
  <2>2. commands_box[l] = conf[l]
    BY <2>1, ConcatEmptySeq
  <2> QED BY <1>1, <2>1, <2>2 DEF Whole
<1> QED BY <1>1, <1>2 DEF Commanded

\* A leaf that is given a list, command by command, has it whole at the end; the others are
\* not concerned.
LEMMA CommandedGiven ==
  ASSUME TypeOK, NEW l \in Leaves, Commanded(l),
         (\E m \in Leaves, list \in Lists : Add(m, list)) \/ AddCommand \/ Added
  PROVE  Commanded(l)'
<1>1. CASE \E m \in Leaves, list \in Lists : Add(m, list)
  <2>1. PICK m \in Leaves, list \in Lists : Add(m, list)
    BY <1>1
  <2>2. /\ xpc = "idle" /\ xpc' = "add" /\ target' = m /\ rest' = list /\ Leaf' = Leaf
        /\ commands_box' = [commands_box EXCEPT ![m] = <<>>] /\ tmp_commands_box' = tmp_commands_box
        /\ conf' = [conf EXCEPT ![m] = list] /\ quiet' = [quiet EXCEPT ![m] = ~Executing(m)]
        /\ pc' = AfterReset(m) /\ UNCHANGED <<loop, command, ran>>
    BY <2>1 DEF Add, Leaf, thread
  <2>3. pc' = pc \/ (m = Leaf /\ pc \in InExecution /\ pc' \in InExecution)
    BY <2>2 DEF AfterReset, InExecution
  <2>4. Executing(l)' <=> Executing(l)
    BY <2>2, <2>3 DEF Executing, InExecution
  <2>5. CASE l = m
    <3>1. list \in Seq(Command)
      BY ListsAssumption
    <3>2. /\ commands_box'[l] = <<>> /\ conf'[l] = list /\ Giving(l)'
          /\ quiet'[l] <=> ~Executing(l)
      BY <2>2, <2>5 DEF TypeOK, Giving
    <3>3. <<>> \o list = list
      BY <3>1, ConcatEmptySeq
    <3>4. ASSUME ~Executing(l) PROVE Whole(l)'
      <4>1. commands_box'[l] \o rest' = conf'[l]
        BY <2>2, <3>2, <3>3
      <4>2. (l = Leaf)' => pc' \notin InExecution
        BY <2>4, <3>4 DEF Executing, InExecution
      <4> QED BY <2>4, <3>2, <3>4, <4>1, <4>2 DEF Whole, InExecution
    <3> QED BY <2>2, <2>4, <3>2, <3>4 DEF Commanded
  <2>6. CASE l # m
    <3>1. /\ commands_box'[l] = commands_box[l] /\ conf'[l] = conf[l] /\ quiet'[l] = quiet[l]
          /\ ~Giving(l) /\ ~Giving(l)'
      BY <2>2, <2>6 DEF TypeOK, Giving
    <3>2. (l = Leaf)' <=> l = Leaf
      BY <2>2
    <3>3. l = Leaf => pc' = pc
      BY <2>3, <2>6
    <3>4. Whole(l) => Whole(l)'
      BY <2>2, <2>4, <3>1, <3>2, <3>3 DEF Whole
    <3> QED BY <2>2, <2>4, <3>1, <3>4 DEF Commanded
  <2> QED BY <2>5, <2>6
<1>2. CASE AddCommand \/ Added
  <2>1. /\ UNCHANGED <<pc, loop, command, ran, tmp_commands_box, conf, quiet, target>>
        /\ Leaf' = Leaf /\ xpc # "idle" /\ target \in Leaves
        /\ commands_box' = commands_box \/ \E e : commands_box' = [commands_box EXCEPT ![target] = e]
    BY <1>2 DEF AddCommand, Added, Leaf, thread, boxes, history, TypeOK
  <2>2. UNCHANGED Executing(l)
    BY <2>1 DEF Executing
  <2>3. CASE l # target
    <3>1. commands_box'[l] = commands_box[l] /\ ~Giving(l) /\ ~Giving(l)'
      BY <2>1, <2>3 DEF Giving, TypeOK
    <3>2. Whole(l) => Whole(l)'
      BY <2>1, <2>2, <3>1 DEF Whole
    <3> QED BY <2>1, <2>2, <3>1, <3>2 DEF Commanded
  <2>4. CASE l = target
    <3>1. Giving(l) /\ (quiet[l] => ~Executing(l))
      BY <2>1, <2>4 DEF Giving, Commanded
    <3>2. ASSUME quiet[l], Plain(conf[l]) PROVE Whole(l)'
      <4>1. /\ commands_box[l] \o rest = conf[l] /\ ~Executing(l) /\ ~Executing(l)'
            /\ commands_box[l] \in Seq(Command) /\ rest \in Seq(Command)
        BY <2>2, <3>1, <3>2, ListTyped DEF Commanded, Whole, TypeOK
      <4>2. (Giving(l)' /\ commands_box'[l] \o rest' = conf[l])
              \/ (~Giving(l)' /\ commands_box'[l] = conf[l])
        <5>1. CASE AddCommand
          <6>1. Giving(l)' /\ rest # <<>>
            BY <2>1, <2>4, <5>1 DEF AddCommand, Giving, TypeOK
          <6>2. CASE commands_box' = [commands_box EXCEPT ![target] = Append(@, Head(rest))] /\ rest' = Tail(rest)
            <7>1. commands_box'[l] = Append(commands_box[l], Head(rest))
              BY <2>4, <6>2 DEF TypeOK
            <7>2. Append(commands_box[l], Head(rest)) \o Tail(rest) = conf[l]
              BY <4>1, <6>1, MoveHead
            <7> QED BY <6>1, <6>2, <7>1, <7>2
          <6>3. CASE UNCHANGED <<commands_box, rest>>
            BY <4>1, <6>1, <6>3
          <6> QED BY <5>1, <6>2, <6>3 DEF AddCommand
        <5>2. CASE Added
          <6>1. rest = <<>> /\ ~Giving(l)' /\ commands_box' = commands_box
            BY <5>2 DEF Added, Giving, boxes
          <6>2. commands_box[l] \o <<>> = commands_box[l]
            BY <4>1, ConcatEmptySeq
          <6> QED BY <4>1, <6>1, <6>2
        <5> QED BY <1>2, <5>1, <5>2
      <4>3. (l = Leaf)' => pc' \notin InExecution
        BY <4>1 DEF Executing, InExecution
      <4> QED BY <2>1, <4>1, <4>2, <4>3 DEF Whole, InExecution
    <3> QED BY <2>1, <2>2, <3>1, <3>2 DEF Commanded
  <2> QED BY <2>3, <2>4
<1> QED BY <1>1, <1>2

LEMMA CommandedStep ==
  ASSUME TypeOK, \A l \in Leaves : Commanded(l), [Next]_vars
  PROVE  \A l \in Leaves : Commanded(l)'
<1> SUFFICES ASSUME NEW l \in Leaves PROVE Commanded(l)'
  OBVIOUS
<1>1. Commanded(l)
  OBVIOUS
<1>2. CASE (\E s \in Sensors : Measured(s)) \/ FetchSensor \/ ReadStatus \/ StatusError
             \/ Acquire \/ AcquireError \/ Rested \/ UNCHANGED vars
  BY <1>1, <1>2, CommandedDevice
<1>3. CASE Told \/ Run \/ Slept \/ Repost \/ Save \/ Executed \/ FetchSaved \/ Restore \/ Restored
  <2>1. CASE l # Leaf
    BY <1>1, <1>3, <2>1, CommandedOther
  <2>2. CASE l = Leaf
    <3>1. Commanded(Leaf) /\ Leaf' = Leaf
      BY <1>1, <1>3, <2>2 DEF Told, Run, Slept, Repost, Save, Executed, FetchSaved, Restore,
                              Restored, thread, Leaf
    <3>2. Commanded(Leaf)'
      BY <1>3, <3>1, CommandedTold, CommandedRun, CommandedRestored
    <3>3. l = Leaf'
      BY <2>2, <3>1
    <3> QED BY <3>2, <3>3
  <2> QED BY <2>1, <2>2
<1>4. CASE (\E m \in Leaves, list \in Lists : Add(m, list)) \/ AddCommand \/ Added
  BY <1>1, <1>4, CommandedGiven
<1> QED BY <1>2, <1>3, <1>4 DEF Next, Fdc

LEMMA CommandedInit == Init => \A l \in Leaves : Commanded(l)
<1> SUFFICES ASSUME Init, NEW l \in Leaves PROVE Commanded(l)
  OBVIOUS
<1>1. /\ ~Executing(l) /\ ~Giving(l) /\ commands_box[l] = <<>> /\ tmp_commands_box[l] = <<>>
      /\ conf[l] = <<>> /\ pc = "fetch"
  BY DEF Init, Executing, Giving
<1> QED BY <1>1 DEF Commanded, Whole

----------------------------------------------------------------------------
(* The lists with a loop.  While it runs, what is left of the list is in   *)
(* the mailbox, with what the loop has posted again to it.                 *)

\* list is before and then body, which begins with its only loop.
LoopAt(list, before, body) ==
  /\ list = before \o body /\ body # <<>> /\ Head(body).kind = "loop"
  /\ Plain(before) /\ Plain(Tail(body))

\* done is list up to its loop, t turns of it and p, which q completes to another one.
Turn(list, done, t, p, q) ==
  /\ p # <<>>
  /\ \E before, d \in Seq(Command) :
       /\ LoopAt(list, before, p \o q)
       /\ Turns(d, before, p \o q, t) /\ done = d \o p

\* The commands done and those of the mailbox, before, in, and in the last turn of the loop.
Straight(list, done, box, lp) ==
  lp.state = "SINGLE" /\ done \o box = list /\ Plain(done)

Turning(list, done, box, lp) ==
  \E p, q \in Seq(Command), t \in Nat :
    /\ lp.state = "LOOP" /\ Turn(list, done, t, p, q) /\ box = q \o p
    /\ lp.count > 0 => lp.count = Head(p).value - t - 1

LastTurn(list, done, box, lp) ==
  \E p, q \in Seq(Command), t \in Nat :
    /\ lp.state = "SINGLE" /\ Turn(list, done, t, p, q) /\ box = q
    /\ t + 1 = Head(p).value

Unrolling(list, done, box, lp) ==
  Straight(list, done, box, lp) \/ Turning(list, done, box, lp) \/ LastTurn(list, done, box, lp)

\* The mailbox after a command, which a loop posts again.
BoxAfter(box, c, lp) == IF lp.state = "LOOP" THEN Append(box, c) ELSE box

LEMMA TurnsNone == ASSUME NEW s \in Seq(Command), NEW body PROVE Turns(s, s, body, 0)
<1>1. Len(s) \in Nat
  BY LenProperties
<1>2. 0 * Len(body) = 0 /\ Len(s) + 0 = Len(s) /\ 0 .. 0 - 1 = {}
  BY <1>1
<1> QED BY <1>2 DEF Turns

\* A turn more.
LEMMA TurnsNext ==
  ASSUME NEW d \in Seq(Command), NEW before \in Seq(Command), NEW body \in Seq(Command),
         NEW t \in Nat, Turns(d, before, body, t)
  PROVE  Turns(d \o body, before, body, t + 1)
<1> DEFINE n == Len(before)
           m == Len(body)
           k == Len(d)
           tm == t * m
<1>1. n \in Nat /\ m \in Nat /\ k \in Nat /\ tm \in Nat
  BY LenProperties
<1>2. k = n + tm /\ (t + 1) * m = tm + m
  BY <1>1 DEF Turns
<1>3. /\ Len(d \o body) = k + m
      /\ \A i \in 1 .. k + m : (d \o body)[i] = IF i <= k THEN d[i] ELSE body[i - k]
  BY ConcatProperties
<1>4. \A j \in 1..n : d[j] = before[j]
  BY DEF Turns
<1>5. \A u \in 0 .. t - 1, j \in 1..m : d[n + u * m + j] = body[j]
  BY DEF Turns
<1>6. ASSUME NEW u \in 0 .. t - 1 PROVE u * m + m <= tm /\ u * m \in Nat
  <2>1. (t - 1) - u \in Nat /\ u \in Nat
    OBVIOUS
  <2>2. ((t - 1) - u) * m \in Nat
    BY <1>1, <2>1
  <2>3. ((t - 1) - u) * m = t * m - m - u * m
    BY <1>1, <2>1
  <2> QED BY <1>1, <2>1, <2>2, <2>3
<1>7. Len(d \o body) = n + (t + 1) * m
  BY <1>1, <1>2, <1>3
<1>8. ASSUME NEW j \in 1..n PROVE (d \o body)[j] = before[j]
  <2>1. j \in 1 .. k + m /\ j <= k
    BY <1>1, <1>2
  <2> QED BY <1>3, <1>4, <2>1
<1>9. ASSUME NEW u \in 0 .. (t + 1) - 1, NEW j \in 1..m
      PROVE  (d \o body)[n + u * m + j] = body[j]
  <2>1. CASE u \in 0 .. t - 1
    <3> DEFINE i == n + u * m + j
    <3>1. u * m + m <= tm /\ u * m \in Nat
      BY <1>6, <2>1
    <3>2. d[i] = body[j]
      BY <1>5, <2>1
    <3>3. i \in 1 .. k + m /\ i <= k
      <4> DEFINE um == u * m
      <4>1. um + m <= tm /\ um \in Nat
        BY <3>1
      <4> HIDE DEF um, tm, n, m, k
      <4>2. n + um + j \in 1 .. k + m /\ n + um + j <= k
        BY <1>1, <1>2, <4>1
      <4> QED BY <4>2 DEF um
    <3> HIDE DEF i
    <3>4. (d \o body)[i] = body[j]
      BY <1>3, <3>2, <3>3
    <3> QED BY <3>4 DEF i
  <2>2. CASE u = t
    <3> DEFINE i == n + u * m + j
    <3>1. i = k + j
      BY <1>2, <2>2
    <3>2. i \in 1 .. k + m /\ ~(i <= k) /\ i - k = j
      <4> HIDE DEF i, n, m, k
      <4> QED BY <1>1, <3>1
    <3> HIDE DEF i
    <3>3. (d \o body)[i] = body[j]
      BY <1>3, <3>2
    <3> QED BY <3>3 DEF i
  <2>3. u \in 0 .. t - 1 \/ u = t
    OBVIOUS
  <2> QED BY <2>1, <2>2, <2>3
<1> QED BY <1>7, <1>8, <1>9 DEF Turns

\* The end of a list of which the loop has done all its turns.
LEMMA UnrollsLoop ==
  ASSUME NEW list \in Seq(Command), NEW before \in Seq(Command), NEW body \in Seq(Command),
         LoopAt(list, before, body), NEW s, Turns(s, before, body, Head(body).value)
  PROVE  Unrolls(s, list)
<1> DEFINE n == Len(before)
           m == Len(body)
           k == n + 1
<1>1. /\ n \in Nat /\ m \in Nat \ {0} /\ Head(body) = body[1] /\ Len(list) = n + m
      /\ list = before \o body
      /\ \A i \in 1 .. n + m : list[i] = IF i <= n THEN before[i] ELSE body[i - n]
  <2>1. list = before \o body /\ body # <<>>
    BY DEF LoopAt
  <2>2. n \in Nat
    BY LenProperties
  <2>3. m \in Nat \ {0} /\ Head(body) = body[1]
    BY <2>1, BoxTail
  <2>4. /\ Len(before \o body) = n + m
        /\ \A i \in 1 .. n + m :
             (before \o body)[i] = IF i <= n THEN before[i] ELSE body[i - n]
    BY ConcatProperties
  <2> QED BY <2>1, <2>2, <2>3, <2>4
<1>2. k \in 1 .. n + m /\ ~(k <= n) /\ k - n = 1 /\ k - 1 = n /\ k \in DOMAIN list
  <2>1. DOMAIN list = 1 .. n + m
    BY <1>1, LenProperties
  <2> HIDE DEF n, m
  <2> QED BY <1>1, <2>1
<1>3. list[k] = Head(body)
  BY <1>1, <1>2
<1>4. \A i \in 1 .. n + m : list[i] \in Command
  BY <1>1, ElementOfSeq
<1>5. SubSeq(list, 1, k - 1) = before
  <2> DEFINE w == SubSeq(list, 1, n)
  <2>1. \A i \in 1..n : list[i] \in Command /\ i \in 1 .. n + m /\ i <= n
    BY <1>1, <1>4
  <2>2. w \in Seq(Command) /\ Len(w) = n /\ \A i \in 1..n : w[i] = list[i]
    <3>1. /\ w \in Seq(Command) /\ Len(w) = IF 1 <= n THEN n - 1 + 1 ELSE 0
          /\ \A i \in 1 .. n - 1 + 1 : w[i] = list[1 + i - 1]
      BY <1>1, <2>1, SubSeqProperties
    <3> HIDE DEF w, n, m
    <3> QED BY <1>1, <3>1
  <2>3. \A i \in 1..n : w[i] = before[i]
    BY <1>1, <2>1, <2>2
  <2> HIDE DEF w
  <2>4. w = before
    BY <2>2, <2>3, SeqEqual
  <2> QED BY <1>2, <2>4 DEF w
<1>6. SubSeq(list, k, Len(list)) = body
  <2> DEFINE w == SubSeq(list, k, n + m)
  <2>1. \A i \in k .. n + m : list[i] \in Command
    BY <1>1, <1>2, <1>4
  <2>2. w \in Seq(Command) /\ Len(w) = m /\ \A i \in 1..m : w[i] = list[k + i - 1]
    <3>1. k \in Int /\ n + m \in Int
      BY <1>1
    <3>2. /\ w \in Seq(Command) /\ Len(w) = IF k <= n + m THEN (n + m) - k + 1 ELSE 0
          /\ \A i \in 1 .. (n + m) - k + 1 : w[i] = list[k + i - 1]
      BY <2>1, <3>1, SubSeqProperties
    <3>3. (n + m) - k + 1 = m /\ k <= n + m
      <4> HIDE DEF n, m
      <4> QED BY <1>1
    <3> QED BY <3>2, <3>3
  <2>3. ASSUME NEW i \in 1..m PROVE w[i] = body[i]
    <3>1. /\ k + i - 1 \in 1 .. n + m /\ ~(k + i - 1 <= n) /\ (k + i - 1) - n = i
      <4> HIDE DEF n, m
      <4> QED BY <1>1
    <3> QED BY <1>1, <2>2, <3>1
  <2> HIDE DEF w
  <2>4. w = body
    BY <2>2, <2>3, SeqEqual
  <2> QED BY <1>1, <2>4 DEF w
<1> HIDE DEF k
<1>7. /\ list[k].kind = "loop"
      /\ Turns(s, SubSeq(list, 1, k - 1), SubSeq(list, k, Len(list)), list[k].value)
  BY <1>3, <1>5, <1>6 DEF LoopAt
<1> QED BY <1>2, <1>7 DEF Unrolls

\* An execution ends when its mailbox is empty: a loop that still turns has the commands of
\* its turn in it.
LEMMA UnrollingEnd ==
  ASSUME NEW list \in Seq(Command), NEW done \in Seq(Command), NEW lp,
         Unrolling(list, done, <<>>, lp)
  PROVE  Unrolls(done, list)
<1>1. CASE Straight(list, done, <<>>, lp)
  <2>1. done = list /\ Plain(list)
    BY <1>1, ConcatEmptySeq DEF Straight
  <2> QED BY <2>1 DEF Unrolls
<1>2. CASE Turning(list, done, <<>>, lp)
  <2>1. PICK p \in Seq(Command), q \in Seq(Command) : q \o p = <<>> /\ p # <<>>
    BY <1>2 DEF Turning, Turn
  <2> QED BY <2>1, ConcatEqualIffEmpty
<1>3. CASE LastTurn(list, done, <<>>, lp)
  <2>1. PICK p \in Seq(Command), q \in Seq(Command), t \in Nat :
          Turn(list, done, t, p, q) /\ q = <<>> /\ t + 1 = Head(p).value
    BY <1>3 DEF LastTurn
  <2>2. p \o q = p
    BY <2>1, ConcatEmptySeq
  <2>3. PICK before \in Seq(Command), d \in Seq(Command) :
          LoopAt(list, before, p) /\ Turns(d, before, p, t) /\ done = d \o p
    BY <2>1, <2>2 DEF Turn
  <2>4. Turns(done, before, p, Head(p).value)
    BY <2>1, <2>3, TurnsNext
  <2> QED BY <2>3, <2>4, UnrollsLoop
<1> QED BY <1>1, <1>2, <1>3 DEF Unrolling

\* What follows the first command of a list is what follows it in the part it begins.
LEMMA TailOfConcat ==
  ASSUME NEW p \in Seq(Command), NEW q \in Seq(Command), p # <<>>
  PROVE  /\ Tail(p \o q) = Tail(p) \o q /\ Head(p \o q) = Head(p)
         /\ Tail(p) \in Seq(Command) /\ Head(p) \in Command /\ p = <<Head(p)>> \o Tail(p)
<1>1. /\ Tail(p) \in Seq(Command) /\ Head(p) \in Command /\ <<Head(p)>> \in Seq(Command)
      /\ p = <<Head(p)>> \o Tail(p)
  BY HeadTailProperties
<1>2. p \o q = <<Head(p)>> \o (Tail(p) \o q)
  BY <1>1, ConcatAssociative
<1>3. Tail(p) \o q \in Seq(Command)
  BY <1>1, ConcatProperties
<1>4. Tail(<<Head(p)>> \o (Tail(p) \o q)) = Tail(p) \o q
  BY <1>1, <1>3
<1>5. Head(<<Head(p)>> \o (Tail(p) \o q)) = Head(p)
  BY <1>1, <1>3
<1> QED BY <1>1, <1>2, <1>4, <1>5

\* In a turn, a command more.
LEMMA TurnMore ==
  ASSUME NEW list \in Seq(Command), NEW done \in Seq(Command), NEW t \in Nat,
         NEW p \in Seq(Command), NEW q \in Seq(Command), q # <<>>, Turn(list, done, t, p, q)
  PROVE  /\ Head(q) \in Command /\ Head(q).kind # "loop"
         /\ Append(p, Head(q)) \in Seq(Command) /\ Tail(q) \in Seq(Command)
         /\ Turn(list, Append(done, Head(q)), t, Append(p, Head(q)), Tail(q))
         /\ Head(Append(p, Head(q))) = Head(p)
<1> DEFINE c == Head(q)
<1>1. c \in Command /\ Tail(q) \in Seq(Command) /\ Append(p, c) \in Seq(Command) /\ Append(p, c) # <<>>
  BY HeadTailProperties, AppendProperties
<1>2. Append(p, c) \o Tail(q) = p \o q
  BY MoveHead
<1>3. PICK before \in Seq(Command), d \in Seq(Command) :
        LoopAt(list, before, p \o q) /\ Turns(d, before, p \o q, t) /\ done = d \o p
  BY DEF Turn
<1>4. Append(done, c) = d \o Append(p, c)
  <2>1. c \in Command
    BY <1>1
  <2> HIDE DEF c
  <2> DEFINE w == <<c>>
  <2>2. w \in Seq(Command)
    BY <2>1
  <2>3. Append(done, c) = (d \o p) \o w /\ Append(p, c) = p \o w
    BY <1>3, <2>1, AppendIsConcat
  <2> HIDE DEF w
  <2>4. (d \o p) \o w = d \o (p \o w)
    BY <2>2, ConcatAssociative, SMTT(30)
  <2> QED BY <2>3, <2>4
<1>5. c.kind # "loop"
  <2>1. p # <<>>
    BY DEF Turn
  <2>2. Tail(p) \in Seq(Command) /\ Plain(Tail(p) \o q)
    BY <1>3, <2>1, TailOfConcat DEF LoopAt
  <2>3. \E k \in DOMAIN (Tail(p) \o q) : (Tail(p) \o q)[k] = c
    BY <2>2, HeadIn
  <2> QED BY <2>2, <2>3 DEF Plain
<1>6. Head(Append(p, c)) = Head(p)
  <2>1. p # <<>>
    BY DEF Turn
  <2> QED BY <2>1, HeadTailAppend
<1> HIDE DEF c
<1>7. Turn(list, Append(done, c), t, Append(p, c), Tail(q))
  BY <1>1, <1>2, <1>3, <1>4 DEF Turn
<1> QED BY <1>1, <1>5, <1>6, <1>7 DEF c

\* The first command of a turn, t turns after the commands before the loop.
LEMMA TurnBegins ==
  ASSUME NEW list \in Seq(Command), NEW before \in Seq(Command), NEW body \in Seq(Command),
         LoopAt(list, before, body), NEW t \in Nat, NEW done \in Seq(Command),
         Turns(done, before, body, t)
  PROVE  /\ Head(body) \in Command /\ <<Head(body)>> \in Seq(Command) /\ Tail(body) \in Seq(Command)
         /\ Turn(list, Append(done, Head(body)), t, <<Head(body)>>, Tail(body))
         /\ Append(Tail(body), Head(body)) = Tail(body) \o <<Head(body)>>
<1> DEFINE c == Head(body)
<1>1. /\ c \in Command /\ <<c>> \in Seq(Command) /\ Tail(body) \in Seq(Command)
      /\ body = <<c>> \o Tail(body)
  BY HeadTailProperties, TailOfConcat DEF LoopAt
<1>2. Append(done, c) = done \o <<c>> /\ Append(Tail(body), c) = Tail(body) \o <<c>>
  BY <1>1, AppendIsConcat
<1>3. <<c>> # <<>>
  OBVIOUS
<1> HIDE DEF c
<1>4. Turn(list, Append(done, c), t, <<c>>, Tail(body))
  BY <1>1, <1>2, <1>3 DEF Turn
<1> QED BY <1>1, <1>2, <1>4 DEF c

\* Before the loop, a command more, or the loop begins.
LEMMA StraightRun ==
  ASSUME NEW list \in Seq(Command), NEW done \in Seq(Command), NEW box \in Seq(Command),
         NEW lp \in Loops, OneLoop(list), Straight(list, done, box, lp), box # <<>>,
         NEW c, c = Head(box), NEW next, next = LoopAfter(lp, c)
  PROVE  Unrolling(list, Append(done, c), BoxAfter(Tail(box), c, next), next)
<1>1. /\ c \in Command /\ Tail(box) \in Seq(Command) /\ Append(done, c) \in Seq(Command)
      /\ done \o box = list /\ Plain(done) /\ lp.state = "SINGLE"
  BY HeadTailProperties, AppendProperties DEF Straight
<1>2. CASE c.kind # "loop"
  <2>1. next = lp /\ BoxAfter(Tail(box), c, next) = Tail(box)
    BY <1>1, <1>2 DEF LoopAfter, BoxAfter
  <2>2. Append(done, c) \o Tail(box) = list
    BY <1>1, MoveHead
  <2>3. Plain(Append(done, c))
    <3> DEFINE n == Len(done)
    <3>1. /\ DOMAIN Append(done, c) = 1 .. n + 1 /\ DOMAIN done = 1..n /\ n \in Nat
          /\ \A k \in 1..n : Append(done, c)[k] = done[k]
          /\ Append(done, c)[n + 1] = c
      BY <1>1, LenProperties, BoxAppend
    <3> HIDE DEF n
    <3> SUFFICES ASSUME NEW k \in 1 .. n + 1 PROVE Append(done, c)[k].kind # "loop"
      BY <3>1 DEF Plain
    <3>2. CASE k \in 1..n
      BY <1>1, <3>1, <3>2 DEF Plain
    <3>3. CASE k = n + 1
      BY <1>2, <3>1, <3>3
    <3> QED BY <3>1, <3>2, <3>3
  <2> QED BY <1>1, <2>1, <2>2, <2>3 DEF Unrolling, Straight
<1>3. CASE c.kind = "loop"
  <2>1. Plain(Tail(box))
    <3> DEFINE n == Len(done)
               m == Len(box)
    <3>1. /\ n \in Nat /\ m \in Nat \ {0} /\ c = box[1] /\ DOMAIN list = 1 .. n + m
          /\ \A i \in 1 .. n + m : list[i] = IF i <= n THEN done[i] ELSE box[i - n]
      <4>1. /\ Len(done \o box) = n + m
            /\ \A i \in 1 .. n + m : (done \o box)[i] = IF i <= n THEN done[i] ELSE box[i - n]
        BY ConcatProperties
      <4>2. n \in Nat /\ m \in Nat \ {0} /\ c = box[1]
        BY LenProperties, BoxTail
      <4>3. list = done \o box /\ DOMAIN list = 1 .. Len(list)
        BY <1>1, LenProperties
      <4> QED BY <4>1, <4>2, <4>3
    <3>2. DOMAIN Tail(box) = 1 .. m - 1 /\ \A k \in 1 .. m - 1 : Tail(box)[k] = box[k + 1]
      <4>1. Len(Tail(box)) = m - 1 /\ \A k \in 1 .. Len(Tail(box)) : Tail(box)[k] = box[k + 1]
        BY BoxTail
      <4>2. DOMAIN Tail(box) = 1 .. Len(Tail(box))
        BY <1>1, LenProperties
      <4> QED BY <4>1, <4>2
    <3> HIDE DEF n, m
    <3> SUFFICES ASSUME NEW k \in 1 .. m - 1, Tail(box)[k].kind = "loop" PROVE FALSE
      BY <3>2 DEF Plain
    <3>3. /\ n + 1 \in 1 .. n + m /\ ~(n + 1 <= n) /\ (n + 1) - n = 1
          /\ n + k + 1 \in 1 .. n + m /\ ~(n + k + 1 <= n) /\ (n + k + 1) - n = k + 1
          /\ n + 1 # n + k + 1
      BY <3>1
    <3>4. list[n + 1] = c /\ list[n + k + 1] = Tail(box)[k]
      BY <3>1, <3>2, <3>3
    <3> QED BY <1>3, <3>1, <3>3, <3>4 DEF OneLoop
  <2>2. LoopAt(list, done, box)
    BY <1>1, <1>3, <2>1 DEF LoopAt
  <2>3. Turns(done, done, box, 0)
    BY TurnsNone
  <2>4. /\ Turn(list, Append(done, c), 0, <<c>>, Tail(box)) /\ <<c>> \in Seq(Command)
        /\ Append(Tail(box), c) = Tail(box) \o <<c>>
    BY <2>2, <2>3, TurnBegins
  <2>5. next.state = "LOOP" /\ (next.count > 0 => next.count = c.value - 0 - 1)
    <3>1. c.value \in Nat
      BY <1>1 DEF Command
    <3>2. next = [count |-> Countdown(c.value), first_turn |-> TRUE, state |-> "LOOP"]
      BY <1>1, <1>3 DEF LoopAfter
    <3>3. Countdown(c.value) > 0 => Countdown(c.value) = c.value - 0 - 1
      BY <3>1 DEF Countdown
    <3> QED BY <3>2, <3>3
  <2>6. BoxAfter(Tail(box), c, next) = Tail(box) \o <<c>> /\ Head(<<c>>) = c
    BY <2>4, <2>5 DEF BoxAfter
  <2>7. Turning(list, Append(done, c), BoxAfter(Tail(box), c, next), next)
    <3>1. /\ next.state = "LOOP" /\ Turn(list, Append(done, c), 0, <<c>>, Tail(box))
          /\ BoxAfter(Tail(box), c, next) = Tail(box) \o <<c>>
          /\ next.count > 0 => next.count = Head(<<c>>).value - 0 - 1
      BY <2>4, <2>5, <2>6
    <3>2. <<c>> \in Seq(Command) /\ Tail(box) \in Seq(Command) /\ 0 \in Nat
      BY <1>1
    <3> QED BY <3>1, <3>2 DEF Turning
  <2> QED BY <2>7 DEF Unrolling
<1> QED BY <1>2, <1>3

\* In a turn of the loop, a command more; after it the next turn begins, or the last.
LEMMA TurningRun ==
  ASSUME NEW list \in Seq(Command), NEW done \in Seq(Command), NEW box \in Seq(Command),
         NEW lp \in Loops, Turning(list, done, box, lp),
         NEW c, c = Head(box), NEW next, next = LoopAfter(lp, c)
  PROVE  Unrolling(list, Append(done, c), BoxAfter(Tail(box), c, next), next)
<1>1. PICK p \in Seq(Command), q \in Seq(Command), t \in Nat :
        /\ lp.state = "LOOP" /\ Turn(list, done, t, p, q) /\ box = q \o p
        /\ lp.count > 0 => lp.count = Head(p).value - t - 1
  BY DEF Turning
<1>2. p # <<>>
  BY <1>1 DEF Turn
<1>3. CASE q # <<>>
  <2>1. /\ c = Head(q) /\ Tail(box) = Tail(q) \o p
    BY <1>1, <1>3, TailOfConcat
  <2>2. /\ c \in Command /\ c.kind # "loop" /\ Append(p, c) \in Seq(Command) /\ Tail(q) \in Seq(Command)
        /\ Turn(list, Append(done, c), t, Append(p, c), Tail(q)) /\ Head(Append(p, c)) = Head(p)
    BY <1>1, <1>3, <2>1, TurnMore
  <2>3. next = lp
    BY <2>2 DEF LoopAfter
  <2>4. BoxAfter(Tail(box), c, next) = Tail(q) \o Append(p, c)
    <3> DEFINE w == <<c>>
               r == Tail(q)
    <3>1. w \in Seq(Command) /\ r \in Seq(Command) /\ r \o p \in Seq(Command)
      BY <2>2, ConcatProperties
    <3>2. Append(r \o p, c) = (r \o p) \o w /\ Append(p, c) = p \o w
      BY <2>2, <3>1, AppendIsConcat
    <3> HIDE DEF w, r
    <3>3. (r \o p) \o w = r \o (p \o w)
      BY <3>1, ConcatAssociative, SMTT(30)
    <3> QED BY <1>1, <2>1, <2>3, <3>2, <3>3 DEF BoxAfter, r
  <2>5. Turning(list, Append(done, c), BoxAfter(Tail(box), c, next), next)
    <3>1. /\ next.state = "LOOP" /\ Turn(list, Append(done, c), t, Append(p, c), Tail(q))
          /\ BoxAfter(Tail(box), c, next) = Tail(q) \o Append(p, c)
          /\ next.count > 0 => next.count = Head(Append(p, c)).value - t - 1
      BY <1>1, <2>2, <2>3, <2>4
    <3> QED BY <2>2, <3>1 DEF Turning
  <2> QED BY <2>5 DEF Unrolling
<1>4. CASE q = <<>>
  <2>1. box = p /\ p \o q = p
    BY <1>1, <1>4, ConcatEmptySeq
  <2>2. PICK before \in Seq(Command), d \in Seq(Command) :
          LoopAt(list, before, p) /\ Turns(d, before, p, t) /\ done = d \o p
    BY <1>1, <2>1 DEF Turn
  <2>3. Turns(done, before, p, t + 1) /\ t + 1 \in Nat
    BY <2>2, TurnsNext
  <2>4. /\ c \in Command /\ <<c>> \in Seq(Command) /\ Tail(p) \in Seq(Command)
        /\ Turn(list, Append(done, c), t + 1, <<c>>, Tail(p))
        /\ Append(Tail(p), c) = Tail(p) \o <<c>> /\ Head(<<c>>) = c
    <3>1. /\ Head(p) \in Command /\ <<Head(p)>> \in Seq(Command) /\ Tail(p) \in Seq(Command)
          /\ Turn(list, Append(done, Head(p)), t + 1, <<Head(p)>>, Tail(p))
          /\ Append(Tail(p), Head(p)) = Tail(p) \o <<Head(p)>>
      BY <2>2, <2>3, TurnBegins
    <3> QED BY <2>1, <3>1
  <2>5. c.kind = "loop" /\ c = Head(p) /\ c.value \in Nat
    BY <2>1, <2>2, <2>4 DEF LoopAt, Command
  <2> DEFINE n == Countdown(lp.count)
  <2>6. next = [count |-> n, first_turn |-> FALSE, state |-> IF n = 0 THEN "SINGLE" ELSE "LOOP"]
    BY <1>1, <2>5 DEF LoopAfter
  <2>7. /\ n > 0 => n = c.value - (t + 1) - 1
        /\ n = 0 => (t + 1) + 1 = c.value
    <3>1. lp.count \in Nat \cup {-1}
      BY DEF Loops
    <3>2. CASE lp.count > 0
      <4>1. n = lp.count - 1 /\ lp.count = c.value - t - 1
        BY <1>1, <2>5, <3>2 DEF Countdown
      <4> DEFINE v == c.value
                 m == lp.count
      <4>2. v \in Nat /\ n = m - 1 /\ m = v - t - 1
        BY <2>5, <4>1
      <4> HIDE DEF n, v, m
      <4>3. (n > 0 => n = v - (t + 1) - 1) /\ (n = 0 => (t + 1) + 1 = v)
        BY <4>2
      <4> QED BY <4>3 DEF v
    <3>3. CASE ~(lp.count > 0)
      BY <3>3 DEF Countdown
    <3> QED BY <3>2, <3>3
  <2> HIDE DEF n
  <2>8. CASE n = 0
    <3>1. next.state = "SINGLE" /\ BoxAfter(Tail(box), c, next) = Tail(p)
      BY <2>1, <2>6, <2>8 DEF BoxAfter
    <3>2. (t + 1) + 1 = Head(<<c>>).value
      BY <2>4, <2>7, <2>8
    <3>3. LastTurn(list, Append(done, c), BoxAfter(Tail(box), c, next), next)
      BY <2>3, <2>4, <3>1, <3>2 DEF LastTurn
    <3> QED BY <3>3 DEF Unrolling
  <2>9. CASE n # 0
    <3>1. next.state = "LOOP" /\ BoxAfter(Tail(box), c, next) = Tail(p) \o <<c>> /\ next.count = n
      BY <2>1, <2>4, <2>6, <2>9 DEF BoxAfter
    <3>2. next.count > 0 => next.count = Head(<<c>>).value - (t + 1) - 1
      BY <2>4, <2>7, <3>1
    <3>3. Turning(list, Append(done, c), BoxAfter(Tail(box), c, next), next)
      BY <2>3, <2>4, <3>1, <3>2 DEF Turning
    <3> QED BY <3>3 DEF Unrolling
  <2> QED BY <2>8, <2>9
<1> QED BY <1>3, <1>4

\* In the last turn, a command more.
LEMMA LastTurnRun ==
  ASSUME NEW list \in Seq(Command), NEW done \in Seq(Command), NEW box \in Seq(Command),
         NEW lp \in Loops, LastTurn(list, done, box, lp), box # <<>>,
         NEW c, c = Head(box), NEW next, next = LoopAfter(lp, c)
  PROVE  Unrolling(list, Append(done, c), BoxAfter(Tail(box), c, next), next)
<1>1. PICK p \in Seq(Command), q \in Seq(Command), t \in Nat :
        /\ lp.state = "SINGLE" /\ Turn(list, done, t, p, q) /\ box = q /\ t + 1 = Head(p).value
  BY DEF LastTurn
<1>2. /\ c \in Command /\ c.kind # "loop" /\ Append(p, c) \in Seq(Command) /\ Tail(q) \in Seq(Command)
      /\ Turn(list, Append(done, c), t, Append(p, c), Tail(q)) /\ Head(Append(p, c)) = Head(p)
  BY <1>1, TurnMore
<1>3. next = lp /\ BoxAfter(Tail(box), c, next) = Tail(q)
  BY <1>1, <1>2 DEF LoopAfter, BoxAfter
<1>4. LastTurn(list, Append(done, c), BoxAfter(Tail(box), c, next), next)
  BY <1>1, <1>2, <1>3 DEF LastTurn
<1> QED BY <1>4 DEF Unrolling

\* A command more of a list that is executed.
LEMMA UnrollingRun ==
  ASSUME NEW list \in Seq(Command), NEW done \in Seq(Command), NEW box \in Seq(Command),
         NEW lp \in Loops, OneLoop(list), Unrolling(list, done, box, lp), box # <<>>,
         NEW c, c = Head(box), NEW next, next = LoopAfter(lp, c)
  PROVE  Unrolling(list, Append(done, c), BoxAfter(Tail(box), c, next), next)
BY StraightRun, TurningRun, LastTurnRun DEF Unrolling

\* The commands of leaf l from the list it was given to the end of its first execution.
Unfolded(l) ==
  /\ ~Executing(l) /\ ~Giving(l) => commands_box[l] = conf[l]
  /\ ~Executing(l) /\ Giving(l) => commands_box[l] \o rest = conf[l]
  /\ l = Leaf /\ pc \in {"run", "save"} => Unrolling(conf[l], ran, commands_box[l], loop)
  /\ l = Leaf /\ pc \in {"sleep", "repost"} =>
       Unrolling(conf[l], ran, BoxAfter(commands_box[l], command, loop), loop)
  /\ l = Leaf /\ pc \in {"restore", "post"} => Unrolls(ran, conf[l])

Unfolding(l) == quiet[l] /\ fresh[l] /\ OneLoop(conf[l]) => Unfolded(l)

\* A leaf whose commands are not executed, before or after a step that does not touch them.
LEMMA UnfoldingKept ==
  ASSUME NEW l \in Leaves, Unfolding(l), ~Executing(l), ~Executing(l)', Giving(l)' <=> Giving(l),
         commands_box'[l] = commands_box[l], conf'[l] = conf[l], quiet'[l] = quiet[l],
         fresh'[l] = fresh[l], Giving(l) => rest' = rest
  PROVE  Unfolding(l)'
<1>1. (l = Leaf)' => pc' \notin InExecution
  BY DEF Executing, InExecution
<1>2. ASSUME quiet'[l], fresh'[l], OneLoop(conf'[l]) PROVE Unfolded(l)'
  <2>1. Unfolded(l)
    BY <1>2 DEF Unfolding
  <2> QED BY <2>1, <1>1 DEF Unfolded, InExecution
<1> QED BY <1>2 DEF Unfolding

\* The steps outside of an execution, those of the chips, and those of the other leaves.
LEMMA UnfoldingElsewhere ==
  ASSUME TypeOK, NEW l \in Leaves, Unfolding(l),
         \/ (\E s \in Sensors : Measured(s)) \/ UNCHANGED vars
         \/ FetchSensor \/ ReadStatus \/ StatusError \/ Acquire \/ AcquireError \/ Rested
         \/ (l # Leaf /\ (Told \/ Run \/ Slept \/ Repost \/ Save \/ Executed \/ FetchSaved
                          \/ Restore \/ Restored))
  PROVE  Unfolding(l)'
<1>1. CASE UNCHANGED vars \/ \E s \in Sensors : Measured(s)
  <2>1. UNCHANGED <<pc, thread, boxes, xpc, target, rest, history>>
    BY <1>1 DEF vars, Measured, adding
  <2>2. UNCHANGED <<Executing(l), Giving(l)>>
    BY <2>1 DEF Executing, Giving, Leaf, thread
  <2>3. Unfolded(l) => Unfolded(l)'
    BY <2>1, <2>2 DEF Unfolded, Leaf, thread, boxes, history
  <2> QED BY <2>1, <2>3 DEF Unfolding, history
<1>2. CASE FetchSensor \/ ReadStatus \/ StatusError \/ Acquire \/ AcquireError \/ Rested
  <2>1. pc \notin InExecution
    BY <1>2 DEF FetchSensor, ReadStatus, StatusError, Acquire, AcquireError, Rested, InExecution
  <2>2. pc' \notin InExecution
    BY <1>2 DEF FetchSensor, ReadStatus, StatusError, Acquire, AcquireError, Rested, InExecution,
                Detect, NextChannel
  <2>3. UNCHANGED <<commands_box, xpc, target, rest, conf, quiet, fresh>>
    BY <1>2 DEF FetchSensor, ReadStatus, StatusError, Acquire, AcquireError, Rested, boxes,
                adding, history
  <2>4. ~Executing(l) /\ ~Executing(l)' /\ (Giving(l)' <=> Giving(l))
    BY <2>1, <2>2, <2>3 DEF Executing, InExecution, Giving
  <2> QED BY <2>3, <2>4, UnfoldingKept
<1>3. CASE l # Leaf /\ (Told \/ Run \/ Slept \/ Repost \/ Save \/ Executed \/ FetchSaved
                        \/ Restore \/ Restored)
  <2>1. Leaf \in Leaves /\ Leaf' = Leaf
    BY <1>3, LeafTyped DEF Told, Run, Slept, Repost, Save, Executed, FetchSaved, Restore,
                           Restored, thread, Leaf
  <2>2. ~Executing(l) /\ ~Executing(l)'
    BY <1>3, <2>1 DEF Executing
  <2>3. commands_box'[l] = commands_box[l]
    BY <1>3, <2>1 DEF Told, Run, Slept, Repost, Save, Executed, FetchSaved, Restore, Restored,
                      boxes, TypeOK
  <2>4. conf' = conf /\ rest' = rest /\ target' = target
    BY <1>3 DEF Told, Run, Slept, Repost, Save, Executed, FetchSaved, Restore, Restored, adding,
                history
  <2>5. quiet'[l] = quiet[l] /\ fresh'[l] = fresh[l]
    BY <1>3, <2>1 DEF Told, Run, Slept, Repost, Save, Executed, FetchSaved, Restore, Restored,
                      history, TypeOK
  <2>6. xpc' = xpc \/ (xpc' # "idle" /\ xpc # "idle")
    BY <1>3 DEF Told, Run, Slept, Repost, Save, Executed, FetchSaved, Restore, Restored, adding
  <2>7. Giving(l)' <=> Giving(l)
    BY <2>4, <2>6 DEF Giving
  <2> QED BY <2>2, <2>3, <2>4, <2>5, <2>7, UnfoldingKept
<1> QED BY <1>1, <1>2, <1>3

\* The steps of an execution.
LEMMA UnfoldingRun ==
  ASSUME TypeOK, Unfolding(Leaf),
         Told \/ Run \/ Slept \/ Repost \/ Save \/ Executed \/ FetchSaved \/ Restore \/ Restored
  PROVE  Unfolding(Leaf)'
<1> DEFINE l == Leaf
           box == commands_box[l]
<1>1. /\ l \in Leaves /\ Leaf' = Leaf /\ conf' = conf
      /\ box \in Seq(Command) /\ conf[l] \in Seq(Command) /\ ran \in Seq(Command) /\ loop \in Loops
      /\ fresh \in [Leaves -> BOOLEAN] /\ quiet \in [Leaves -> BOOLEAN]
  BY LeafTyped, ListTyped DEF Told, Run, Slept, Repost, Save, Executed, FetchSaved, Restore,
                              Restored, Leaf, thread, history, TypeOK
<1>2. CASE Told
  <2>1. /\ ~Executing(l) /\ Executing(l)' /\ pc' = "run" /\ ran' = <<>> /\ loop' = Single
        /\ UNCHANGED <<commands_box, fresh>>
        /\ quiet'[l] => quiet[l] /\ ~Giving(l)
    BY <1>1, <1>2 DEF Told, Executing, boxes, Leaf, Giving
  <2> SUFFICES ASSUME quiet'[l], fresh[l], OneLoop(conf[l]) PROVE Unfolded(l)'
    BY <1>1, <2>1 DEF Unfolding
  <2>2. box = conf[l]
    BY <2>1 DEF Unfolding, Unfolded
  <2>3. <<>> \o box = conf[l]
    BY <1>1, <2>2, ConcatEmptySeq
  <2>4. Plain(<<>>) /\ Single.state = "SINGLE"
    BY DEF Plain, Single
  <2>5. Unrolling(conf[l], <<>>, box, Single)
    BY <2>3, <2>4 DEF Unrolling, Straight
  <2> QED BY <1>1, <2>1, <2>5 DEF Unfolded
<1>3. CASE Run \/ Slept \/ Repost \/ Save \/ Executed \/ FetchSaved \/ Restore
  <2>1. Executing(l) /\ Executing(l)' /\ UNCHANGED <<quiet, fresh>>
    BY <1>1, <1>3 DEF Run, Slept, Repost, Save, Executed, FetchSaved, Restore, Executing, history
  <2> SUFFICES ASSUME quiet[l], fresh[l], OneLoop(conf[l]) PROVE Unfolded(l)'
    BY <1>1, <2>1 DEF Unfolding
  <2>2. Unfolded(l)
    BY DEF Unfolding
  <2>3. CASE Run
    <3>1. /\ pc = "run" /\ box # <<>> /\ command' = Head(box) /\ commands_box'[l] = Tail(box)
          /\ ran' = Append(ran, Head(box)) /\ loop' = LoopAfter(loop, Head(box))
          /\ pc' \in {"sleep", "repost"}
      BY <1>1, <2>3 DEF Run, TypeOK
    <3>2. Unrolling(conf[l], ran, box, loop)
      BY <2>2, <3>1 DEF Unfolded
    <3>3. Unrolling(conf[l], Append(ran, Head(box)),
                    BoxAfter(Tail(box), Head(box), LoopAfter(loop, Head(box))),
                    LoopAfter(loop, Head(box)))
      BY <1>1, <3>1, <3>2, UnrollingRun
    <3>4. Unrolling(conf[l], ran', BoxAfter(commands_box'[l], command', loop'), loop')
      BY <3>1, <3>3
    <3> QED BY <1>1, <2>1, <3>1, <3>4 DEF Unfolded
  <2>4. CASE Slept
    BY <1>1, <2>1, <2>2, <2>4 DEF Unfolded, Slept, thread, boxes, history
  <2>5. CASE Repost
    <3>1. /\ pc = "repost" /\ pc' = "save" /\ UNCHANGED <<command, loop, ran>>
          /\ commands_box'[l] = BoxAfter(box, command, loop)
      BY <1>1, <2>5 DEF Repost, BoxAfter, thread, history, TypeOK
    <3>2. Unrolling(conf[l], ran, BoxAfter(box, command, loop), loop)
      BY <2>2, <3>1 DEF Unfolded
    <3> QED BY <1>1, <2>1, <3>1, <3>2 DEF Unfolded
  <2>6. CASE Save
    BY <1>1, <2>1, <2>2, <2>6 DEF Unfolded, Save, thread, history
  <2>7. CASE Executed
    <3>1. /\ pc = "run" /\ pc' = "restore" /\ box = <<>> /\ UNCHANGED ran
      BY <2>7 DEF Executed, history
    <3>2. Unrolls(ran, conf[l])
      BY <1>1, <2>2, <3>1, UnrollingEnd DEF Unfolded
    <3> QED BY <1>1, <2>1, <3>1, <3>2 DEF Unfolded
  <2>8. CASE FetchSaved \/ Restore
    <3>1. /\ pc \in {"restore", "post"} /\ pc' \in {"restore", "post"} /\ UNCHANGED ran
      BY <2>8 DEF FetchSaved, Restore, history
    <3>2. Unrolls(ran, conf[l])
      BY <2>2, <3>1 DEF Unfolded
    <3> QED BY <1>1, <2>1, <3>1, <3>2 DEF Unfolded
  <2> QED BY <1>3, <2>3, <2>4, <2>5, <2>6, <2>7, <2>8
<1>4. CASE Restored
  <2>1. ~fresh'[l]
    BY <1>1, <1>4 DEF Restored
  <2> QED BY <1>1, <2>1 DEF Unfolding
<1> QED BY <1>2, <1>3, <1>4

\* A leaf that is given a list.
LEMMA UnfoldingGiven ==
  ASSUME TypeOK, NEW l \in Leaves, Unfolding(l), quiet[l] => ~(Executing(l) /\ Giving(l)),
         (\E m \in Leaves, list \in Lists : Add(m, list)) \/ AddCommand \/ Added
  PROVE  Unfolding(l)'
<1>1. CASE \E m \in Leaves, list \in Lists : Add(m, list)
  <2>1. PICK m \in Leaves, list \in Lists : Add(m, list)
    BY <1>1
  <2>2. /\ xpc = "idle" /\ xpc' = "add" /\ target' = m /\ rest' = list /\ Leaf' = Leaf
        /\ commands_box' = [commands_box EXCEPT ![m] = <<>>]
        /\ conf' = [conf EXCEPT ![m] = list] /\ quiet' = [quiet EXCEPT ![m] = ~Executing(m)]
        /\ fresh' = [fresh EXCEPT ![m] = TRUE]
        /\ pc' = AfterReset(m) /\ UNCHANGED <<loop, command, ran>>
    BY <2>1 DEF Add, Leaf, thread
  <2>3. pc' = pc \/ (m = Leaf /\ pc \in InExecution /\ pc' \in InExecution)
    BY <2>2 DEF AfterReset, InExecution
  <2>4. Executing(l)' <=> Executing(l)
    BY <2>2, <2>3 DEF Executing, InExecution
  <2>5. CASE l = m
    <3>1. list \in Seq(Command)
      BY ListsAssumption
    <3>2. /\ commands_box'[l] = <<>> /\ conf'[l] = list /\ Giving(l)'
          /\ quiet'[l] <=> ~Executing(l)
      BY <2>2, <2>5 DEF TypeOK, Giving
    <3>3. <<>> \o list = list
      BY <3>1, ConcatEmptySeq
    <3>4. ASSUME ~Executing(l) PROVE Unfolded(l)'
      <4>1. commands_box'[l] \o rest' = conf'[l]
        BY <2>2, <3>2, <3>3
      <4>2. (l = Leaf)' => pc' \notin InExecution
        BY <2>4, <3>4 DEF Executing, InExecution
      <4> QED BY <2>4, <3>2, <3>4, <4>1, <4>2 DEF Unfolded, InExecution
    <3> QED BY <3>2, <3>4 DEF Unfolding
  <2>6. CASE l # m
    <3>1. /\ commands_box'[l] = commands_box[l] /\ conf'[l] = conf[l] /\ quiet'[l] = quiet[l]
          /\ fresh'[l] = fresh[l] /\ ~Giving(l) /\ ~Giving(l)'
      BY <2>2, <2>6 DEF TypeOK, Giving
    <3>2. (l = Leaf)' <=> l = Leaf
      BY <2>2
    <3>3. l = Leaf => pc' = pc
      BY <2>3, <2>6
    <3>4. Unfolded(l) => Unfolded(l)'
      BY <2>2, <2>4, <3>1, <3>2, <3>3 DEF Unfolded
    <3> QED BY <3>1, <3>4 DEF Unfolding
  <2> QED BY <2>5, <2>6
<1>2. CASE AddCommand \/ Added
  <2>1. /\ UNCHANGED <<pc, loop, command, ran, conf, quiet, fresh, target>>
        /\ Leaf' = Leaf /\ xpc # "idle" /\ target \in Leaves
        /\ commands_box' = commands_box \/ \E e : commands_box' = [commands_box EXCEPT ![target] = e]
    BY <1>2 DEF AddCommand, Added, Leaf, thread, boxes, history, TypeOK
  <2>2. UNCHANGED Executing(l)
    BY <2>1 DEF Executing
  <2>3. CASE l # target
    <3>1. commands_box'[l] = commands_box[l] /\ ~Giving(l) /\ ~Giving(l)'
      BY <2>1, <2>3 DEF Giving, TypeOK
    <3>2. Unfolded(l) => Unfolded(l)'
      BY <2>1, <2>2, <3>1 DEF Unfolded
    <3> QED BY <2>1, <3>2 DEF Unfolding
  <2>4. CASE l = target
    <3>1. Giving(l) /\ (quiet[l] => ~Executing(l))
      BY <2>1, <2>4 DEF Giving
    <3>2. ASSUME quiet[l], fresh[l], OneLoop(conf[l]) PROVE Unfolded(l)'
      <4>1. /\ commands_box[l] \o rest = conf[l] /\ ~Executing(l) /\ ~Executing(l)'
            /\ commands_box[l] \in Seq(Command) /\ rest \in Seq(Command)
        BY <2>2, <3>1, <3>2, ListTyped DEF Unfolding, Unfolded, TypeOK
      <4>2. (Giving(l)' /\ commands_box'[l] \o rest' = conf[l])
              \/ (~Giving(l)' /\ commands_box'[l] = conf[l])
        <5>1. CASE AddCommand
          <6>1. Giving(l)' /\ rest # <<>>
            BY <2>1, <2>4, <5>1 DEF AddCommand, Giving, TypeOK
          <6>2. CASE commands_box' = [commands_box EXCEPT ![target] = Append(@, Head(rest))] /\ rest' = Tail(rest)
            <7>1. commands_box'[l] = Append(commands_box[l], Head(rest))
              BY <2>4, <6>2 DEF TypeOK
            <7>2. Append(commands_box[l], Head(rest)) \o Tail(rest) = conf[l]
              BY <4>1, <6>1, MoveHead
            <7> QED BY <6>1, <6>2, <7>1, <7>2
          <6>3. CASE UNCHANGED <<commands_box, rest>>
            BY <4>1, <6>1, <6>3
          <6> QED BY <5>1, <6>2, <6>3 DEF AddCommand
        <5>2. CASE Added
          <6>1. rest = <<>> /\ ~Giving(l)' /\ commands_box' = commands_box
            BY <5>2 DEF Added, Giving, boxes
          <6>2. commands_box[l] \o <<>> = commands_box[l]
            BY <4>1, ConcatEmptySeq
          <6> QED BY <4>1, <6>1, <6>2
        <5> QED BY <1>2, <5>1, <5>2
      <4>3. (l = Leaf)' => pc' \notin InExecution
        BY <4>1 DEF Executing, InExecution
      <4> QED BY <2>1, <4>1, <4>2, <4>3 DEF Unfolded, InExecution
    <3> QED BY <2>1, <3>2 DEF Unfolding
  <2> QED BY <2>3, <2>4
<1> QED BY <1>1, <1>2

LEMMA UnfoldingStep ==
  ASSUME TypeOK, \A l \in Leaves : Commanded(l) /\ Unfolding(l), [Next]_vars
  PROVE  \A l \in Leaves : Unfolding(l)'
<1> SUFFICES ASSUME NEW l \in Leaves PROVE Unfolding(l)'
  OBVIOUS
<1>1. Unfolding(l) /\ (quiet[l] => ~(Executing(l) /\ Giving(l)))
  BY DEF Commanded
<1>2. CASE (\E s \in Sensors : Measured(s)) \/ FetchSensor \/ ReadStatus \/ StatusError
             \/ Acquire \/ AcquireError \/ Rested \/ UNCHANGED vars
  BY <1>1, <1>2, UnfoldingElsewhere
<1>3. CASE Told \/ Run \/ Slept \/ Repost \/ Save \/ Executed \/ FetchSaved \/ Restore \/ Restored
  <2>1. CASE l # Leaf
    BY <1>1, <1>3, <2>1, UnfoldingElsewhere
  <2>2. CASE l = Leaf
    <3>1. Unfolding(Leaf) /\ Leaf' = Leaf
      BY <1>1, <1>3, <2>2 DEF Told, Run, Slept, Repost, Save, Executed, FetchSaved, Restore,
                              Restored, thread, Leaf
    <3>2. Unfolding(Leaf)'
      BY <1>3, <3>1, UnfoldingRun
    <3>3. l = Leaf'
      BY <2>2, <3>1
    <3> QED BY <3>2, <3>3
  <2> QED BY <2>1, <2>2
<1>4. CASE (\E m \in Leaves, list \in Lists : Add(m, list)) \/ AddCommand \/ Added
  BY <1>1, <1>4, UnfoldingGiven
<1> QED BY <1>2, <1>3, <1>4 DEF Next, Fdc

LEMMA UnfoldingInit == Init => \A l \in Leaves : Unfolding(l)
<1> SUFFICES ASSUME Init, NEW l \in Leaves PROVE Unfolding(l)
  OBVIOUS
<1>1. ~Executing(l) /\ ~Giving(l) /\ commands_box[l] = <<>> /\ conf[l] = <<>> /\ pc = "fetch"
  BY DEF Init, Executing, Giving
<1> QED BY <1>1 DEF Unfolding, Unfolded

\* The inductive invariant.
THEOREM TouchInvariant == Spec => []IInv
<1>1. Init => TypeOK /\ (\A l \in Leaves : Commanded(l))
  BY TypeInit, CommandedInit
<1>2. TypeOK /\ (\A l \in Leaves : Commanded(l)) /\ [Next]_vars => (\A l \in Leaves : Commanded(l))'
  BY CommandedStep
<1>3. Init => RoomKept /\ PostedOnce /\ NoInterruptLost
  <2>1. DOMAIN <<>> = {}
    OBVIOUS
  <2> QED BY <2>1, TypeInit DEF Init, PostedOnce, NoInterruptLost
<1>4. TypeOK /\ RoomKept /\ [Next]_vars => (TypeOK /\ RoomKept)'
  BY TypeStep
<1>5. TypeOK /\ PostedOnce /\ NoInterruptLost /\ [Next]_vars => (PostedOnce /\ NoInterruptLost)'
  BY PostedStep
<1> QED BY <1>1, <1>2, <1>3, <1>4, <1>5, PTL DEF Spec, IInv

\* After a touch a leaf has the commands it was given again, all of them and in order,
\* whatever happens to the other leaves, if its list has no loop and it is not given another
\* one during an execution.
THEOREM TouchPlainKept == Spec => []PlainKept
<1>1. IInv => PlainKept
  BY DEF IInv, Commanded, Whole, PlainKept, AtRest, Giving
<1> QED BY <1>1, TouchInvariant, PTL

\* A touch has run what the list of its leaf asks for, in order, when it begins to restore it:
\* with a loop as many turns of it as it says, at least the first time.
THEOREM TouchRunsList == Spec => []RunsList
<1>1. Init => \A l \in Leaves : Unfolding(l)
  BY UnfoldingInit
<1>2. IInv /\ (\A l \in Leaves : Unfolding(l)) /\ [Next]_vars => (\A l \in Leaves : Unfolding(l))'
  BY UnfoldingStep DEF IInv
<1>3. IInv /\ (\A l \in Leaves : Unfolding(l)) => RunsList
  <2> SUFFICES ASSUME IInv, \A l \in Leaves : Unfolding(l), pc = "restore", quiet[Leaf],
                      Plain(conf[Leaf]) \/ (OneLoop(conf[Leaf]) /\ fresh[Leaf])
               PROVE  Unrolls(ran, conf[Leaf])
    BY DEF RunsList
  <2>1. Leaf \in Leaves
    BY LeafTyped DEF IInv
  <2>2. CASE Plain(conf[Leaf])
    <3>1. ran = conf[Leaf]
      BY <2>1, <2>2 DEF IInv, Commanded, Whole
    <3> QED BY <2>2, <3>1 DEF Unrolls
  <2>3. CASE OneLoop(conf[Leaf]) /\ fresh[Leaf]
    BY <2>1, <2>3 DEF Unfolding, Unfolded
  <2> QED BY <2>2, <2>3
<1> QED BY <1>1, <1>2, <1>3, TouchInvariant, PTL DEF Spec

=============================================================================
