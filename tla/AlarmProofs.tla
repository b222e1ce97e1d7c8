------------------------------ MODULE AlarmProofs ------------------------------
(***************************************************************************)
(* Theorems about Alarm, for a mailbox of any size, any lists of commands  *)
(* and any number of alarms.                                               *)
(***************************************************************************)
EXTENDS Alarm, SequenceTheorems, TLAPS

\* What set_alarm posts comes from a list, and a free slot that was promised to it is there.
Posting ==
  /\ xpc # "idle" => batch \in Batches
  /\ xpc \in {"full", "woken"} => i < Len(batch)
  /\ xpc = "woken" => used < MaxCommands

\* While an alarm is set apart, the box only holds what has been posted of its list, before
\* the place of this list in the array or at the same place.
SetApart ==
  Apart /\ xpc # "idle" =>
    xpc = "set" /\ pc = "wait" /\ used = i /\ (rd = 0 \/ rd >= Len(batch))

\* The inductive invariants.
Typed == TypeOK /\ Posting
Kept == SetApart /\ HeldIfApart

----------------------------------------------------------------------------
(* The ring.                                                               *)

\* A slot of the ring, at most one turn ahead.
LEMMA Slot ==
  ASSUME NEW a \in Nat, a < 2 * MaxCommands
  PROVE  /\ a % MaxCommands \in Slots
         /\ a < MaxCommands => a % MaxCommands = a
         /\ a >= MaxCommands => a % MaxCommands = a - MaxCommands
<1>1. MaxCommands \in Nat \ {0}
  BY MaxAssumption
<1>2. CASE a < MaxCommands
  <2>1. a % MaxCommands = a
    BY <1>1, <1>2
  <2> QED BY <1>1, <1>2, <2>1 DEF Slots
<1>3. CASE a >= MaxCommands
  <2>1. a \in MaxCommands .. (2 * MaxCommands - 1)
    BY <1>1, <1>3
  <2>2. a % MaxCommands = a - MaxCommands
    BY <1>1, <2>1
  <2> QED BY <1>1, <1>3, <2>2 DEF Slots
<1> QED BY <1>1, <1>2, <1>3

\* The pointers agree with the number of messages after one is posted, and fetched.
LEMMA Advance ==
  ASSUME NEW r \in Slots, NEW n \in Nat, n < MaxCommands
  PROVE  /\ (((r + n) % MaxCommands) + 1) % MaxCommands = (r + (n + 1)) % MaxCommands
         /\ (((r + 1) % MaxCommands) + n) % MaxCommands = (r + (n + 1)) % MaxCommands
         /\ (r + 1) % MaxCommands \in Slots
<1> DEFINE M == MaxCommands
<1>1. M \in Nat \ {0} /\ r \in 0..(M - 1)
  BY MaxAssumption DEF Slots
<1>2. CASE r + n < M
  <2>1. (r + n) % M = r + n
    BY <1>1, <1>2, Slot
  <2>2. CASE r + 1 < M
    BY <1>1, <2>1, <2>2, Slot
  <2>3. CASE r + 1 >= M
    <3>1. n = 0 /\ (r + 1) % M = 0 /\ 0 % M = 0
      BY <1>1, <1>2, <2>3, Slot
    <3> QED BY <1>1, <2>1, <3>1, Slot
  <2> QED BY <1>1, <2>2, <2>3
<1>3. CASE r + n >= M
  <2>1. (r + n) % M = r + n - M /\ r + n - M + 1 < M
    BY <1>1, <1>3, Slot
  <2>2. (r + (n + 1)) % M = r + n + 1 - M
    BY <1>1, <1>3, Slot
  <2>3. CASE r + 1 < M
    BY <1>1, <1>3, <2>1, <2>2, <2>3, Slot
  <2>4. CASE r + 1 >= M
    BY <1>1, <1>3, <2>1, <2>2, <2>4, Slot
  <2> QED BY <1>1, <2>3, <2>4
<1>4. (r + 1) % M \in Slots
  BY <1>1, Slot
<1> QED BY <1>1, <1>2, <1>3, <1>4

\* Different messages are in different slots.
LEMMA Separate ==
  ASSUME NEW r \in Slots, NEW j \in 0..(MaxCommands - 1), NEW k \in 0..(MaxCommands - 1),
         (r + j) % MaxCommands = (r + k) % MaxCommands
  PROVE  j = k
<1> DEFINE M == MaxCommands
<1>1. M \in Nat \ {0} /\ r \in 0..(M - 1) /\ j \in 0..(M - 1) /\ k \in 0..(M - 1)
  BY MaxAssumption DEF Slots
<1>2. /\ r + j < M => (r + j) % M = r + j
      /\ r + j >= M => (r + j) % M = r + j - M
  BY <1>1, Slot
<1>3. /\ r + k < M => (r + k) % M = r + k
      /\ r + k >= M => (r + k) % M = r + k - M
  BY <1>1, Slot
<1> QED BY <1>1, <1>2, <1>3

----------------------------------------------------------------------------
(* The commands.                                                           *)

LEMMA CommandTypes ==
  /\ Commands \subseteq Command
  /\ \A b \in Batches :
       /\ b \in Seq(Commands) /\ Len(b) \in Nat \ {0} /\ Len(b) <= MaxCommands
       /\ \A k \in 1..Len(b) : b[k] \in Commands
<1>1. ASSUME NEW b \in Batches
      PROVE  /\ b \in Seq(Commands) /\ Len(b) \in Nat \ {0} /\ Len(b) <= MaxCommands
             /\ \A k \in 1..Len(b) : b[k] \in Commands /\ b[k] \in Command
  <2>1. b \in Seq(Command) /\ b # <<>> /\ Len(b) <= MaxCommands
    BY BatchAssumption
  <2>2. Len(b) \in Nat \ {0} /\ DOMAIN b = 1..Len(b)
    BY <2>1, LenProperties, EmptySeq
  <2>3. \A k \in 1..Len(b) : b[k] \in Commands /\ b[k] \in Command
    BY <2>1, <2>2 DEF Commands, ToSet
  <2>4. b \in Seq(Commands)
    BY <2>1, <2>2, <2>3
  <2> QED BY <2>1, <2>2, <2>3, <2>4
<1>2. Commands \subseteq Command
  <2>1. ASSUME NEW c \in Commands PROVE c \in Command
    <3>1. PICK b \in Batches : c \in ToSet(b)
      BY DEF Commands
    <3>2. b \in Seq(Command)
      BY BatchAssumption
    <3> QED BY <3>1, <3>2 DEF ToSet
  <2> QED BY <2>1
<1> QED BY <1>1, <1>2

LEMMA LoopType ==
  ASSUME NEW l \in Loops, NEW c \in Command \cup {NoCommand}
  PROVE  LoopAfter(l, c) \in Loops
<1>1. c.value \in Nat /\ l.count \in Nat \cup {-1}
  BY DEF Command, Loops, NoCommand
<1>2. Countdown(c.value) \in Nat \cup {-1} /\ Countdown(l.count) \in Nat \cup {-1}
  BY <1>1 DEF Countdown
<1> QED BY <1>2 DEF LoopAfter, Loops

----------------------------------------------------------------------------
(* The types.                                                              *)

\* A message is posted in slot wr.
LEMMA PostTyped ==
  ASSUME Typed, used < MaxCommands, NEW c \in Commands \cup {NoCommand},
         NEW base \in [Slots -> Commands \cup {NoCommand}], Post(base, c)
  PROVE  /\ commands' \in [Slots -> Commands \cup {NoCommand}]
         /\ rd' \in Slots /\ wr' \in Slots /\ used' \in 0..MaxCommands
         /\ wr' = (rd' + used') % MaxCommands
         /\ posted' \in Seq(Commands \cup {NoCommand}) /\ Len(posted') = used'
<1>1. /\ rd \in Slots /\ used \in Nat /\ wr = (rd + used) % MaxCommands /\ wr \in Slots
      /\ posted \in Seq(Commands \cup {NoCommand}) /\ Len(posted) = used
  BY MaxAssumption DEF Typed, TypeOK
<1>2. /\ commands' = [base EXCEPT ![wr] = c] /\ wr' = (wr + 1) % MaxCommands
      /\ used' = used + 1 /\ posted' = Append(posted, c) /\ rd' = rd
  BY DEF Post
<1>3. commands' \in [Slots -> Commands \cup {NoCommand}]
  BY <1>2
<1>4. wr' = (rd' + used') % MaxCommands
  BY <1>1, <1>2, Advance
<1>5. wr' \in Slots
  BY <1>1, <1>2, Advance
<1>6. used' \in 0..MaxCommands
  BY <1>1, <1>2, MaxAssumption
<1>7. posted' \in Seq(Commands \cup {NoCommand}) /\ Len(posted') = used'
  BY <1>1, <1>2, AppendProperties
<1> QED BY <1>1, <1>2, <1>3, <1>4, <1>5, <1>6, <1>7

LEMMA InitTyped == Init => Typed
<1> SUFFICES ASSUME Init PROVE Typed
  OBVIOUS
<1>1. commands \in [Slots -> Commands \cup {NoCommand}]
  BY DEF Init
<1>2. 0 \in Slots /\ (0 + 0) % MaxCommands = 0
  BY MaxAssumption, Slot DEF Slots
<1>3. loop \in Loops
  BY DEF Init, Single, Loops
<1>4. /\ posted \in Seq(Commands \cup {NoCommand}) /\ Len(posted) = used
      /\ i \in 0..Len(batch)
  BY DEF Init
<1>5. /\ used \in 0..MaxCommands /\ requests \in 0..Requests
      /\ runs \in [Commands -> 0..MaxRuns]
  BY MaxAssumption, RequestsAssumption DEF Init
<1> QED BY <1>1, <1>2, <1>3, <1>4, <1>5 DEF Init, Typed, TypeOK, Posting

LEMMA SetAlarmTyped ==
  ASSUME Typed, NEW b \in Batches, SetAlarm(b)
  PROVE  Typed'
<1>1. Len(b) \in Nat
  BY CommandTypes
<1>2. i' \in 0..Len(batch') /\ requests' \in 0..Requests /\ runs' \in [Commands -> 0..MaxRuns]
  BY <1>1, RequestsAssumption DEF SetAlarm, Typed, TypeOK
<1>3. {timer', alarm_bsem', sequential', aligned'} \subseteq BOOLEAN
  BY DEF SetAlarm, Typed, TypeOK
<1> QED BY <1>2, <1>3 DEF SetAlarm, Typed, TypeOK, Posting, box

LEMMA PostNextTyped ==
  ASSUME Typed, PostNext
  PROVE  Typed'
<1> DEFINE c == batch[i + 1]
           written == [commands EXCEPT ![i] = c]
<1>1. batch \in Batches /\ Len(batch) \in Nat /\ i \in 0..Len(batch) /\ i < Len(batch)
  BY CommandTypes DEF PostNext, Typed, TypeOK, Posting
<1>2. c \in Commands /\ i + 1 \in 0..Len(batch)
  BY <1>1, CommandTypes
<1>3. written \in [Slots -> Commands \cup {NoCommand}]
  BY <1>2 DEF Typed, TypeOK
<1>4. CASE Room
  <2>1. Post(written, c) /\ i' = i + 1 /\ xpc' = xpc
    BY <1>4 DEF PostNext
  <2>2. used < MaxCommands
    <3>1. used + 0 < MaxCommands
      BY <1>4 DEF PostNext, Room
    <3>2. used \in Nat
      BY DEF Typed, TypeOK
    <3> QED BY <3>1, <3>2, MaxAssumption
  <2> HIDE DEF written, c
  <2>3. /\ commands' \in [Slots -> Commands \cup {NoCommand}]
        /\ rd' \in Slots /\ wr' \in Slots /\ used' \in 0..MaxCommands
        /\ wr' = (rd' + used') % MaxCommands
        /\ posted' \in Seq(Commands \cup {NoCommand}) /\ Len(posted') = used'
    BY <1>2, <1>3, <2>1, <2>2, PostTyped
  <2> QED BY <1>1, <1>2, <2>1, <2>3 DEF PostNext, Typed, TypeOK, Posting, history
<1>5. CASE ~Room
  <2>1. xpc' = "full" /\ commands' = written /\ UNCHANGED <<rd, wr, used, posted, i>>
    BY <1>5 DEF PostNext
  <2> HIDE DEF written, c
  <2> QED BY <1>1, <1>3, <2>1 DEF PostNext, Typed, TypeOK, Posting, history
<1> QED BY <1>4, <1>5

LEMMA PostWokenTyped ==
  ASSUME Typed, PostWoken
  PROVE  Typed'
<1>1. batch \in Batches /\ Len(batch) \in Nat /\ i \in 0..Len(batch) /\ i < Len(batch)
  BY CommandTypes DEF PostWoken, Typed, TypeOK, Posting
<1>2. batch[i + 1] \in Commands /\ i + 1 \in 0..Len(batch)
  BY <1>1, CommandTypes
<1>3. CASE xpc = "woken" /\ Post(commands, batch[i + 1])
  <2>1. used < MaxCommands /\ commands \in [Slots -> Commands \cup {NoCommand}]
    BY <1>3 DEF Typed, TypeOK, Posting
  <2>2. /\ commands' \in [Slots -> Commands \cup {NoCommand}]
        /\ rd' \in Slots /\ wr' \in Slots /\ used' \in 0..MaxCommands
        /\ wr' = (rd' + used') % MaxCommands
        /\ posted' \in Seq(Commands \cup {NoCommand}) /\ Len(posted') = used'
    BY <1>2, <1>3, <2>1, PostTyped
  <2> QED BY <1>1, <1>2, <2>2 DEF PostWoken, Typed, TypeOK, Posting, history
<1>4. CASE UNCHANGED box
  BY <1>1, <1>2, <1>4 DEF PostWoken, Typed, TypeOK, Posting, history, box
<1> QED BY <1>3, <1>4 DEF PostWoken

LEMMA FetchTyped ==
  ASSUME Typed, Fetch
  PROVE  Typed'
<1> DEFINE c == commands[rd]
<1>1. /\ rd \in Slots /\ used \in 1..MaxCommands /\ wr = (rd + used) % MaxCommands
      /\ posted \in Seq(Commands \cup {NoCommand}) /\ Len(posted) = used
  BY MaxAssumption DEF Fetch, Typed, TypeOK
<1>2. c \in Commands \cup {NoCommand}
  BY <1>1 DEF Typed, TypeOK
<1>3. /\ command' = c /\ rd' = (rd + 1) % MaxCommands /\ used' = used - 1 /\ wr' = wr
      /\ posted' = Tail(posted) /\ loop' = LoopAfter(loop, c)
      /\ runs' = [runs EXCEPT ![c] = IF Apart /\ @ < MaxRuns THEN @ + 1 ELSE @]
      /\ pc' = IF c.kind = "sleep" THEN "sleep" ELSE NextPc(loop'.state)
      /\ xpc' = IF xpc = "full" THEN "woken" ELSE xpc
      /\ UNCHANGED <<commands, timer, alarm_bsem, batch, i, requests, sequential, aligned>>
  BY DEF Fetch, history
<1> HIDE DEF c
<1>4. rd' \in Slots /\ wr' = (rd' + used') % MaxCommands
  <2>1. used - 1 \in Nat /\ used - 1 < MaxCommands /\ (used - 1) + 1 = used
    BY <1>1, MaxAssumption
  <2> QED BY <1>1, <1>3, <2>1, Advance
<1>5. used' \in 0..MaxCommands /\ used' < MaxCommands
  BY <1>1, <1>3, MaxAssumption
<1>6. posted' \in Seq(Commands \cup {NoCommand}) /\ Len(posted') = used'
  <2>1. posted # <<>>
    BY <1>1
  <2> QED BY <1>1, <1>3, <2>1, HeadTailProperties
<1>7. loop' \in Loops
  <2>1. c \in Command \cup {NoCommand} /\ loop \in Loops
    BY <1>2, CommandTypes DEF Typed, TypeOK
  <2> QED BY <1>3, <2>1, LoopType
<1>8. runs' \in [Commands -> 0..MaxRuns]
  <2> DEFINE n == IF Apart /\ runs[c] < MaxRuns THEN runs[c] + 1 ELSE runs[c]
  <2>1. runs \in [Commands -> 0..MaxRuns] /\ MaxRuns \in Nat
    BY RequestsAssumption DEF Typed, TypeOK
  <2>2. runs' = [runs EXCEPT ![c] = n]
    BY <1>3
  <2>3. c \in Commands => n \in 0..MaxRuns
    BY <2>1
  <2> HIDE DEF n
  <2> QED BY <2>1, <2>2, <2>3
<1>9. pc' \in {"wait", "fetch", "sleep", "post"} /\ xpc' \in {"idle", "set", "full", "woken"}
  BY <1>3 DEF NextPc, Typed, TypeOK
<1>10. Posting'
  BY <1>3, <1>5 DEF Typed, Posting
<1> QED BY <1>1, <1>2, <1>3, <1>4, <1>5, <1>6, <1>7, <1>8, <1>9, <1>10 DEF Typed, TypeOK

LEMMA RepostTyped ==
  ASSUME Typed, Repost
  PROVE  Typed'
<1>1. /\ Post(commands, command) /\ command \in Commands \cup {NoCommand}
      /\ commands \in [Slots -> Commands \cup {NoCommand}] /\ used \in Nat
  BY DEF Repost, Typed, TypeOK
<1>2. \/ xpc # "woken" /\ used + 0 < MaxCommands
      \/ used + 1 < MaxCommands
  BY DEF Repost, Room
<1>3. used < MaxCommands
  BY <1>1, <1>2, MaxAssumption
<1>4. /\ commands' \in [Slots -> Commands \cup {NoCommand}]
      /\ rd' \in Slots /\ wr' \in Slots /\ used' \in 0..MaxCommands
      /\ wr' = (rd' + used') % MaxCommands
      /\ posted' \in Seq(Commands \cup {NoCommand}) /\ Len(posted') = used'
  BY <1>1, <1>3, PostTyped
<1>5. Posting'
  BY <1>1, <1>2 DEF Repost, Typed, Posting, Post
<1> QED BY <1>4, <1>5 DEF Repost, Typed, TypeOK, history

LEMMA OtherTyped ==
  ASSUME Typed, Armed \/ Expire \/ Wake \/ Slept \/ Over \/ UNCHANGED vars
  PROVE  Typed'
<1>1. UNCHANGED <<box, command, batch, i, requests, runs, history>>
  BY DEF Armed, Expire, Wake, Slept, Over, vars
<1>2. loop' \in Loops
  BY DEF Armed, Expire, Wake, Slept, Over, vars, Typed, TypeOK, Loops
<1>3. {timer', alarm_bsem'} \subseteq BOOLEAN
  BY DEF Armed, Expire, Wake, Slept, Over, vars, Typed, TypeOK
<1>4. pc' \in {"wait", "fetch", "sleep", "post"} /\ (xpc' = xpc \/ xpc' = "idle")
  BY DEF Armed, Expire, Wake, Slept, Over, NextPc, vars, Typed, TypeOK
<1> QED BY <1>1, <1>2, <1>3, <1>4 DEF Typed, TypeOK, Posting, box, history

----------------------------------------------------------------------------
(* The messages of the box.                                                *)

\* A message posted in the slot after the others leaves them where they are.
LEMMA PostHeld ==
  ASSUME Typed, used < MaxCommands, NEW c, NEW base \in [Slots -> Commands \cup {NoCommand}],
         \A k \in 1..used : base[(rd + k - 1) % MaxCommands] = posted[k], Post(base, c),
         c \in Commands \cup {NoCommand}
  PROVE  Held'
<1>1. /\ rd \in Slots /\ rd \in Nat /\ used \in Nat /\ wr = (rd + used) % MaxCommands
      /\ posted \in Seq(Commands \cup {NoCommand}) /\ Len(posted) = used
      /\ MaxCommands \in Nat \ {0}
  BY MaxAssumption DEF Typed, TypeOK, Slots
<1>2. /\ commands' = [base EXCEPT ![wr] = c] /\ used' = used + 1 /\ rd' = rd
      /\ posted' = Append(posted, c)
  BY DEF Post
<1>3. posted'[used + 1] = c /\ \A k \in 1..used : posted'[k] = posted[k]
  BY <1>1, <1>2, AppendProperties
<1>4. ASSUME NEW k \in 1..(used + 1) PROVE commands'[(rd + k - 1) % MaxCommands] = posted'[k]
  <2>1. rd + k - 1 = rd + (k - 1) /\ k - 1 \in 0..(MaxCommands - 1)
    BY <1>1
  <2>2. (rd + k - 1) % MaxCommands \in Slots
    <3>1. rd + (k - 1) \in Nat /\ rd + (k - 1) < 2 * MaxCommands
      BY <1>1, <2>1 DEF Slots
    <3> QED BY <2>1, <3>1, Slot
  <2>3. CASE k = used + 1
    <3>1. rd + k - 1 = rd + used
      BY <1>1, <2>3
    <3> QED BY <1>1, <1>2, <1>3, <2>2, <2>3, <3>1
  <2>4. CASE k \in 1..used
    <3>1. used \in 0..(MaxCommands - 1) /\ k - 1 # used
      BY <1>1, <2>4
    <3>2. (rd + (k - 1)) % MaxCommands # wr
      BY <1>1, <2>1, <3>1, Separate
    <3> QED BY <1>2, <1>3, <2>1, <2>2, <2>4, <3>2
  <2> QED BY <1>1, <2>3, <2>4
<1> QED BY <1>2, <1>4 DEF Held

LEMMA FetchHeld ==
  ASSUME Typed, Held, Fetch
  PROVE  Held'
<1>1. /\ rd \in Slots /\ used \in 1..MaxCommands /\ MaxCommands \in Nat \ {0}
      /\ posted \in Seq(Commands \cup {NoCommand}) /\ Len(posted) = used
  BY MaxAssumption DEF Fetch, Typed, TypeOK
<1>2. /\ rd' = (rd + 1) % MaxCommands /\ used' = used - 1 /\ commands' = commands
      /\ posted' = Tail(posted)
  BY DEF Fetch
<1>3. \A k \in 1..(used - 1) : posted'[k] = posted[k + 1]
  <2>1. posted # <<>>
    BY <1>1
  <2> QED BY <1>1, <1>2, <2>1, HeadTailProperties
<1>4. ASSUME NEW k \in 1..(used - 1) PROVE commands'[(rd' + k - 1) % MaxCommands] = posted'[k]
  <2>1. /\ k - 1 \in Nat /\ k - 1 < MaxCommands /\ (k - 1) + 1 = k
        /\ k + 1 \in 1..used
    BY <1>1
  <2>2. (((rd + 1) % MaxCommands) + (k - 1)) % MaxCommands = (rd + k) % MaxCommands
    BY <1>1, <2>1, Advance
  <2>3. rd' \in Slots
    BY <1>1, <1>2, <2>1, Advance
  <2>4. rd' + k - 1 = rd' + (k - 1) /\ rd + (k + 1) - 1 = rd + k
    BY <1>1, <2>3 DEF Slots
  <2>5. commands[(rd + (k + 1) - 1) % MaxCommands] = posted[k + 1]
    BY <2>1 DEF Held
  <2> QED BY <1>2, <1>3, <2>2, <2>4, <2>5
<1> QED BY <1>2, <1>4 DEF Held

\* Writing commands[i] hits no message of an alarm that is set apart.
LEMMA PostNextHeld ==
  ASSUME Typed, SetApart, Apart, Held, PostNext
  PROVE  Held' /\ SetApart'
<1> DEFINE c == batch[i + 1]
           written == [commands EXCEPT ![i] = c]
<1>1. /\ batch \in Batches /\ Len(batch) \in Nat /\ i \in 0..Len(batch) /\ i < Len(batch)
      /\ Len(batch) <= MaxCommands /\ MaxCommands \in Nat
  BY CommandTypes, MaxAssumption DEF PostNext, Typed, TypeOK, Posting
<1>2. c \in Commands
  BY <1>1, CommandTypes
<1>3. /\ xpc = "set" /\ pc = "wait" /\ used = i /\ (rd = 0 \/ rd >= Len(batch))
      /\ rd \in 0..(MaxCommands - 1) /\ i \in Nat
  BY <1>1 DEF PostNext, SetApart, Typed, TypeOK, Slots
<1>4. used < MaxCommands /\ Room
  BY <1>1, <1>3 DEF Room
<1>5. Post(written, c) /\ i' = i + 1 /\ xpc' = xpc /\ pc' = pc /\ batch' = batch
  BY <1>4 DEF PostNext
<1>6. written \in [Slots -> Commands \cup {NoCommand}]
  BY <1>2 DEF Typed, TypeOK
<1>7. ASSUME NEW k \in 1..used PROVE written[(rd + k - 1) % MaxCommands] = posted[k]
  <2> DEFINE a == rd + k - 1
             s == a % MaxCommands
  <2>1. a \in Nat /\ a < 2 * MaxCommands
    BY <1>1, <1>3
  <2>2. a \in rd..(rd + i - 1)
    BY <1>1, <1>3
  <2> HIDE DEF a
  <2>3. /\ s \in Slots
        /\ a < MaxCommands => s = a
        /\ a >= MaxCommands => s = a - MaxCommands
    BY <2>1, Slot
  <2> HIDE DEF s
  <2>4. s # i
    BY <1>1, <1>3, <2>1, <2>2, <2>3
  <2>5. written[s] = commands[s]
    BY <2>3, <2>4 DEF Typed, TypeOK
  <2>6. commands[s] = posted[k]
    BY DEF Held, s, a
  <2> QED BY <2>5, <2>6 DEF s, a
<1> HIDE DEF written, c
<1>8. Held'
  BY <1>2, <1>4, <1>5, <1>6, <1>7, PostHeld
<1>9. used' = i' /\ rd' = rd
  BY <1>3, <1>5 DEF Post
<1> QED BY <1>3, <1>5, <1>8, <1>9 DEF SetApart

\* A list is set apart when the box is empty.
LEMMA SetAlarmKept ==
  ASSUME Typed, Kept, NEW b \in Batches, SetAlarm(b)
  PROVE  Kept'
<1>1. UNCHANGED <<box, pc>> /\ batch' = b /\ i' = 0 /\ xpc' = "set"
  BY DEF SetAlarm
<1>2. Apart' => Apart /\ pc = "wait" /\ used = 0 /\ (wr = 0 \/ wr >= Len(b))
  BY DEF SetAlarm, Apart
<1>3. used = 0 => wr = rd
  <2>1. rd \in Slots /\ wr = (rd + used) % MaxCommands
    BY DEF Typed, TypeOK
  <2>2. rd \in Nat /\ rd < MaxCommands /\ rd < 2 * MaxCommands /\ rd + 0 = rd
    BY <2>1, MaxAssumption DEF Slots
  <2>3. rd % MaxCommands = rd
    BY <2>2, Slot
  <2> QED BY <2>1, <2>2, <2>3
<1>4. SetApart'
  BY <1>1, <1>2, <1>3 DEF SetApart, box
<1>5. HeldIfApart'
  BY <1>1, <1>2 DEF Kept, HeldIfApart, Held, box
<1> QED BY <1>4, <1>5 DEF Kept

LEMMA NextKept ==
  ASSUME Typed, Kept, [Next]_vars
  PROVE  Kept'
<1>1. ASSUME NEW b \in Batches, SetAlarm(b) PROVE Kept'
  BY <1>1, SetAlarmKept
<1>2. CASE PostNext
  <2>1. sequential' = sequential /\ aligned' = aligned
    BY <1>2 DEF PostNext, history
  <2>2. Apart' <=> Apart
    BY <2>1 DEF Apart
  <2>3. Apart => Held' /\ SetApart'
    BY <1>2, PostNextHeld DEF Kept, HeldIfApart
  <2> QED BY <2>2, <2>3 DEF Kept, HeldIfApart, SetApart
<1>3. CASE PostWoken
  BY <1>3 DEF PostWoken, history, Apart, Kept, HeldIfApart, SetApart
<1>4. CASE Armed \/ Expire \/ UNCHANGED vars
  BY <1>4 DEF Armed, Expire, vars, history, box, Apart, Kept, HeldIfApart, SetApart, Held
<1>5. CASE Wake \/ Slept \/ Over
  BY <1>5 DEF Wake, Slept, Over, Runs, history, box, Apart, Kept, HeldIfApart, SetApart, Held
<1>6. CASE Fetch
  BY <1>6, FetchHeld DEF Fetch, Runs, history, Apart, Kept, HeldIfApart, SetApart
<1>7. CASE Repost
  <2>1. Apart => xpc = "idle"
    BY <1>7 DEF Repost, Kept, SetApart
  <2>2. /\ UNCHANGED <<history, xpc>> /\ Post(commands, command)
        /\ command \in Commands \cup {NoCommand}
        /\ commands \in [Slots -> Commands \cup {NoCommand}]
    BY <1>7 DEF Repost, Typed, TypeOK
  <2>3. Apart => used < MaxCommands
    <3>1. used \in Nat
      BY DEF Typed, TypeOK
    <3>2. Apart => used + 0 < MaxCommands
      BY <1>7, <2>1 DEF Repost, Room
    <3> QED BY <3>1, <3>2, MaxAssumption
  <2>4. Apart /\ Held => Held'
    BY <2>2, <2>3, PostHeld DEF Held
  <2> QED BY <2>1, <2>2, <2>4 DEF history, Apart, Kept, HeldIfApart, SetApart
<1> QED BY <1>1, <1>2, <1>3, <1>4, <1>5, <1>6, <1>7 DEF Next

LEMMA InitKept == Init => Kept
BY DEF Init, Kept, SetApart, HeldIfApart, Held

LEMMA NextTyped ==
  ASSUME Typed, [Next]_vars
  PROVE  Typed'
BY SetAlarmTyped, PostNextTyped, PostWokenTyped, FetchTyped, RepostTyped, OtherTyped DEF Next

----------------------------------------------------------------------------
(* The course of an alarm.                                                 *)

\* What the count of turns needs: a list has one loop at most, of a number of turns that the
\* history can count.
OneLoop ==
  /\ MaxRuns \in Nat \ {0}
  /\ \A b \in Batches : \A j, k \in DOMAIN b :
       b[j].kind = "loop" /\ b[k].kind = "loop" => j = k /\ b[j].value <= MaxRuns

IsLoop(k) == batch[k].kind = "loop"

\* The box holds what follows command c in the list, then, from the loop l on, the commands
\* that come again.
Ahead(c) == \A k \in 1..used : c + k <= Len(batch) => posted[k] = batch[c + k]
Behind(c, l) ==
  \A k \in 1..used : c + k > Len(batch) => posted[k] = batch[c + k - (Len(batch) - l + 1)]

\* The commands up to c have been executed q times, those after c once less, those before the
\* loop l once.
Counts(c, l, q) ==
  \A k \in DOMAIN batch :
    runs[batch[k]] = IF k < l THEN 1 ELSE IF k <= c THEN q ELSE q - 1

\* Command c has been executed last, before a loop, in a loop, and in its last turn.
Plain(c) ==
  /\ loop.state = "SINGLE" /\ pc \in {"fetch", "sleep"}
  /\ \A k \in 1..c : ~IsLoop(k)
  /\ used = Len(batch) - c /\ Ahead(c) /\ Counts(c, 0, 1)

Looping(c, l) ==
  /\ loop.state = "LOOP" /\ l <= c /\ IsLoop(l)
  /\ \/ pc = "fetch" /\ used = Len(batch) - l + 1
     \/ pc \in {"sleep", "post"} /\ command = batch[c] /\ used = Len(batch) - l
  /\ Ahead(c) /\ Behind(c, l)
  /\ \/ loop.count <= 0 /\ batch[l].value <= 1
     \/ loop.count \in 1..(batch[l].value - 1) /\ Counts(c, l, batch[l].value - loop.count)

LastTurn(c, l) ==
  /\ loop.state = "SINGLE" /\ pc \in {"fetch", "sleep"} /\ l <= c /\ IsLoop(l)
  /\ used = Len(batch) - c /\ Ahead(c) /\ Counts(c, l, batch[l].value)

Quiet == xpc = "idle" /\ ~timer /\ ~alarm_bsem
Stopped == loop.state = "SINGLE" /\ pc = "wait"
NoRuns == \A c \in Commands : runs[c] = 0

Unset == Quiet /\ Stopped /\ batch = <<>>
Setting ==
  /\ xpc = "set" /\ ~timer /\ ~alarm_bsem /\ Stopped /\ NoRuns
  /\ batch \in Batches /\ Ahead(0)
Set ==
  /\ xpc = "idle" /\ (timer <=> ~alarm_bsem) /\ Stopped /\ NoRuns
  /\ batch \in Batches /\ Ahead(0) /\ used = Len(batch)
Running ==
  /\ Quiet /\ batch \in Batches
  /\ \/ \E c \in 0..Len(batch) : Plain(c)
     \/ \E c, l \in DOMAIN batch : Looping(c, l) \/ LastTurn(c, l)
Finished ==
  /\ Quiet /\ Stopped /\ batch \in Batches /\ used = 0
  /\ \A k \in DOMAIN batch : runs[batch[k]] = Times(batch, k)

\* What an alarm that is set apart goes through.
Course == Apart => Unset \/ Setting \/ Set \/ Running \/ Finished

LEMMA BatchFacts ==
  ASSUME OneLoop, batch \in Batches
  PROVE  /\ Len(batch) \in Nat \ {0} /\ Len(batch) <= MaxCommands /\ DOMAIN batch = 1..Len(batch)
         /\ \A k \in 1..Len(batch) : batch[k] \in Commands /\ batch[k].value \in Nat
         /\ \A j, k \in 1..Len(batch) : batch[j] = batch[k] => j = k
         /\ \A j, k \in 1..Len(batch) : IsLoop(j) /\ IsLoop(k) => j = k
         /\ \A k \in 1..Len(batch) : IsLoop(k) => batch[k].value <= MaxRuns
         /\ MaxRuns \in Nat \ {0}
<1>1. /\ batch \in Seq(Commands) /\ Len(batch) \in Nat \ {0} /\ Len(batch) <= MaxCommands
      /\ \A k \in 1..Len(batch) : batch[k] \in Commands
  BY CommandTypes
<1>2. DOMAIN batch = 1..Len(batch)
  BY <1>1, LenProperties
<1>3. \A k \in 1..Len(batch) : batch[k].value \in Nat
  BY <1>1, CommandTypes DEF Command
<1>4. \A j, k \in 1..Len(batch) : batch[j] = batch[k] => j = k
  BY <1>2, BatchAssumption DEF IsInjective
<1> QED BY <1>1, <1>2, <1>3, <1>4 DEF OneLoop, IsLoop

\* What a list asks for: once before its loop, as often as its value from it on.
LEMMA TimesFacts ==
  ASSUME OneLoop, batch \in Batches, NEW k \in 1..Len(batch)
  PROVE  /\ (\A j \in 1..k : ~IsLoop(j)) => Times(batch, k) = 1
         /\ \A l \in 1..k : IsLoop(l) => Times(batch, k) = batch[l].value
<1> DEFINE loops == {j \in 1..k : batch[j].kind = "loop"}
<1>1. Times(batch, k) = IF loops = {} THEN 1 ELSE batch[CHOOSE j \in loops : TRUE].value
  BY DEF Times
<1>2. (\A j \in 1..k : ~IsLoop(j)) => loops = {}
  BY DEF IsLoop
<1>3. ASSUME NEW l \in 1..k, IsLoop(l) PROVE Times(batch, k) = batch[l].value
  <2>1. l \in loops
    BY <1>3 DEF IsLoop
  <2>2. \A j \in loops : j \in 1..Len(batch) /\ IsLoop(j)
    BY BatchFacts DEF IsLoop
  <2>3. \A j \in loops : j = l
    BY <2>1, <2>2, BatchFacts
  <2> HIDE DEF loops
  <2> QED BY <1>1, <2>1, <2>3
<1> HIDE DEF loops
<1> QED BY <1>1, <1>2, <1>3

\* The first message of the box is executed.
LEMMA FetchFacts ==
  ASSUME OneLoop, Typed, Held, Apart, Fetch, batch \in Batches, NEW m \in 1..Len(batch),
         posted[1] = batch[m]
  PROVE  /\ command' = batch[m] /\ batch' = batch /\ used' = used - 1 /\ used \in Nat \ {0}
         /\ \A k \in 1..(used - 1) : posted'[k] = posted[k + 1]
         /\ loop' = LoopAfter(loop, batch[m])
         /\ pc' = IF batch[m].kind = "sleep" THEN "sleep" ELSE NextPc(loop'.state)
         /\ \A k \in 1..Len(batch) : k # m => runs'[batch[k]] = runs[batch[k]]
         /\ runs[batch[m]] < MaxRuns => runs'[batch[m]] = runs[batch[m]] + 1
<1>1. used \in Nat \ {0} /\ posted \in Seq(Commands \cup {NoCommand}) /\ Len(posted) = used
  BY MaxAssumption DEF Fetch, Typed, TypeOK
<1>2. commands[rd] = posted[1]
  <2>1. 1 \in 1..used /\ rd \in Slots
    BY <1>1 DEF Typed, TypeOK
  <2>2. rd \in Nat /\ rd < MaxCommands /\ rd < 2 * MaxCommands /\ rd + 1 - 1 = rd
    BY <2>1, MaxAssumption DEF Slots
  <2>3. rd % MaxCommands = rd
    BY <2>2, Slot
  <2>4. commands[(rd + 1 - 1) % MaxCommands] = posted[1]
    BY <2>1 DEF Held
  <2> QED BY <2>2, <2>3, <2>4
<1>3. /\ command' = batch[m] /\ batch' = batch /\ used' = used - 1 /\ posted' = Tail(posted)
      /\ loop' = LoopAfter(loop, batch[m])
      /\ pc' = IF batch[m].kind = "sleep" THEN "sleep" ELSE NextPc(loop'.state)
      /\ runs' = [runs EXCEPT ![batch[m]] = IF @ < MaxRuns THEN @ + 1 ELSE @]
  BY <1>2 DEF Fetch
<1>4. \A k \in 1..(used - 1) : posted'[k] = posted[k + 1]
  <2>1. posted # <<>>
    BY <1>1
  <2> QED BY <1>1, <1>3, <2>1, HeadTailProperties
<1>5. runs \in [Commands -> 0..MaxRuns] /\ \A k \in 1..Len(batch) : batch[k] \in Commands
  BY BatchFacts DEF Typed, TypeOK
<1>6. \A k \in 1..Len(batch) : k # m => batch[k] # batch[m]
  BY BatchFacts
<1> QED BY <1>1, <1>3, <1>4, <1>5, <1>6

\* A command before a loop is executed.
LEMMA FetchPlain ==
  ASSUME OneLoop, Typed, Held, Apart, Fetch, batch \in Batches, NEW c \in 0..Len(batch), Plain(c),
         pc = "fetch"
  PROVE  \/ \E d \in 0..Len(batch') : Plain(d)'
         \/ \E d, l \in DOMAIN batch' : Looping(d, l)'
<1> DEFINE n == Len(batch)
           m == c + 1
<1>1. /\ n \in Nat \ {0} /\ DOMAIN batch = 1..n /\ MaxRuns \in Nat \ {0}
      /\ \A k \in 1..n : batch[k].value \in Nat
  BY BatchFacts
<1>2. /\ used = n - c /\ loop.state = "SINGLE" /\ \A k \in 1..c : ~IsLoop(k)
      /\ \A k \in 1..used : c + k <= n => posted[k] = batch[c + k]
      /\ \A k \in 1..n : runs[batch[k]] = IF k <= c THEN 1 ELSE 0
  BY <1>1 DEF Plain, Ahead, Counts
<1>3. used > 0 /\ m \in 1..n /\ used = n - m + 1
  BY <1>1, <1>2 DEF Fetch
<1>4. posted[1] = batch[m] /\ runs[batch[m]] = 0 /\ 0 < MaxRuns
  BY <1>1, <1>2, <1>3
<1> HIDE DEF n, m
<1>5. /\ command' = batch[m] /\ batch' = batch /\ used' = used - 1
      /\ \A k \in 1..(used - 1) : posted'[k] = posted[k + 1]
      /\ loop' = LoopAfter(loop, batch[m])
      /\ pc' = IF batch[m].kind = "sleep" THEN "sleep" ELSE NextPc(loop'.state)
      /\ \A k \in 1..n : k # m => runs'[batch[k]] = runs[batch[k]]
      /\ runs'[batch[m]] = 1
  BY <1>3, <1>4, FetchFacts DEF n
<1>6. used' = n - m /\ \A k \in 1..used' : posted'[k] = batch[m + k] /\ m + k <= n
  <2> SUFFICES ASSUME NEW k \in 1..(n - m) PROVE posted'[k] = batch[m + k] /\ m + k <= n
    BY <1>1, <1>3, <1>5
  <2>1. k + 1 \in 1..used /\ c + (k + 1) = m + k /\ m + k <= n /\ k \in 1..(used - 1)
    BY <1>1, <1>3 DEF m
  <2> QED BY <1>2, <1>5, <2>1
<1>7. \A k \in 1..n : runs'[batch[k]] = IF k <= m THEN 1 ELSE 0
  <2> SUFFICES ASSUME NEW k \in 1..n PROVE runs'[batch[k]] = IF k <= m THEN 1 ELSE 0
    OBVIOUS
  <2>1. CASE k = m
    BY <1>3, <1>5, <2>1
  <2>2. CASE k # m
    <3>1. k <= c <=> k <= m
      BY <1>1, <1>3, <2>2 DEF m
    <3> QED BY <1>2, <1>5, <2>2, <3>1
  <2> QED BY <2>1, <2>2
<1>8. CASE ~IsLoop(m)
  <2>1. loop' = loop /\ pc' \in {"fetch", "sleep"}
    BY <1>2, <1>5, <1>8 DEF LoopAfter, IsLoop, NextPc
  <2>2. \A k \in 1..m : ~(batch'[k].kind = "loop")
    <3>1. \A k \in 1..m : k \in 1..c \/ k = m
      BY <1>1, <1>3 DEF m
    <3> QED BY <1>2, <1>5, <1>8, <3>1 DEF IsLoop
  <2>3. Plain(m)'
    <3>1. Ahead(m)'
      BY <1>5, <1>6 DEF Ahead
    <3>2. Counts(m, 0, 1)'
      BY <1>1, <1>5, <1>7 DEF Counts
    <3> QED BY <1>2, <1>5, <1>6, <2>1, <2>2, <3>1, <3>2 DEF Plain, n, IsLoop
  <2> QED BY <1>1, <1>3, <1>5, <2>3 DEF n
<1>9. CASE IsLoop(m)
  <2>1. /\ loop'.state = "LOOP" /\ loop'.count = Countdown(batch[m].value) /\ pc' = "post"
    BY <1>2, <1>5, <1>9 DEF LoopAfter, IsLoop, NextPc
  <2>2. Ahead(m)' /\ Behind(m, m)'
    <3>1. Ahead(m)'
      BY <1>5, <1>6 DEF Ahead
    <3>2. \A k \in 1..used' : ~(m + k > Len(batch'))
      BY <1>1, <1>3, <1>5, <1>6 DEF n
    <3> QED BY <3>1, <3>2 DEF Behind
  <2>3. \/ loop'.count <= 0 /\ batch[m].value <= 1
        \/ /\ loop'.count \in 1..(batch[m].value - 1)
           /\ batch[m].value - loop'.count = 1
    BY <1>1, <1>3, <2>1 DEF Countdown
  <2>4. Counts(m, m, 1)'
    <3> SUFFICES ASSUME NEW k \in 1..n
                 PROVE  runs'[batch[k]] = IF k < m THEN 1 ELSE IF k <= m THEN 1 ELSE 1 - 1
      BY <1>1, <1>5 DEF Counts
    <3> QED BY <1>1, <1>3, <1>7
  <2>5. Looping(m, m)'
    <3>1. \/ loop'.count <= 0 /\ batch'[m].value <= 1
          \/ /\ loop'.count \in 1..(batch'[m].value - 1)
             /\ Counts(m, m, batch[m].value - loop.count)'
      BY <1>5, <2>3, <2>4 DEF Counts
    <3>2. used' = Len(batch) - m /\ m <= m
      BY <1>3, <1>6 DEF n
    <3> QED BY <1>5, <1>9, <2>1, <2>2, <3>1, <3>2 DEF Looping, IsLoop
  <2> QED BY <1>1, <1>3, <1>5, <2>5 DEF n
<1> QED BY <1>8, <1>9

\* What the fetch of command m does to the counts.
LEMMA CountNext ==
  ASSUME NEW n \in Nat, DOMAIN batch = 1..n, batch' = batch, NEW c \in 0..n, NEW l \in 0..c,
         NEW q \in Int, Counts(c, l, q), NEW m \in 1..n, m = c + 1,
         \A k \in 1..n : k # m => runs'[batch[k]] = runs[batch[k]],
         runs'[batch[m]] = runs[batch[m]] + 1
  PROVE  Counts(m, l, q)'
<1> SUFFICES ASSUME NEW k \in 1..n
             PROVE  runs'[batch[k]] = IF k < l THEN 1 ELSE IF k <= m THEN q ELSE q - 1
  BY DEF Counts
<1>1. /\ runs[batch[k]] = IF k < l THEN 1 ELSE IF k <= c THEN q ELSE q - 1
      /\ runs[batch[m]] = IF m < l THEN 1 ELSE IF m <= c THEN q ELSE q - 1
  BY DEF Counts
<1>2. CASE k = m
  <2>1. ~(m < l) /\ ~(m <= c)
    OBVIOUS
  <2>2. runs[batch[m]] = q - 1
    BY <1>1, <2>1
  <2>3. runs'[batch[k]] = q /\ ~(k < l) /\ k <= m
    BY <1>2, <2>1, <2>2
  <2> QED BY <2>3
<1>3. CASE k # m
  <2>1. (k <= c <=> k <= m) /\ runs'[batch[k]] = runs[batch[k]]
    BY <1>3
  <2> QED BY <1>1, <2>1
<1> QED BY <1>2, <1>3

LEMMA CountTurn ==
  ASSUME NEW n \in Nat, DOMAIN batch = 1..n, batch' = batch, NEW l \in 1..n,
         NEW q \in Int, Counts(n, l, q),
         \A k \in 1..n : k # l => runs'[batch[k]] = runs[batch[k]],
         runs'[batch[l]] = runs[batch[l]] + 1
  PROVE  Counts(l, l, q + 1)'
<1> SUFFICES ASSUME NEW k \in 1..n
             PROVE  runs'[batch[k]] = IF k < l THEN 1 ELSE IF k <= l THEN q + 1 ELSE q + 1 - 1
  BY DEF Counts
<1>1. \A j \in 1..n : runs[batch[j]] = IF j < l THEN 1 ELSE q
  BY DEF Counts
<1>2. CASE k = l
  <2>1. runs[batch[l]] = q
    BY <1>1
  <2>2. runs'[batch[k]] = q + 1 /\ ~(k < l) /\ k <= l
    BY <1>2, <2>1
  <2> QED BY <2>2
<1>3. CASE k # l
  <2>1. (k <= l <=> k < l) /\ runs'[batch[k]] = runs[batch[k]] /\ q + 1 - 1 = q
    BY <1>3
  <2> QED BY <1>1, <2>1
<1> QED BY <1>2, <1>3

\* A command of the last turn of a loop, or after it, is executed.
LEMMA FetchLast ==
  ASSUME OneLoop, Typed, Held, Apart, Fetch, batch \in Batches,
         NEW c \in 1..Len(batch), NEW l \in 1..Len(batch), LastTurn(c, l), pc = "fetch"
  PROVE  \E d \in DOMAIN batch' : LastTurn(d, l)'
<1> DEFINE m == c + 1
<1> PICK n : n = Len(batch)
  OBVIOUS
<1> PICK v : v = batch[l].value
  OBVIOUS
<1>1. /\ n \in Nat \ {0} /\ DOMAIN batch = 1..n /\ MaxRuns \in Nat \ {0}
      /\ v \in Nat /\ v <= MaxRuns
      /\ \A j, k \in 1..n : IsLoop(j) /\ IsLoop(k) => j = k
  BY BatchFacts DEF LastTurn
<1>2. /\ used = n - c /\ loop.state = "SINGLE" /\ l <= c /\ IsLoop(l)
      /\ \A k \in 1..used : c + k <= n => posted[k] = batch[c + k]
      /\ Counts(c, l, v)
  BY DEF LastTurn, Ahead
<1>3. used > 0 /\ m \in 1..n /\ m > l /\ m > c
  BY <1>1, <1>2 DEF Fetch
<1>4. posted[1] = batch[m] /\ runs[batch[m]] = v - 1 /\ ~IsLoop(m)
  <2>1. runs[batch[m]] = IF m < l THEN 1 ELSE IF m <= c THEN v ELSE v - 1
    BY <1>1, <1>2, <1>3 DEF Counts
  <2>2. ~(m < l) /\ ~(m <= c)
    BY <1>1, <1>3
  <2> QED BY <1>1, <1>2, <1>3, <2>1, <2>2
<1>5. /\ command' = batch[m] /\ batch' = batch /\ used' = used - 1
      /\ \A k \in 1..(used - 1) : posted'[k] = posted[k + 1]
      /\ loop' = LoopAfter(loop, batch[m])
      /\ pc' = IF batch[m].kind = "sleep" THEN "sleep" ELSE NextPc(loop'.state)
      /\ \A k \in 1..n : k # m => runs'[batch[k]] = runs[batch[k]]
      /\ runs'[batch[m]] = runs[batch[m]] + 1
  BY <1>1, <1>3, <1>4, FetchFacts
<1>6. loop' = loop /\ pc' \in {"fetch", "sleep"}
  BY <1>2, <1>4, <1>5 DEF LoopAfter, IsLoop, NextPc
<1>7. used' = n - m /\ Ahead(m)'
  <2>1. used' = n - m
    BY <1>1, <1>2, <1>3, <1>5
  <2>2. ASSUME NEW k \in 1..(n - m) PROVE posted'[k] = batch[m + k]
    <3>1. k + 1 \in 1..used /\ c + (k + 1) = m + k /\ m + k <= n /\ k \in 1..(used - 1)
      BY <1>1, <1>2, <1>3
    <3> QED BY <1>2, <1>5, <3>1
  <2> HIDE DEF m
  <2> QED BY <1>5, <2>1, <2>2 DEF Ahead
<1>8. m = c + 1 /\ c \in 0..n /\ l \in 0..c /\ v \in Int /\ n \in Nat
  BY <1>1, <1>2
<1> HIDE DEF m
<1>9. l <= m /\ m \in DOMAIN batch' /\ batch'[l].value = v /\ used' = Len(batch') - m
  BY <1>1, <1>3, <1>5, <1>7
<1>10. LastTurn(m, l)'
  <2>1. Counts(m, l, v)'
    BY <1>1, <1>2, <1>3, <1>5, <1>8, CountNext
  <2>2. Counts(m, l, batch[l].value)'
    BY <1>9, <2>1 DEF Counts
  <2> QED BY <1>2, <1>5, <1>6, <1>7, <1>9, <2>2 DEF LastTurn, IsLoop
<1> QED BY <1>9, <1>10

\* A command of a loop is executed.
LEMMA FetchLooping ==
  ASSUME OneLoop, Typed, Held, Apart, Fetch, batch \in Batches,
         NEW c \in 1..Len(batch), NEW l \in 1..Len(batch), Looping(c, l), pc = "fetch"
  PROVE  \E d \in DOMAIN batch' : Looping(d, l)' \/ LastTurn(d, l)'
<1> PICK n : n = Len(batch)
  OBVIOUS
<1> PICK v : v = batch[l].value
  OBVIOUS
<1> PICK q : q = v - loop.count
  OBVIOUS
<1>1. /\ n \in Nat \ {0} /\ DOMAIN batch = 1..n /\ MaxRuns \in Nat \ {0}
      /\ v \in Nat /\ v <= MaxRuns /\ loop.count \in Int /\ q \in Int
      /\ \A j, k \in 1..n : IsLoop(j) /\ IsLoop(k) => j = k
  <2>1. IsLoop(l) /\ loop \in Loops
    BY DEF Looping, Typed, TypeOK
  <2>2. loop.count \in Int
    BY <2>1 DEF Loops
  <2>3. /\ n \in Nat \ {0} /\ DOMAIN batch = 1..n /\ MaxRuns \in Nat \ {0}
        /\ v \in Nat /\ v <= MaxRuns
        /\ \A j, k \in 1..n : IsLoop(j) /\ IsLoop(k) => j = k
    BY <2>1, BatchFacts
  <2> QED BY <2>2, <2>3
<1>2. /\ used = n - l + 1 /\ loop.state = "LOOP" /\ l <= c /\ IsLoop(l)
      /\ \A k \in 1..used : c + k <= n => posted[k] = batch[c + k]
      /\ \A k \in 1..used : c + k > n => posted[k] = batch[c + k - (n - l + 1)]
      /\ \/ loop.count <= 0 /\ v <= 1
         \/ loop.count \in 1..(v - 1) /\ Counts(c, l, q)
  BY DEF Looping, Ahead, Behind
<1>3. CASE c < n
  <2> DEFINE m == c + 1
  <2>1. m \in 1..n /\ m > l /\ m > c /\ ~IsLoop(m) /\ 1 \in 1..used
    BY <1>1, <1>2, <1>3
  <2>2. posted[1] = batch[m]
    BY <1>1, <1>2, <2>1
  <2>3. /\ command' = batch[m] /\ batch' = batch /\ used' = used - 1
        /\ \A k \in 1..(used - 1) : posted'[k] = posted[k + 1]
        /\ loop' = LoopAfter(loop, batch[m])
        /\ pc' = IF batch[m].kind = "sleep" THEN "sleep" ELSE NextPc(loop'.state)
        /\ \A k \in 1..n : k # m => runs'[batch[k]] = runs[batch[k]]
        /\ runs[batch[m]] < MaxRuns => runs'[batch[m]] = runs[batch[m]] + 1
    BY <2>1, <2>2, FetchFacts
  <2>4. loop' = loop /\ pc' \in {"post", "sleep"}
    BY <1>2, <2>1, <2>3 DEF LoopAfter, IsLoop, NextPc
  <2>5. used' = n - l /\ used = n - l + 1
    BY <1>1, <1>2, <2>3
  <2>6. ASSUME NEW k \in 1..(n - l)
        PROVE  /\ m + k <= n => posted'[k] = batch[m + k]
               /\ m + k > n => posted'[k] = batch[m + k - (n - l + 1)]
    <3> DEFINE j == k + 1
    <3>1. j \in 1..used /\ c + j = m + k /\ k \in 1..(used - 1)
      <4>1. n \in Nat /\ l \in 1..n /\ c \in 1..n
        BY <1>1
      <4> QED BY <2>5, <4>1
    <3>2. posted'[k] = posted[j]
      BY <2>3, <3>1
    <3> HIDE DEF j
    <3>3. /\ c + j <= n => posted[j] = batch[c + j]
          /\ c + j > n => posted[j] = batch[c + j - (n - l + 1)]
      BY <1>2, <3>1
    <3> HIDE DEF m
    <3>4. CASE m + k <= n
      BY <3>1, <3>2, <3>3, <3>4
    <3>5. CASE m + k > n
      <4>1. c + j - (n - l + 1) = m + k - (n - l + 1)
        <5>1. n \in Int /\ l \in Int /\ c \in Int /\ m \in Int /\ k \in Int
          BY <1>1, <2>1
        <5> QED BY <3>1, <5>1
      <4> QED BY <3>1, <3>2, <3>3, <3>5, <4>1
    <3>6. m + k \in Int /\ n \in Int
      BY <1>1, <2>1
    <3> QED BY <3>4, <3>5, <3>6
  <2>7. loop.count \in 1..(v - 1) => Counts(m, l, q)'
    <3> SUFFICES ASSUME loop.count \in 1..(v - 1), Counts(c, l, q) PROVE Counts(m, l, q)'
      BY <1>2
    <3>1. runs[batch[m]] = IF m < l THEN 1 ELSE IF m <= c THEN q ELSE q - 1
      BY <1>1, <2>1 DEF Counts
    <3>2. ~(m < l) /\ ~(m <= c) /\ q - 1 < MaxRuns
      BY <1>1, <2>1
    <3>3. runs'[batch[m]] = runs[batch[m]] + 1
      BY <2>3, <3>1, <3>2
    <3>4. m = c + 1 /\ c \in 0..n /\ l \in 0..c /\ n \in Nat
      BY <1>1, <1>2
    <3> HIDE DEF m
    <3> QED BY <1>1, <2>1, <2>3, <3>3, <3>4, CountNext
  <2> HIDE DEF m
  <2>8. Ahead(m)' /\ Behind(m, l)'
    BY <2>3, <2>5, <2>6 DEF Ahead, Behind
  <2>9. l <= m /\ m \in DOMAIN batch' /\ batch'[l].value = v /\ used' = Len(batch') - l
    BY <1>1, <2>1, <2>3, <2>5
  <2>10. Looping(m, l)'
    <3>1. \/ loop'.count <= 0 /\ batch'[l].value <= 1
          \/ /\ loop'.count \in 1..(batch'[l].value - 1)
             /\ Counts(m, l, batch[l].value - loop.count)'
      BY <1>2, <2>4, <2>7, <2>9 DEF Counts
    <3> QED BY <1>2, <2>3, <2>4, <2>8, <2>9, <3>1 DEF Looping, IsLoop
  <2> QED BY <2>9, <2>10
<1>4. CASE c = n
  <2>1. posted[1] = batch[l] /\ \A k \in 1..used : posted[k] = batch[l + k - 1]
    <3>1. ASSUME NEW k \in 1..used PROVE posted[k] = batch[l + k - 1]
      <4>1. c + k > n /\ c + k - (n - l + 1) = l + k - 1
        BY <1>1, <1>2, <1>4
      <4> QED BY <1>2, <4>1
    <3>2. 1 \in 1..used /\ l + 1 - 1 = l
      BY <1>1, <1>2
    <3>3. posted[1] = batch[l + 1 - 1]
      BY <3>1, <3>2
    <3> QED BY <3>1, <3>2, <3>3
  <2>2. /\ command' = batch[l] /\ batch' = batch /\ used' = used - 1
        /\ \A k \in 1..(used - 1) : posted'[k] = posted[k + 1]
        /\ loop' = LoopAfter(loop, batch[l])
        /\ pc' = IF batch[l].kind = "sleep" THEN "sleep" ELSE NextPc(loop'.state)
        /\ \A k \in 1..n : k # l => runs'[batch[k]] = runs[batch[k]]
        /\ runs[batch[l]] < MaxRuns => runs'[batch[l]] = runs[batch[l]] + 1
    BY <2>1, FetchFacts
  <2>3. /\ loop'.count = Countdown(loop.count) /\ pc' = NextPc(loop'.state)
        /\ loop'.state = IF Countdown(loop.count) = 0 THEN "SINGLE" ELSE "LOOP"
    BY <1>2, <2>2 DEF LoopAfter, IsLoop
  <2>4. used' = n - l
    BY <1>1, <1>2, <2>2
  <2>5. ASSUME NEW k \in 1..(n - l) PROVE posted'[k] = batch[l + k] /\ ~(l + k > n)
    <3>1. k + 1 \in 1..used /\ l + (k + 1) - 1 = l + k /\ k \in 1..(used - 1) /\ ~(l + k > n)
      BY <1>1, <1>2
    <3>2. posted'[k] = posted[k + 1] /\ posted[k + 1] = batch[l + (k + 1) - 1]
      BY <2>1, <2>2, <3>1
    <3> QED BY <3>1, <3>2
  <2>6. Ahead(l)' /\ Behind(l, l)'
    BY <2>2, <2>4, <2>5 DEF Ahead, Behind
  <2>7. loop.count \in 1..(v - 1) => Counts(l, l, q + 1)'
    <3> SUFFICES ASSUME loop.count \in 1..(v - 1), Counts(c, l, q) PROVE Counts(l, l, q + 1)'
      BY <1>2
    <3>1. runs[batch[l]] = IF l < l THEN 1 ELSE IF l <= c THEN q ELSE q - 1
      BY <1>1 DEF Counts
    <3>2. ~(l < l) /\ l <= c /\ q < MaxRuns
      BY <1>1, <1>2
    <3>3. runs'[batch[l]] = runs[batch[l]] + 1
      BY <2>2, <3>1, <3>2
    <3> QED BY <1>1, <1>4, <2>2, <3>3, CountTurn
  <2>8. l <= l /\ l \in DOMAIN batch' /\ batch'[l].value = v /\ used' = Len(batch') - l
    BY <1>1, <2>2, <2>4
  <2>9. CASE loop.count <= 0 /\ v <= 1
    <3>1. loop'.count <= 0 /\ loop'.state = "LOOP" /\ pc' = "post"
      BY <1>1, <2>3, <2>9 DEF Countdown, NextPc
    <3>2. Looping(l, l)'
      BY <1>2, <2>2, <2>6, <2>8, <2>9, <3>1 DEF Looping, IsLoop
    <3> QED BY <2>8, <3>2
  <2>10. CASE loop.count \in 1..(v - 1)
    <3>1. loop'.count = loop.count - 1 /\ Countdown(loop.count) = loop.count - 1
      BY <1>1, <2>3, <2>10 DEF Countdown
    <3>2. CASE loop.count = 1
      <4>1. loop'.state = "SINGLE" /\ pc' = "fetch" /\ q + 1 = v
        BY <1>1, <2>3, <3>1, <3>2 DEF NextPc
      <4>2. Counts(l, l, batch[l].value)'
        BY <2>7, <2>8, <2>10, <4>1 DEF Counts
      <4>3. LastTurn(l, l)'
        BY <1>2, <2>2, <2>6, <2>8, <4>1, <4>2 DEF LastTurn, IsLoop
      <4> QED BY <2>8, <4>3
    <3>3. CASE loop.count # 1
      <4>1. /\ loop'.state = "LOOP" /\ pc' = "post" /\ loop'.count \in 1..(v - 1)
            /\ v - loop'.count = q + 1
        BY <1>1, <2>3, <2>10, <3>1, <3>3 DEF NextPc
      <4>2. Counts(l, l, batch[l].value - loop.count)'
        BY <2>7, <2>8, <2>10, <4>1 DEF Counts
      <4>3. Looping(l, l)'
        BY <1>2, <2>2, <2>6, <2>8, <4>1, <4>2 DEF Looping, IsLoop
      <4> QED BY <2>8, <4>3
    <3> QED BY <3>2, <3>3
  <2> QED BY <1>2, <2>9, <2>10
<1> QED BY <1>1, <1>3, <1>4

LEMMA FetchCourse ==
  ASSUME OneLoop, Typed, Kept, Course, Fetch
  PROVE  Course'
<1> SUFFICES ASSUME Apart' PROVE Running'
  BY DEF Course
<1>1. Apart /\ Held /\ pc = "fetch" /\ used > 0
  BY DEF Fetch, history, Apart, Kept, HeldIfApart
<1>2. xpc # "set"
  BY DEF Fetch, Runs
<1>3. Running
  BY <1>1, <1>2 DEF Course, Unset, Setting, Set, Finished, Stopped
<1>4. Quiet' /\ batch' = batch
  BY <1>3 DEF Running, Quiet, Fetch
<1>5. \/ \E c \in 0..Len(batch') : Plain(c)'
      \/ \E c, l \in DOMAIN batch' : Looping(c, l)' \/ LastTurn(c, l)'
  <2>1. DOMAIN batch = 1..Len(batch)
    BY <1>3, BatchFacts DEF Running
  <2>2. CASE \E c \in 0..Len(batch) : Plain(c)
    BY <1>1, <1>3, <2>2, FetchPlain DEF Running
  <2>3. CASE \E c, l \in DOMAIN batch : Looping(c, l)
    <3>1. PICK c, l \in 1..Len(batch) : Looping(c, l)
      BY <2>1, <2>3
    <3>2. \E d \in DOMAIN batch' : Looping(d, l)' \/ LastTurn(d, l)'
      BY <1>1, <1>3, <3>1, FetchLooping DEF Running
    <3> QED BY <1>4, <2>1, <3>2
  <2>4. CASE \E c, l \in DOMAIN batch : LastTurn(c, l)
    <3>1. PICK c, l \in 1..Len(batch) : LastTurn(c, l)
      BY <2>1, <2>4
    <3>2. \E d \in DOMAIN batch' : LastTurn(d, l)'
      BY <1>1, <1>3, <3>1, FetchLast DEF Running
    <3> QED BY <1>4, <2>1, <3>2
  <2> QED BY <1>3, <2>2, <2>3, <2>4 DEF Running
<1> QED BY <1>3, <1>4, <1>5 DEF Running

\* The command of a loop that has been executed is posted again, at the end.
LEMMA RepostCourse ==
  ASSUME OneLoop, Typed, Course, Repost
  PROVE  Course'
<1> SUFFICES ASSUME Apart' PROVE Running'
  BY DEF Course
<1>1. Apart /\ pc = "post" /\ xpc # "set"
  BY DEF Repost, Runs, history, Apart
<1>2. Running
  BY <1>1 DEF Course, Unset, Setting, Set, Finished, Stopped
<1>3. /\ used' = used + 1 /\ posted' = Append(posted, command) /\ pc' = "fetch"
      /\ batch' = batch /\ loop' = loop /\ runs' = runs /\ Quiet'
  BY <1>2 DEF Running, Quiet, Repost, Post
<1>4. /\ DOMAIN batch = 1..Len(batch) /\ Len(batch) \in Nat
      /\ posted \in Seq(Commands \cup {NoCommand}) /\ Len(posted) = used
      /\ command \in Commands \cup {NoCommand} /\ used \in Nat
  BY <1>2, BatchFacts DEF Running, Typed, TypeOK
<1>5. posted'[used + 1] = command /\ \A k \in 1..used : posted'[k] = posted[k]
  BY <1>3, <1>4, AppendProperties
<1>6. PICK c, l \in 1..Len(batch) : Looping(c, l)
  BY <1>1, <1>2, <1>4 DEF Running, Plain, LastTurn
<1>7. /\ l <= c /\ IsLoop(l) /\ loop.state = "LOOP"
      /\ command = batch[c] /\ used = Len(batch) - l
  BY <1>1, <1>6 DEF Looping
<1>8. used' = Len(batch) - l + 1 /\ c + (used + 1) > Len(batch)
      /\ c + (used + 1) - (Len(batch) - l + 1) = c
  BY <1>3, <1>4, <1>6, <1>7
<1>9. \A k \in 1..used' : k \in 1..used \/ k = used + 1
  BY <1>3, <1>4
<1>10. Ahead(c)'
  <2> SUFFICES ASSUME NEW k \in 1..used', c + k <= Len(batch) PROVE posted'[k] = batch[c + k]
    BY <1>3 DEF Ahead
  <2>1. k \in 1..used
    BY <1>4, <1>8, <1>9
  <2> QED BY <1>5, <1>6, <2>1 DEF Looping, Ahead
<1>11. Behind(c, l)'
  <2> SUFFICES ASSUME NEW k \in 1..used', c + k > Len(batch)
               PROVE  posted'[k] = batch[c + k - (Len(batch) - l + 1)]
    BY <1>3 DEF Behind
  <2>1. CASE k \in 1..used
    BY <1>5, <1>6, <2>1 DEF Looping, Behind
  <2>2. CASE k = used + 1
    BY <1>5, <1>7, <1>8, <2>2
  <2> QED BY <1>9, <2>1, <2>2
<1>12. \/ loop.count <= 0 /\ batch[l].value <= 1
       \/ loop.count \in 1..(batch[l].value - 1) /\ Counts(c, l, batch[l].value - loop.count)'
  BY <1>3, <1>6 DEF Looping, Counts
<1>13. Looping(c, l)'
  BY <1>3, <1>7, <1>8, <1>10, <1>11, <1>12 DEF Looping, IsLoop
<1> QED BY <1>2, <1>3, <1>4, <1>6, <1>13 DEF Running

\* A sleep ends.
LEMMA SleptCourse ==
  ASSUME OneLoop, Typed, Course, Slept
  PROVE  Course'
<1> SUFFICES ASSUME Apart' PROVE Running'
  BY DEF Course
<1>1. Apart /\ pc = "sleep" /\ xpc # "set" /\ pc' = NextPc(loop.state)
  BY DEF Slept, Runs, history, Apart
<1>2. Running
  BY <1>1 DEF Course, Unset, Setting, Set, Finished, Stopped
<1>3. /\ used' = used /\ posted' = posted /\ command' = command
      /\ batch' = batch /\ loop' = loop /\ runs' = runs /\ Quiet'
  BY <1>2 DEF Running, Quiet, Slept, box
<1>4. \A c, l : Ahead(c)' = Ahead(c) /\ Behind(c, l)' = Behind(c, l)
  BY <1>3 DEF Ahead, Behind
<1>5. ASSUME NEW c, Plain(c) PROVE Plain(c)'
  <2>1. Counts(c, 0, 1)'
    BY <1>3, <1>5 DEF Plain, Counts
  <2>2. Ahead(c)'
    BY <1>4, <1>5 DEF Plain
  <2> QED BY <1>1, <1>3, <1>5, <2>1, <2>2 DEF Plain, NextPc, IsLoop
<1>6. ASSUME NEW c, NEW l, Looping(c, l) PROVE Looping(c, l)'
  <2>1. \/ loop.count <= 0 /\ batch[l].value <= 1
        \/ loop.count \in 1..(batch[l].value - 1) /\ Counts(c, l, batch[l].value - loop.count)'
    BY <1>3, <1>6 DEF Looping, Counts
  <2>2. Ahead(c)' /\ Behind(c, l)'
    BY <1>4, <1>6 DEF Looping
  <2> QED BY <1>1, <1>3, <1>6, <2>1, <2>2 DEF Looping, NextPc, IsLoop
<1>7. ASSUME NEW c, NEW l, LastTurn(c, l) PROVE LastTurn(c, l)'
  <2>1. Counts(c, l, batch[l].value)'
    BY <1>3, <1>7 DEF LastTurn, Counts
  <2>2. Ahead(c)'
    BY <1>4, <1>7 DEF LastTurn
  <2> QED BY <1>1, <1>3, <1>7, <2>1, <2>2 DEF LastTurn, NextPc, IsLoop
<1> QED BY <1>2, <1>3, <1>5, <1>6, <1>7 DEF Running

\* The box is empty: every command has been executed as often as the list asks for.
LEMMA OverCourse ==
  ASSUME OneLoop, Typed, Course, Over
  PROVE  Course'
<1> SUFFICES ASSUME Apart' PROVE Finished'
  BY DEF Course
<1>1. Apart /\ pc = "fetch" /\ used = 0 /\ xpc # "set"
  BY DEF Over, Runs, history, Apart
<1>2. Running
  BY <1>1 DEF Course, Unset, Setting, Set, Finished, Stopped
<1>3. /\ used' = used /\ batch' = batch /\ runs' = runs /\ Quiet' /\ Stopped'
  <2>1. loop'.state = "SINGLE"
    BY DEF Over, Typed, TypeOK, Loops
  <2> QED BY <1>2, <2>1 DEF Running, Quiet, Stopped, Over, box
<1>4. /\ DOMAIN batch = 1..Len(batch) /\ Len(batch) \in Nat
  BY <1>2, BatchFacts DEF Running
<1>5. ASSUME NEW k \in 1..Len(batch) PROVE runs[batch[k]] = Times(batch, k)
  <2>1. CASE \E c \in 0..Len(batch) : Plain(c)
    <3>1. PICK c \in 0..Len(batch) : Plain(c)
      BY <2>1
    <3>2. c = Len(batch)
      <4>1. used = Len(batch) - c
        BY <3>1 DEF Plain
      <4>2. Len(batch) \in Int /\ c \in Int /\ used = 0
        BY <1>1, <1>4
      <4> QED BY <4>1, <4>2
    <3>3. (\A j \in 1..k : ~IsLoop(j)) /\ ~(k < 0) /\ k <= c
      BY <1>4, <3>1, <3>2 DEF Plain
    <3>4. runs[batch[k]] = 1
      BY <1>4, <3>1, <3>3 DEF Plain, Counts
    <3> QED BY <1>2, <3>3, <3>4, TimesFacts DEF Running
  <2>2. CASE \E c, l \in DOMAIN batch : LastTurn(c, l)
    <3>1. PICK c, l \in 1..Len(batch) : LastTurn(c, l)
      BY <1>4, <2>2
    <3>2. c = Len(batch) /\ IsLoop(l)
      <4>1. used = Len(batch) - c /\ IsLoop(l)
        BY <3>1 DEF LastTurn
      <4>2. Len(batch) \in Int /\ c \in Int /\ used = 0
        BY <1>1, <1>4
      <4> QED BY <4>1, <4>2
    <3>3. runs[batch[k]] = IF k < l THEN 1 ELSE IF k <= c THEN batch[l].value
                           ELSE batch[l].value - 1
      BY <1>4, <3>1 DEF LastTurn, Counts
    <3>4. CASE k < l
      <4>1. \A j \in 1..k : j \in 1..Len(batch) /\ j # l
        BY <1>4, <3>1, <3>4
      <4>2. \A j \in 1..k : ~IsLoop(j)
        BY <1>2, <3>2, <4>1, BatchFacts DEF Running
      <4> QED BY <1>2, <3>3, <3>4, <4>2, TimesFacts DEF Running
    <3>5. CASE ~(k < l)
      <4>1. l \in 1..k /\ k <= c
        BY <1>4, <3>1, <3>2, <3>5
      <4> QED BY <1>2, <3>2, <3>3, <3>5, <4>1, TimesFacts DEF Running
    <3> QED BY <3>4, <3>5
  <2>3. ASSUME NEW c \in 1..Len(batch), NEW l \in 1..Len(batch), Looping(c, l) PROVE FALSE
    BY <1>1, <1>4, <2>3 DEF Looping
  <2> QED BY <1>2, <1>4, <2>1, <2>2, <2>3 DEF Running
<1>6. \A k \in DOMAIN batch' : runs'[batch'[k]] = Times(batch', k)
  BY <1>3, <1>4, <1>5
<1> QED BY <1>1, <1>2, <1>3, <1>6 DEF Running, Finished

\* An alarm is set.
LEMMA SetAlarmCourse ==
  ASSUME OneLoop, Typed, Course, NEW b \in Batches, SetAlarm(b)
  PROVE  Course'
<1> SUFFICES ASSUME Apart' PROVE Setting'
  BY DEF Course
<1>1. /\ Apart /\ pc = "wait" /\ used = 0 /\ xpc = "idle"
  BY DEF SetAlarm, Apart
<1>2. ~Set
  <2>1. batch \in Batches => Len(batch) # 0
    BY BatchFacts
  <2> QED BY <1>1, <2>1 DEF Set
<1>3. ~alarm_bsem /\ Stopped
  <2>1. ~Running
    BY <1>1 DEF Running, Plain, Looping, LastTurn
  <2> QED BY <1>1, <1>2, <2>1 DEF Course, Unset, Setting, Finished, Quiet
<1>4. /\ xpc' = "set" /\ ~timer' /\ ~alarm_bsem' /\ Stopped' /\ NoRuns'
      /\ batch' = b /\ used' = 0
  BY <1>1, <1>3 DEF SetAlarm, Stopped, NoRuns, box
<1>5. Ahead(0)'
  BY <1>4 DEF Ahead
<1> QED BY <1>4, <1>5 DEF Setting

\* A command of the list is posted.
LEMMA PostNextCourse ==
  ASSUME OneLoop, Typed, Kept, Course, PostNext
  PROVE  Course'
<1> SUFFICES ASSUME Apart' PROVE Setting'
  BY DEF Course
<1>1. Apart /\ xpc = "set" /\ i < Len(batch)
  BY DEF PostNext, history, Apart
<1>2. Setting /\ used = i /\ batch \in Batches
  BY <1>1 DEF Course, Kept, SetApart, Unset, Set, Running, Finished, Quiet, Setting
<1>3. /\ Len(batch) \in Nat /\ Len(batch) <= MaxCommands /\ MaxCommands \in Nat /\ used \in Nat
      /\ posted \in Seq(Commands \cup {NoCommand}) /\ Len(posted) = used
      /\ batch[used + 1] \in Commands
  <2>1. Len(batch) \in Nat /\ used \in Nat /\ used + 1 \in 1..Len(batch)
    BY <1>1, <1>2, BatchFacts DEF Typed, TypeOK
  <2> QED BY <1>2, <2>1, BatchFacts, MaxAssumption DEF Typed, TypeOK
<1>4. Room
  BY <1>1, <1>2, <1>3 DEF Room
<1>5. /\ used' = used + 1 /\ posted' = Append(posted, batch[used + 1]) /\ batch' = batch
      /\ UNCHANGED <<xpc, timer, alarm_bsem, pc, loop, runs>>
  BY <1>2, <1>4 DEF PostNext, Post
<1>6. posted'[used + 1] = batch[used + 1] /\ \A k \in 1..used : posted'[k] = posted[k]
  BY <1>3, <1>5, AppendProperties
<1>7. Ahead(0)'
  <2> SUFFICES ASSUME NEW k \in 1..(used + 1), 0 + k <= Len(batch)
               PROVE  posted'[k] = batch[0 + k]
    BY <1>5 DEF Ahead
  <2>1. 0 + k = k
    BY <1>3
  <2>2. CASE k = used + 1
    BY <1>6, <2>1, <2>2
  <2>3. CASE k \in 1..used
    BY <1>2, <1>6, <2>3 DEF Setting, Ahead
  <2> QED BY <1>3, <2>2, <2>3
<1> QED BY <1>2, <1>5, <1>7 DEF Setting, Stopped, NoRuns

LEMMA OtherCourse ==
  ASSUME OneLoop, Typed, Kept, Course, Armed \/ Expire \/ Wake \/ PostWoken \/ UNCHANGED vars
  PROVE  Course'
<1> SUFFICES ASSUME Apart' PROVE (Unset \/ Setting \/ Set \/ Running \/ Finished)'
  BY DEF Course
<1>1. Apart
  BY DEF Armed, Expire, Wake, PostWoken, vars, history, Apart
<1>2. CASE Armed
  <2>1. Setting /\ used = Len(batch)
    BY <1>1, <1>2
       DEF Armed, Course, Kept, SetApart, Unset, Set, Running, Finished, Quiet
  <2>2. Ahead(0)'
    BY <1>2, <2>1 DEF Armed, Setting, Ahead, box
  <2>3. Set'
    BY <1>2, <2>1, <2>2 DEF Armed, Setting, Set, Stopped, NoRuns, box
  <2> QED BY <2>3
<1>3. CASE Expire
  <2>1. Set
    BY <1>1, <1>3 DEF Expire, Course, Unset, Setting, Running, Finished, Quiet
  <2>2. Ahead(0)'
    BY <1>3, <2>1 DEF Expire, Set, Ahead, box
  <2>3. Set'
    BY <1>3, <2>1, <2>2 DEF Expire, Set, Stopped, NoRuns, box
  <2> QED BY <2>3
<1>4. CASE Wake
  <2>1. Set
    BY <1>1, <1>4 DEF Wake, Runs, Course, Unset, Setting, Running, Finished, Quiet
  <2>2. /\ DOMAIN batch = 1..Len(batch) /\ Len(batch) \in Nat
        /\ \A k \in 1..Len(batch) : batch[k] \in Commands
    BY <2>1, BatchFacts DEF Set
  <2>3. Ahead(0)'
    BY <1>4, <2>1 DEF Wake, Set, Ahead, box
  <2>4. Counts(0, 0, 1)'
    <3> SUFFICES ASSUME NEW k \in 1..Len(batch)
                 PROVE  runs[batch[k]] = IF k < 0 THEN 1 ELSE IF k <= 0 THEN 1 ELSE 1 - 1
      BY <1>4, <2>2 DEF Wake, Counts
    <3>1. ~(k < 0) /\ ~(k <= 0) /\ 1 - 1 = 0
      BY <2>2
    <3> QED BY <2>1, <2>2, <3>1 DEF Set, NoRuns
  <2>5. used' = Len(batch') - 0 /\ batch' = batch /\ pc' = "fetch" /\ loop' = loop
    BY <1>4, <2>1, <2>2 DEF Wake, Set, box
  <2>6. Plain(0)'
    BY <2>1, <2>3, <2>4, <2>5 DEF Plain, Set, Stopped
  <2>7. Quiet' /\ 0 \in 0..Len(batch')
    BY <1>4, <2>1, <2>2, <2>5 DEF Wake, Set, Quiet
  <2>8. Running'
    BY <2>1, <2>5, <2>6, <2>7 DEF Running, Set
  <2> QED BY <2>8
<1>5. CASE PostWoken
  BY <1>1, <1>5 DEF PostWoken, Kept, SetApart
<1>6. CASE UNCHANGED vars
  <2>1. /\ used' = used /\ posted' = posted /\ timer' = timer /\ alarm_bsem' = alarm_bsem
        /\ pc' = pc /\ command' = command /\ loop' = loop /\ xpc' = xpc /\ batch' = batch
        /\ runs' = runs
    BY <1>6 DEF vars, box
  <2>2. /\ Quiet' = Quiet /\ Stopped' = Stopped /\ NoRuns' = NoRuns
        /\ \A c, l : Ahead(c)' = Ahead(c) /\ Behind(c, l)' = Behind(c, l) /\ IsLoop(c)' = IsLoop(c)
        /\ \A c, l, q : Counts(c, l, q)' = Counts(c, l, q)
    BY <2>1 DEF Quiet, Stopped, NoRuns, Ahead, Behind, IsLoop, Counts
  <2>3. Unset \/ Setting \/ Set \/ Finished => (Unset \/ Setting \/ Set \/ Finished)'
    BY <2>1, <2>2 DEF Unset, Setting, Set, Finished
  <2>4. \A c : Plain(c) => Plain(c)'
    BY <2>1, <2>2 DEF Plain
  <2>5. \A c, l : LastTurn(c, l) => LastTurn(c, l)'
    <3> SUFFICES ASSUME NEW c, NEW l, LastTurn(c, l) PROVE LastTurn(c, l)'
      OBVIOUS
    <3>1. Counts(c, l, batch[l].value)'
      BY <2>1 DEF LastTurn, Counts
    <3> QED BY <2>1, <2>2, <3>1 DEF LastTurn
  <2>6. \A c, l : Looping(c, l) => Looping(c, l)'
    <3> SUFFICES ASSUME NEW c, NEW l, Looping(c, l) PROVE Looping(c, l)'
      OBVIOUS
    <3>1. \/ loop.count <= 0 /\ batch[l].value <= 1
          \/ loop.count \in 1..(batch[l].value - 1) /\ Counts(c, l, batch[l].value - loop.count)'
      BY <2>1 DEF Looping, Counts
    <3> QED BY <2>1, <2>2, <3>1 DEF Looping
  <2>7. Running => Running'
    BY <2>1, <2>2, <2>4, <2>5, <2>6 DEF Running
  <2> QED BY <1>1, <2>3, <2>7 DEF Course
<1> QED BY <1>2, <1>3, <1>4, <1>5, <1>6

----------------------------------------------------------------------------
(* The theorems.                                                           *)

LEMMA AlarmInvariant == Spec => [](Typed /\ Kept)
<1>1. Init => Typed /\ Kept
  BY InitTyped, InitKept
<1>2. Typed /\ Kept /\ [Next]_vars => (Typed /\ Kept)'
  BY NextTyped, NextKept
<1> QED BY <1>1, <1>2, PTL DEF Spec

\* The pointers of the ring of commands_box agree with the number of its messages, whatever
\* the lists and however the alarms overlap, and every variable keeps its type (alarm.c:18-120).
THEOREM AlarmTypeOK == Spec => []TypeOK
<1>1. Typed => TypeOK
  BY DEF Typed
<1> QED BY <1>1, AlarmInvariant, PTL

\* When each alarm is set after the one before it is over, and the write pointer is at 0 or
\* beyond the list, the write to commands[i] (alarm.c:88) never hits a message of the box.
THEOREM AlarmHeldIfApart == Spec => []HeldIfApart
<1>1. Kept => HeldIfApart
  BY DEF Kept
<1> QED BY <1>1, AlarmInvariant, PTL

\* When the alarms are set apart, and each list has one loop at most, an alarm that is over
\* has executed each of its commands as often as it was asked to (alarm.c:26-66).
THEOREM AlarmIsDone == OneLoop => (Spec => []AlarmDone)
<1> SUFFICES ASSUME OneLoop PROVE Spec => []AlarmDone
  OBVIOUS
<1>1. Init => Course
  BY DEF Init, Course, Unset, Quiet, Stopped, Single
<1>2. Typed /\ Kept /\ Course /\ [Next]_vars => Course'
  BY SetAlarmCourse, PostNextCourse, FetchCourse, RepostCourse, SleptCourse, OverCourse,
     OtherCourse DEF Next
<1>3. Typed /\ Course => AlarmDone
  <2> SUFFICES ASSUME Typed, Course, Apart, batch # <<>>, xpc = "idle", ~timer, ~alarm_bsem,
                      pc = "wait", NEW k \in DOMAIN batch
               PROVE  runs[batch[k]] = Times(batch, k)
    BY DEF AlarmDone
  <2>1. Finished
    BY DEF Course, Unset, Setting, Set, Running, Plain, Looping, LastTurn
  <2> QED BY <2>1 DEF Finished
<1> QED BY <1>1, <1>2, <1>3, AlarmInvariant, PTL DEF Spec

=============================================================================
