------------------------------ MODULE AudioProofs ------------------------------
(***************************************************************************)
(* Theorems about Audio.                                                   *)
(***************************************************************************)
EXTENDS Audio, FiniteSetTheorems, TLAPS

\* The parts of the type invariant, with what they need of each other.
PcTyped ==
  /\ pc \in [Threads -> DLabels \cup FLabels \cup WLabels \cup XLabels]
  /\ pc["D"] \in DLabels /\ pc["F"] \in FLabels /\ pc["W"] \in WLabels /\ pc["X"] \in XLabels
  /\ cur \in NormalPrio

BoxesTyped ==
  /\ freeIn \in Seq(InBufs \cup {Null}) /\ Len(freeIn) <= NIn
  /\ inBox \in Seq(InBufs \cup {Null}) /\ Len(inBox) <= NIn
  /\ freeDec \in Seq(DecBufs) /\ Len(freeDec) <= NDec
  /\ content \in [InBufs -> Nat]
  /\ held \in [Threads -> InBufs \cup {Null}]
  /\ pbuf \in DecBufs \cup {Null}
  /\ sent \in Nat /\ lastRead \in Nat

BufferTyped == rd \in 0..wr /\ wr \in 0..WBSize

FlagsTyped ==
  /\ owner \in {"none", "F", "W"} /\ i2s \in BOOLEAN /\ started \in BOOLEAN
  /\ audio_bsem \in BOOLEAN /\ download_bsem \in BOOLEAN /\ decode_bsem \in BOOLEAN
  /\ urgent_stop \in BOOLEAN /\ booting \in BOOLEAN

CountsTyped ==
  /\ nodata \in 0..MaxNoData /\ initial_buffering \in 0..NIn /\ repeat \in -1..1
  /\ net \in Nat /\ requests \in Nat /\ bad \in Nat /\ music_id \in Nat /\ cur_pos \in Nat
  /\ count \in {0, 1} /\ half \in {0, 1} /\ audio_sem \in 0..SemCap

\* There is room in the working buffer for the buffer that is fetched, a repetition in
\* progress is still counted, a download that goes on has not met its last error, and pbuf
\* is set when it is posted.
Limits ==
  /\ pc["D"] = "d_fetch" => wr + InSize <= WBSize
  /\ pc["F"] \in {"f_free", "f_post"} => repeat >= 0
  /\ pc["W"] \in {"w_lock", "w_free", "w_read", "w_sleep"} => nodata < MaxNoData
  /\ pbuf = Null => Len(freeDec) = NDec /\ pc["D"] \in {"d_top", "d_wait", "d_free"}

Typed == TypeOK /\ Limits

LEMMA TypeParts ==
  TypeOK <=> PcTyped /\ BoxesTyped /\ BufferTyped /\ FlagsTyped /\ CountsTyped
BY DEF TypeOK, PcTyped, BoxesTyped, BufferTyped, FlagsTyped, CountsTyped

LEMMA TypeInit == Init => Typed
<1> SUFFICES ASSUME Init PROVE PcTyped /\ BoxesTyped /\ BufferTyped /\ FlagsTyped /\ CountsTyped /\ Limits
  BY TypeParts DEF Typed
<1>1. PcTyped
  BY DEF Init, PcTyped, Threads, NormalPrio, DLabels, FLabels, WLabels, XLabels
<1>2. BoxesTyped
  BY BufferAssumption DEF Init, BoxesTyped, InBufs, DecBufs, Null
<1>3. BufferTyped /\ CountsTyped /\ Limits
  BY BufferAssumption, SizeAssumption, BoundAssumption DEF Init, BufferTyped, CountsTyped, Limits, DecBufs
<1>4. FlagsTyped
  BY Zenon DEF Init, FlagsTyped
<1> QED BY <1>1, <1>2, <1>3, <1>4

\* The threads: each goes from a call of its own to another of its own.
LEMMA StepPc ==
  ASSUME PcTyped, NEW t \in Threads, NEW from, NEW to,
         Step(t, from, to) \/ Wake(t, from, to),
         t = "D" => to \in DLabels, t = "F" => to \in FLabels, t = "W" => to \in WLabels,
         t = "X" => to \in XLabels
  PROVE  PcTyped'
BY DEF Step, Wake, PcTyped, Threads, NormalPrio

LEMMA ResetPc ==
  ASSUME PcTyped, NEW t \in {"F", "W"}, NEW from, NEW to, Reset(t, from, to),
         t = "F" => to \in FLabels, t = "W" => to \in WLabels
  PROVE  PcTyped'
<1> DEFINE After(u) == IF OnMailbox(pc[u]) /\ Blocked(u) THEN AfterReset(pc[u]) ELSE pc[u]
<1>1. After("D") \in DLabels
  BY DEF PcTyped, AfterReset, DLabels
<1>2. After("F") \in FLabels
  BY DEF PcTyped, AfterReset, FLabels
<1>3. After("W") \in WLabels
  BY DEF PcTyped, AfterReset, WLabels
<1>4. After("X") \in XLabels
  BY DEF PcTyped, AfterReset, XLabels
<1>5. pc' = [u \in Threads |-> IF u = t THEN to ELSE After(u)]
  BY DEF Reset
<1>6. cur' \in NormalPrio
  BY DEF Reset, PcTyped, NormalPrio
<1> HIDE DEF After
<1>7. pc'["D"] \in DLabels /\ pc'["F"] \in FLabels /\ pc'["W"] \in WLabels /\ pc'["X"] \in XLabels
  BY <1>1, <1>2, <1>3, <1>4, <1>5 DEF Threads
<1>8. pc' \in [Threads -> DLabels \cup FLabels \cup WLabels \cup XLabels]
  BY <1>5, <1>7 DEF Threads
<1> QED BY <1>6, <1>7, <1>8 DEF PcTyped

LEMMA NextPc == ASSUME PcTyped, [Next]_vars PROVE PcTyped'
<1>1. CASE DStep
  BY <1>1, StepPc DEF DStep, DTop, DWait, DFree, DEnough, DMore, DFetch, DRelease, DEndDec, DEndIn,
     DEnd, DNoSync, DFrame, DUnderflow, DDrop, DBadHeader, DBad, DClear, DSem, DPost, DStart,
     ReleasePbuf, DLabels, Threads
<1>2. CASE DTimeout \/ DDrained
  BY <1>2, StepPc DEF DTimeout, DDrained, DLabels, Threads
<1>3. CASE FStep
  BY <1>3, StepPc, ResetPc DEF FStep, FWait, FLock, FReset, FLoop, FFree, FPost, FEnd, FNull,
     TakeFreeIn, PostNull, FLabels, Threads
<1>4. CASE WStep
  BY <1>4, StepPc, ResetPc DEF WStep, WStart, WLoop, WLock, WFree, WStopped, WInsert, WEnd, WNull,
     TakeFreeIn, PostNull, WLabels, Threads
<1>5. CASE WDevice
  BY <1>5, StepPc DEF WDevice, WReadOk, WReadError, WSlept, WClosed, WLabels, Threads
<1>6. CASE PlayAnswered \/ PlayFailed \/ StopUrgently
  BY <1>6, StepPc DEF PlayAnswered, PlayFailed, StopUrgently, XLabels, Threads
<1>7. CASE Play \/ Stop
  BY <1>7 DEF Play, Stop, PcTyped, XLabels, Threads
<1>8. CASE Ring \/ RingStop \/ BootOver \/ I2SInterrupt \/ UNCHANGED vars
  BY <1>8 DEF Ring, RingStop, BootOver, I2SInterrupt, vars, PcTyped
<1> QED BY <1>1, <1>2, <1>3, <1>4, <1>5, <1>6, <1>7, <1>8 DEF Next, Commands

\* The names of all the actions, for what most of them leave alone.
LEMMA NextBuffer == ASSUME BufferTyped, Limits, [Next]_vars PROVE BufferTyped'
<1> USE SizeAssumption DEF BufferTyped
<1>1. CASE DTop \/ DNoSync \/ DClear \/ DDrained
  BY <1>1 DEF DTop, DNoSync, DClear, DDrained
<1>2. CASE DFetch
  BY <1>2 DEF DFetch, Step, Limits
<1>3. CASE DFrame
  BY <1>3 DEF DFrame, Consume
<1>4. CASE DUnderflow
  BY <1>4 DEF DUnderflow, Consume
<1>5. CASE DWait \/ DFree \/ DEnough \/ DMore \/ DRelease \/ DEndDec \/ DEndIn \/ DEnd \/ DDrop
           \/ DBadHeader \/ DBad \/ DSem \/ DPost \/ DStart
  BY <1>5 DEF DWait, DFree, DEnough, DMore, DRelease, DEndDec, DEndIn, DEnd, DDrop,
     DBadHeader, DBad, DSem, DPost, DStart, ReleasePbuf, dlocals
<1>6. CASE FStep
  BY <1>6 DEF FStep, FWait, FLock, FReset, FLoop, FFree, FPost, FEnd, FNull,
     TakeFreeIn, PostNull, dlocals
<1>7. CASE WStep \/ WDevice
  BY <1>7 DEF WStep, WStart, WLoop, WLock, WFree, WStopped, WInsert, WEnd, WNull,
     TakeFreeIn, PostNull, WDevice, WReadOk, WReadError, WSlept, WClosed, dlocals
<1>8. CASE Commands \/ PlayAnswered \/ PlayFailed \/ StopUrgently \/ BootOver \/ I2SInterrupt
           \/ DTimeout \/ UNCHANGED vars
  BY <1>8 DEF Commands, Play, Stop, Ring, RingStop, PlayAnswered, PlayFailed, StopUrgently, BootOver,
     I2SInterrupt, DTimeout, vars, dlocals
<1> QED BY <1>1, <1>2, <1>3, <1>4, <1>5, <1>6, <1>7, <1>8 DEF Next, DStep

LEMMA UnlockedOwner == \A t \in {"F", "W"} : PcTyped => Unlocked(t) \in {"none", "F", "W"}
<1> SUFFICES ASSUME NEW t \in {"F", "W"}, PcTyped PROVE Unlocked(t) \in {"none", "F", "W"}
  OBVIOUS
<1> DEFINE waiters == {u \in Threads \ {t} : pc[u] \in Locks}
<1>1. waiters \subseteq {"F", "W"}
  BY DEF PcTyped, Threads, Locks, DLabels, XLabels
<1>2. waiters # {} => (CHOOSE u \in waiters : TRUE) \in waiters
  OBVIOUS
<1> QED BY <1>1, <1>2 DEF Unlocked

LEMMA NextFlags == ASSUME PcTyped, FlagsTyped, [Next]_vars PROVE FlagsTyped'
<1> USE DEF FlagsTyped
<1>1. CASE DWait \/ DStart
  BY <1>1, Zenon DEF DWait, DStart, bsems, i2svars, flags, bounds
<1>2. CASE DMore \/ DEnd \/ DDrained
  BY <1>2, Zenon DEF DMore, DEnd, DDrained, StopI2S, bsems, i2svars, flags, bounds
<1>3. CASE DTop \/ DFree \/ DEnough \/ DFetch \/ DRelease \/ DEndDec \/ DEndIn \/ DFrame
           \/ DNoSync \/ DUnderflow \/ DBadHeader
  <2>1. UNCHANGED <<owner, i2s, started, bsems, urgent_stop, booting>>
    BY <1>3 DEF DTop, DFree, DEnough, DFetch, DRelease, DEndDec, DEndIn, DFrame,
       DNoSync, DUnderflow, DBadHeader, ReleasePbuf, bsems, i2svars, flags, bounds
  <2> QED BY <2>1 DEF bsems
<1>4. CASE DDrop \/ DBad \/ DClear \/ DSem \/ DPost \/ DTimeout \/ I2SInterrupt
  BY <1>4, Zenon DEF DDrop, DBad, DClear, DSem, DPost, DTimeout, I2SInterrupt, ReleasePbuf, bsems,
     i2svars, flags, bounds
<1>5. CASE FStep
  BY <1>5, UnlockedOwner, Zenon DEF FStep, FWait, FLock, FReset, FLoop, FFree, FPost, FEnd, FNull,
     TakeFreeIn, PostNull, bsems, i2svars, flags, bounds
<1>6. CASE WStep
  BY <1>6, UnlockedOwner, Zenon DEF WStep, WStart, WLoop, WLock, WFree, WStopped, WInsert, WEnd, WNull,
     TakeFreeIn, PostNull, bsems, i2svars, flags, bounds
<1>7. CASE WDevice
  BY <1>7, Zenon DEF WDevice, WReadOk, WReadError, WSlept, WClosed, bsems, i2svars, flags, bounds
<1>8. CASE Commands \/ PlayAnswered \/ PlayFailed \/ StopUrgently \/ BootOver \/ UNCHANGED vars
  BY <1>8, Zenon DEF Commands, Play, Stop, Ring, RingStop, PlayAnswered, PlayFailed, StopUrgently,
     BootOver, vars, bsems, i2svars, flags, bounds
<1> QED BY <1>1, <1>2, <1>3, <1>4, <1>5, <1>6, <1>7, <1>8 DEF Next, DStep

LEMMA NextCounts == ASSUME PcTyped, CountsTyped, Limits, [Next]_vars PROVE CountsTyped'
<1> USE BoundAssumption, BufferAssumption DEF CountsTyped
<1>1. CASE DStep \/ DTimeout \/ DDrained \/ I2SInterrupt
  <2>1. UNCHANGED <<nodata, initial_buffering, repeat, net, requests, music_id, cur_pos>>
    BY <1>1 DEF DTop, DWait, DFree, DEnough, DMore, DFetch, DRelease, DEndDec, DEndIn,
     DEnd, DNoSync, DFrame, DUnderflow, DDrop, DBadHeader, DBad, DClear, DSem, DPost, DStart,
     ReleasePbuf, DStep, DTimeout, DDrained, I2SInterrupt, wlocals, flags, bounds
  <2>2. bad' \in Nat
    BY <1>1 DEF DTop, DWait, DFree, DEnough, DMore, DFetch, DRelease, DEndDec, DEndIn,
     DEnd, DNoSync, DFrame, DUnderflow, DDrop, DBadHeader, DBad, DClear, DSem, DPost, DStart,
     ReleasePbuf, DStep, DTimeout, DDrained, I2SInterrupt, wlocals, flags, bounds
  <2>3. count' \in {0, 1}
    BY <1>1 DEF DTop, DWait, DFree, DEnough, DMore, DFetch, DRelease, DEndDec, DEndIn,
     DEnd, DNoSync, DFrame, DUnderflow, DDrop, DBadHeader, DBad, DClear, DSem, DPost, DStart,
     ReleasePbuf, DStep, DTimeout, DDrained, I2SInterrupt, dlocals
  <2>4. half' \in {0, 1} /\ audio_sem' \in 0..SemCap
    BY <1>1 DEF DTop, DWait, DFree, DEnough, DMore, DFetch, DRelease, DEndDec, DEndIn,
     DEnd, DNoSync, DFrame, DUnderflow, DDrop, DBadHeader, DBad, DClear, DSem, DPost, DStart,
     ReleasePbuf, StopI2S, DStep, DTimeout, DDrained, I2SInterrupt, i2svars, Step, CanRun, Blocked
  <2> QED BY <2>1, <2>2, <2>3, <2>4
<1>2. CASE FPost
  <2>1. UNCHANGED <<nodata, initial_buffering, net, requests, bad, music_id, count, half, audio_sem>>
    BY <1>2 DEF FPost, wlocals, bounds, dlocals, i2svars
  <2>2. repeat >= 0 /\ repeat' \in {repeat, repeat - 1} /\ cur_pos' = cur_pos + 1
    BY <1>2 DEF FPost, Step, Limits
  <2> QED BY <2>1, <2>2
<1>3. CASE FWait \/ FLock \/ FReset \/ FLoop \/ FFree \/ FEnd \/ FNull
  <2>1. UNCHANGED <<nodata, initial_buffering, repeat, net, requests, bad, music_id, count, half, audio_sem>>
    BY <1>3 DEF FWait, FLock, FReset, FLoop, FFree, FEnd, FNull, TakeFreeIn, PostNull,
       wlocals, bounds, flags, dlocals, i2svars
  <2>2. cur_pos' \in {0, cur_pos}
    BY <1>3 DEF FWait, FLock, FReset, FLoop, FFree, FEnd, FNull, TakeFreeIn, PostNull
  <2> QED BY <2>1, <2>2
<1>4. CASE WStep
  <2>1. UNCHANGED <<repeat, net, requests, bad, music_id, count, half, audio_sem, cur_pos>>
    BY <1>4 DEF WStep, WStart, WLoop, WLock, WFree, WStopped, WInsert, WEnd, WNull, TakeFreeIn,
       PostNull, bounds, flags, dlocals, i2svars
  <2>2. nodata' \in {0, nodata}
    BY <1>4 DEF WStep, WStart, WLoop, WLock, WFree, WStopped, WInsert, WEnd, WNull, TakeFreeIn,
       PostNull, wlocals
  <2>3. initial_buffering' \in {NIn - 1, 0, initial_buffering}
        \/ (initial_buffering > 0 /\ initial_buffering' = initial_buffering - 1)
    BY <1>4 DEF WStep, WStart, WLoop, WLock, WFree, WStopped, WInsert, WEnd, WNull, TakeFreeIn,
       PostNull, wlocals
  <2> QED BY <2>1, <2>2, <2>3
<1>5. CASE WDevice
  <2>1. UNCHANGED <<initial_buffering, repeat, requests, bad, music_id, count, half, audio_sem, cur_pos>>
    BY <1>5 DEF WDevice, WReadOk, WReadError, WSlept, WClosed, wlocals, bounds, flags, dlocals, i2svars
  <2>2. nodata' \in {0, nodata} \/ (nodata < MaxNoData /\ nodata' = nodata + 1)
    BY <1>5 DEF WDevice, WReadOk, WReadError, WSlept, WClosed, wlocals, Wake, Limits
  <2>3. net' = net \/ (net > 0 /\ net' = net - 1)
    BY <1>5 DEF WDevice, WReadOk, WReadError, WSlept, WClosed, bounds
  <2> QED BY <2>1, <2>2, <2>3
<1>6. CASE Commands
  BY <1>6 DEF Commands, Play, Stop, Ring, RingStop, Command, ALARM_SOUND_NB, wlocals, bounds, flags,
     dlocals, i2svars
<1>7. CASE PlayAnswered \/ PlayFailed \/ StopUrgently \/ BootOver \/ UNCHANGED vars
  BY <1>7 DEF PlayAnswered, PlayFailed, StopUrgently, BootOver, vars, wlocals, bounds, flags,
     dlocals, i2svars
<1> QED BY <1>1, <1>2, <1>3, <1>4, <1>5, <1>6, <1>7 DEF Next, FStep

\* The mailboxes: a message is taken from one that has some, and added to one that has room.
LEMMA TakenSeq ==
  ASSUME NEW S, NEW s \in Seq(S), s # <<>>
  PROVE  Head(s) \in S /\ Tail(s) \in Seq(S) /\ Len(Tail(s)) = Len(s) - 1 /\ Len(s) \in Nat \ {0}
OBVIOUS

LEMMA AddedSeq ==
  ASSUME NEW S, NEW s \in Seq(S), NEW e \in S
  PROVE  Append(s, e) \in Seq(S) /\ Len(Append(s, e)) = Len(s) + 1
OBVIOUS

LEMMA FullSeq ==
  ASSUME NEW n \in Nat
  PROVE  [i \in 1..n |-> i] \in Seq(1..n) /\ Len([i \in 1..n |-> i]) = n
OBVIOUS

LEMMA ReleasePbufBoxes ==
  ASSUME BoxesTyped, pbuf # Null, NEW from \in PostsFreeDec, NEW to, ReleasePbuf(from, to)
  PROVE  BoxesTyped'
<1>1. Len(freeDec) # NDec
  BY DEF ReleasePbuf, Step, CanRun, Blocked
<1>2. pbuf \in DecBufs
  BY DEF BoxesTyped
<1>3. Append(freeDec, pbuf) \in Seq(DecBufs) /\ Len(Append(freeDec, pbuf)) = Len(freeDec) + 1
  BY <1>2, AddedSeq DEF BoxesTyped
<1>4. Len(freeDec) \in Nat /\ NDec \in Nat
  BY BufferAssumption DEF BoxesTyped
<1>5. freeDec' = Append(freeDec, pbuf) /\ UNCHANGED <<freeIn, inBox, content, held, pbuf, sent, lastRead>>
  BY DEF ReleasePbuf, history
<1> QED BY <1>1, <1>3, <1>4, <1>5 DEF BoxesTyped

LEMMA TakeFreeInBoxes ==
  ASSUME BoxesTyped, NEW t \in Threads, NEW from \in FetchesFreeIn, NEW to, TakeFreeIn(t, from, to)
  PROVE  BoxesTyped'
<1>1. freeIn # <<>>
  BY DEF TakeFreeIn, Step, CanRun, Blocked
<1>2. Head(freeIn) \in InBufs \cup {Null} /\ Tail(freeIn) \in Seq(InBufs \cup {Null})
      /\ Len(Tail(freeIn)) = Len(freeIn) - 1 /\ Len(freeIn) \in Nat
  BY <1>1, TakenSeq DEF BoxesTyped
<1>3. freeIn' = Tail(freeIn) /\ held' = [held EXCEPT ![t] = Head(freeIn)]
      /\ UNCHANGED <<inBox, freeDec, content, pbuf, sent, lastRead>>
  BY DEF TakeFreeIn, dlocals, history
<1>4. held' \in [Threads -> InBufs \cup {Null}]
  BY <1>2, <1>3 DEF BoxesTyped
<1> QED BY <1>2, <1>3, <1>4, BufferAssumption DEF BoxesTyped

LEMMA InsertBoxes ==
  ASSUME BoxesTyped, NEW t \in Threads, Insert(t), Len(inBox) # NIn, UNCHANGED pbuf
  PROVE  BoxesTyped'
<1>1. Append(inBox, held[t]) \in Seq(InBufs \cup {Null})
      /\ Len(Append(inBox, held[t])) = Len(inBox) + 1 /\ Len(inBox) \in Nat
  BY AddedSeq DEF BoxesTyped
<1>2. content' \in [InBufs -> Nat] /\ sent' \in Nat
  <2>1. sent + 1 \in Nat /\ sent' = sent + 1 /\ content' = [content EXCEPT ![held[t]] = sent + 1]
    BY DEF BoxesTyped, Insert
  <2> QED BY <2>1 DEF BoxesTyped
<1>3. inBox' = Append(inBox, held[t]) /\ UNCHANGED <<freeIn, freeDec, held, lastRead>>
  BY DEF Insert
<1> QED BY <1>1, <1>2, <1>3, BufferAssumption DEF BoxesTyped

LEMMA PostNullBoxes ==
  ASSUME BoxesTyped, NEW t \in Threads, NEW from \in PostsInBox, NEW to, PostNull(t, from, to)
  PROVE  BoxesTyped'
<1>1. Len(inBox) # NIn
  BY DEF PostNull, Step, CanRun, Blocked
<1>2. Append(inBox, Null) \in Seq(InBufs \cup {Null})
      /\ Len(Append(inBox, Null)) = Len(inBox) + 1 /\ Len(inBox) \in Nat
  BY AddedSeq DEF BoxesTyped
<1>3. inBox' = Append(inBox, Null) /\ UNCHANGED <<freeIn, freeDec, content, held, pbuf, sent, lastRead>>
  BY DEF PostNull, dlocals, history
<1> QED BY <1>1, <1>2, <1>3, BufferAssumption DEF BoxesTyped

LEMMA ResetBoxes ==
  ASSUME BoxesTyped, NEW t, NEW from, NEW to, Reset(t, from, to), UNCHANGED <<held, pbuf>>
  PROVE  BoxesTyped'
<1>1. freeIn' \in Seq(InBufs) /\ Len(freeIn') = NIn /\ freeDec' \in Seq(DecBufs) /\ Len(freeDec') = NDec
  BY FullSeq, BufferAssumption DEF Reset, InBufs, DecBufs
<1>2. freeIn' \in Seq(InBufs \cup {Null})
  BY <1>1
<1>3. inBox' = <<>> /\ content' = [b \in InBufs |-> 0] /\ sent' = 0 /\ lastRead' = 0
  BY DEF Reset
<1> QED BY <1>1, <1>2, <1>3, BufferAssumption DEF BoxesTyped

LEMMA NextBoxes == ASSUME BoxesTyped, Limits, [Next]_vars PROVE BoxesTyped'
<1>1. CASE DFree
  <2>1. freeDec # <<>>
    BY <1>1 DEF DFree, Step, CanRun, Blocked
  <2>2. Head(freeDec) \in DecBufs /\ Tail(freeDec) \in Seq(DecBufs)
        /\ Len(Tail(freeDec)) = Len(freeDec) - 1 /\ Len(freeDec) \in Nat
    BY <2>1, TakenSeq DEF BoxesTyped
  <2>3. pbuf' = Head(freeDec) /\ freeDec' = Tail(freeDec)
        /\ UNCHANGED <<freeIn, inBox, content, held, sent, lastRead>>
    BY <1>1 DEF DFree, history
  <2> QED BY <2>2, <2>3, BufferAssumption DEF BoxesTyped
<1>2. CASE DFetch
  <2>1. inBox # <<>>
    BY <1>2 DEF DFetch, Step, CanRun, Blocked
  <2>2. Head(inBox) \in InBufs \cup {Null} /\ Tail(inBox) \in Seq(InBufs \cup {Null})
        /\ Len(Tail(inBox)) = Len(inBox) - 1 /\ Len(inBox) \in Nat
    BY <2>1, TakenSeq DEF BoxesTyped
  <2>3. inBox' = Tail(inBox) /\ held' = [held EXCEPT !["D"] = Head(inBox)]
        /\ UNCHANGED <<freeIn, freeDec, content, pbuf, sent>>
        /\ (lastRead' = lastRead \/ (Head(inBox) # Null /\ lastRead' = content[Head(inBox)]))
    BY <1>2 DEF DFetch
  <2>4. held' \in [Threads -> InBufs \cup {Null}] /\ lastRead' \in Nat
    BY <2>2, <2>3 DEF BoxesTyped
  <2> QED BY <2>2, <2>3, <2>4, BufferAssumption DEF BoxesTyped
<1>3. CASE DRelease \/ DEndIn
  <2>1. Len(freeIn) # NIn
    BY <1>3 DEF DRelease, DEndIn, Step, CanRun, Blocked, PostsFreeIn
  <2>2. Append(freeIn, held["D"]) \in Seq(InBufs \cup {Null})
        /\ Len(Append(freeIn, held["D"])) = Len(freeIn) + 1 /\ Len(freeIn) \in Nat
    BY AddedSeq DEF BoxesTyped, Threads
  <2>3. freeIn' = Append(freeIn, held["D"]) /\ UNCHANGED <<inBox, freeDec, held, pbuf, sent, lastRead>>
        /\ content' \in {content, [content EXCEPT ![held["D"]] = 0]}
    BY <1>3 DEF DRelease, DEndIn, dlocals, history
  <2>4. content' \in [InBufs -> Nat]
    BY <2>3 DEF BoxesTyped
  <2> QED BY <2>1, <2>2, <2>3, <2>4, BufferAssumption DEF BoxesTyped
<1>4. CASE DEndDec \/ DDrop \/ DBad \/ DPost
  BY <1>4, ReleasePbufBoxes DEF DEndDec, DDrop, DBad, DPost, ReleasePbuf, Step, Limits, PostsFreeDec
<1>5. CASE FReset \/ WStart
  BY <1>5, ResetBoxes DEF FReset, WStart, dlocals
<1>6. CASE FFree \/ FEnd \/ WFree \/ WEnd
  BY <1>6, TakeFreeInBoxes DEF FFree, FEnd, WFree, WEnd, FetchesFreeIn, Threads
<1>7. CASE FPost \/ WInsert
  <2>1. Len(inBox) # NIn /\ UNCHANGED pbuf
    BY <1>7 DEF FPost, WInsert, Step, CanRun, Blocked, PostsInBox, dlocals
  <2> QED BY <1>7, <2>1, InsertBoxes DEF FPost, WInsert, Threads
<1>8. CASE FNull \/ WNull
  BY <1>8, PostNullBoxes DEF FNull, WNull, PostsInBox, Threads
<1>9. CASE DTop \/ DWait \/ DEnough \/ DMore \/ DEnd \/ DNoSync \/ DFrame \/ DUnderflow \/ DBadHeader
           \/ DClear \/ DSem \/ DStart \/ DTimeout \/ DDrained \/ I2SInterrupt
  <2>1. UNCHANGED <<boxes, held, pbuf, history>>
    BY <1>9 DEF DTop, DWait, DEnough, DMore, DEnd, DNoSync, DFrame, DUnderflow, DBadHeader,
       DClear, DSem, DStart, DTimeout, DDrained, I2SInterrupt, dlocals
  <2> QED BY <2>1 DEF BoxesTyped, boxes, history
<1>10. CASE FWait \/ FLock \/ FLoop \/ WLoop \/ WLock("w_lock", "w_free") \/ WStopped
            \/ WLock("w_end_lock", "w_end") \/ WDevice
  <2>1. UNCHANGED <<boxes, held, pbuf, history>>
    BY <1>10 DEF FWait, FLock, FLoop, WLoop, WLock, WStopped, WDevice, WReadOk, WReadError,
       WSlept, WClosed, dlocals
  <2> QED BY <2>1 DEF BoxesTyped, boxes, history
<1>11. CASE Commands \/ PlayAnswered \/ PlayFailed \/ StopUrgently \/ BootOver \/ UNCHANGED vars
  <2>1. UNCHANGED <<boxes, held, pbuf, history>>
    BY <1>11 DEF Commands, Play, Stop, Ring, RingStop, PlayAnswered, PlayFailed, StopUrgently,
       BootOver, vars, dlocals
  <2> QED BY <2>1 DEF BoxesTyped, boxes, history
<1> QED BY <1>1, <1>2, <1>3, <1>4, <1>5, <1>6, <1>7, <1>8, <1>9, <1>10, <1>11 DEF Next, DStep, FStep, WStep

\* Where the threads are after a step.
LEMMA Moved ==
  ASSUME PcTyped, NEW t \in Threads, NEW from, NEW to, Step(t, from, to) \/ Wake(t, from, to)
  PROVE  pc[t] = from /\ pc'[t] = to /\ \A u \in Threads : u # t => pc'[u] = pc[u]
BY DEF Step, Wake, PcTyped

LEMMA MovedByReset ==
  ASSUME PcTyped, NEW t \in Threads, NEW from, NEW to, Reset(t, from, to)
  PROVE  /\ pc[t] = from /\ pc'[t] = to
         /\ \A u \in Threads : u # t =>
              pc'[u] = pc[u] \/ (OnMailbox(pc[u]) /\ Blocked(u) /\ pc'[u] = AfterReset(pc[u]))
<1> DEFINE After(u) == IF OnMailbox(pc[u]) /\ Blocked(u) THEN AfterReset(pc[u]) ELSE pc[u]
<1>1. \A u : After(u) = pc[u] \/ (OnMailbox(pc[u]) /\ Blocked(u) /\ After(u) = AfterReset(pc[u]))
  OBVIOUS
<1>2. pc[t] = from /\ pc' = [u \in Threads |-> IF u = t THEN to ELSE After(u)]
  BY DEF Reset
<1> HIDE DEF After
<1> QED BY <1>1, <1>2

\* The room for the next buffer, and pbuf.
PlaybackLimits ==
  /\ pc["D"] = "d_fetch" => wr + InSize <= WBSize
  /\ pbuf = Null => Len(freeDec) = NDec /\ pc["D"] \in {"d_top", "d_wait", "d_free"}
FlashLimits == pc["F"] \in {"f_free", "f_post"} => repeat >= 0
DownloadLimits == pc["W"] \in {"w_lock", "w_free", "w_read", "w_sleep"} => nodata < MaxNoData

LEMMA LimitParts == Limits <=> PlaybackLimits /\ FlashLimits /\ DownloadLimits
BY DEF Limits, PlaybackLimits, FlashLimits, DownloadLimits

LEMMA NextPlaybackLimits ==
  ASSUME PcTyped, BoxesTyped, BufferTyped, PlaybackLimits, [Next]_vars
  PROVE  PlaybackLimits'
<1> "D" \in Threads /\ "F" \in Threads /\ "W" \in Threads /\ "X" \in Threads
  BY DEF Threads
<1>1. CASE DTop \/ DWait
  BY <1>1, Moved DEF DTop, DWait, PlaybackLimits, boxes, dlocals
<1>2. CASE DFree
  <2>1. freeDec # <<>> /\ pbuf' = Head(freeDec)
    BY <1>2 DEF DFree, Step, CanRun, Blocked
  <2>2. pbuf' \in DecBufs
    BY <2>1, TakenSeq DEF BoxesTyped
  <2>3. pc'["D"] = "d_acquire"
    BY <1>2, Moved DEF DFree
  <2> QED BY <2>2, <2>3 DEF PlaybackLimits, DecBufs, Null
<1>3. CASE DMore
  BY <1>3, Moved, SizeAssumption DEF DMore, PlaybackLimits, SpaceLeft, BufferTyped, boxes, dlocals
<1>4. CASE DEnough \/ DFetch \/ DRelease \/ DEndIn \/ DEnd \/ DNoSync \/ DFrame \/ DUnderflow
           \/ DBadHeader \/ DClear \/ DSem \/ DStart \/ DDrained \/ DTimeout
  <2>1. pbuf' = pbuf /\ pc["D"] \notin {"d_top", "d_wait", "d_free"} /\ pc'["D"] # "d_fetch"
    BY <1>4, Moved DEF DEnough, DFetch, DRelease, DEndIn, DEnd, DNoSync, DFrame, DUnderflow,
     DBadHeader, DClear, DSem, DStart, DDrained, DTimeout, dlocals
  <2> QED BY <2>1 DEF PlaybackLimits
<1>5. CASE DEndDec \/ DDrop \/ DBad \/ DPost
  <2>1. pbuf' = pbuf /\ pc["D"] \notin {"d_top", "d_wait", "d_free"} /\ pc'["D"] # "d_fetch"
    BY <1>5, Moved DEF DEndDec, DDrop, DBad, DPost, ReleasePbuf
  <2> QED BY <2>1 DEF PlaybackLimits
<1>6. CASE FReset \/ WStart
  <2>1. UNCHANGED <<wr, pbuf>>
    BY <1>6 DEF FReset, WStart, dlocals
  <2>2. pc'["D"] = pc["D"] \/ (OnMailbox(pc["D"]) /\ Blocked("D") /\ pc'["D"] = AfterReset(pc["D"]))
    BY <1>6, MovedByReset DEF FReset, WStart
  <2>3. Len(freeDec') = NDec
    BY <1>6, FullSeq, BufferAssumption DEF FReset, WStart, Reset, DecBufs
  <2>4. pc'["D"] = "d_fetch" => pc["D"] = "d_fetch"
    BY <2>2 DEF AfterReset, PcTyped, DLabels
  <2>5. pbuf = Null => pc'["D"] = pc["D"]
    <3> SUFFICES ASSUME pbuf = Null, pc["D"] \in {"d_top", "d_wait", "d_free"}, Len(freeDec) = NDec
                 PROVE  pc'["D"] = pc["D"]
      BY DEF PlaybackLimits
    <3>1. freeDec # <<>>
      BY BufferAssumption
    <3> QED BY <2>2, <3>1 DEF OnMailbox, Blocked, PostsFreeDec, PostsFreeIn, FetchesFreeIn, PostsInBox, Locks
  <2> QED BY <2>1, <2>3, <2>4, <2>5 DEF PlaybackLimits
<1>7. CASE FWait \/ FLock \/ FLoop \/ FFree \/ FPost \/ FEnd \/ FNull
  <2>1. UNCHANGED <<wr, pbuf, freeDec>> /\ pc'["D"] = pc["D"]
    BY <1>7, Moved DEF FWait, FLock, FLoop, FFree, FPost, FEnd, FNull, TakeFreeIn, PostNull, Insert,
     boxes, dlocals
  <2> QED BY <2>1 DEF PlaybackLimits
<1>8. CASE WLoop \/ WLock("w_lock", "w_free") \/ WFree \/ WStopped \/ WInsert
           \/ WLock("w_end_lock", "w_end") \/ WEnd \/ WNull \/ WDevice
  <2>1. UNCHANGED <<wr, pbuf, freeDec>> /\ pc'["D"] = pc["D"]
    BY <1>8, Moved DEF WLoop, WLock, WFree, WStopped, WInsert, WEnd, WNull, WDevice, WReadOk, WReadError,
     WSlept, WClosed, TakeFreeIn, PostNull, Insert, boxes, dlocals
  <2> QED BY <2>1 DEF PlaybackLimits
<1>9. CASE Commands \/ PlayAnswered \/ PlayFailed \/ StopUrgently \/ BootOver \/ I2SInterrupt
            \/ UNCHANGED vars
  <2>1. UNCHANGED <<wr, pbuf, freeDec>> /\ pc'["D"] = pc["D"]
    BY <1>9, Moved DEF Commands, Play, Stop, Ring, RingStop, PlayAnswered, PlayFailed, StopUrgently,
     BootOver, I2SInterrupt, vars, boxes, dlocals, PcTyped
  <2> QED BY <2>1 DEF PlaybackLimits
<1> QED BY <1>1, <1>2, <1>3, <1>4, <1>5, <1>6, <1>7, <1>8, <1>9 DEF Next, DStep, FStep, WStep

\* What the other threads leave alone.
LEMMA PlaybackKeeps ==
  ASSUME PcTyped, BoxesTyped, DStep \/ DTimeout \/ DDrained \/ I2SInterrupt
  PROVE  /\ pc'["F"] = pc["F"] /\ pc'["W"] = pc["W"] /\ pc'["X"] = pc["X"]
         /\ UNCHANGED <<nodata, repeat, audio_bsem, download_bsem, booting, sent>>
         /\ held'["F"] = held["F"] /\ held'["W"] = held["W"]
<1> "D" \in Threads /\ "F" \in Threads /\ "W" \in Threads /\ "X" \in Threads
  BY DEF Threads
<1>1. pc'["F"] = pc["F"] /\ pc'["W"] = pc["W"] /\ pc'["X"] = pc["X"]
  <2>1. CASE DStep
    BY <2>1, Moved DEF DStep, DTop, DWait, DFree, DEnough, DMore, DFetch, DRelease, DEndDec, DEndIn,
     DEnd, DNoSync, DFrame, DUnderflow, DDrop, DBadHeader, DBad, DClear, DSem, DPost, DStart, ReleasePbuf
  <2>2. CASE DTimeout \/ DDrained \/ I2SInterrupt
    BY <2>2, Moved DEF DTimeout, DDrained, I2SInterrupt
  <2> QED BY <2>1, <2>2
<1>2. UNCHANGED <<nodata, repeat, audio_bsem, download_bsem, booting, sent>>
  BY DEF DStep, DTop, DWait, DFree, DEnough, DMore, DFetch, DRelease, DEndDec, DEndIn,
     DEnd, DNoSync, DFrame, DUnderflow, DDrop, DBadHeader, DBad, DClear, DSem, DPost, DStart, ReleasePbuf,
     DTimeout, DDrained, I2SInterrupt, wlocals, flags, bsems, bounds, history
<1>3. held'["F"] = held["F"] /\ held'["W"] = held["W"]
  BY DEF BoxesTyped, DStep, DTop, DWait, DFree, DEnough, DMore, DFetch, DRelease, DEndDec, DEndIn,
     DEnd, DNoSync, DFrame, DUnderflow, DDrop, DBadHeader, DBad, DClear, DSem, DPost, DStart, ReleasePbuf,
     DTimeout, DDrained, I2SInterrupt
<1> QED BY <1>1, <1>2, <1>3

LEMMA FlashKeeps ==
  ASSUME PcTyped, BoxesTyped, FStep
  PROVE  /\ pc'["W"] = pc["W"] /\ pc'["X"] = pc["X"]
         /\ UNCHANGED <<nodata, download_bsem, booting, dlocals, i2svars>>
         /\ held'["D"] = held["D"] /\ held'["W"] = held["W"]
<1> "D" \in Threads /\ "F" \in Threads /\ "W" \in Threads /\ "X" \in Threads
  BY DEF Threads
<1>1. pc'["W"] = pc["W"] /\ pc'["X"] = pc["X"]
  <2>1. CASE FReset
    <3>1. AfterReset(pc["W"]) = pc["W"] /\ AfterReset(pc["X"]) = pc["X"]
      BY DEF AfterReset, PcTyped, WLabels, XLabels
    <3> QED BY <2>1, <3>1, MovedByReset DEF FReset
  <2>2. CASE ~FReset
    BY <2>2, Moved DEF FStep, FWait, FLock, FLoop, FFree, FPost, FEnd, FNull, TakeFreeIn, PostNull
  <2> QED BY <2>1, <2>2
<1>2. UNCHANGED <<nodata, download_bsem, booting, dlocals, i2svars>>
  BY DEF FStep, FWait, FLock, FReset, FLoop, FFree, FPost, FEnd, FNull, TakeFreeIn, PostNull,
     wlocals, bsems, bounds
<1>3. held'["D"] = held["D"] /\ held'["W"] = held["W"]
  BY DEF BoxesTyped, FStep, FWait, FLock, FReset, FLoop, FFree, FPost, FEnd, FNull, TakeFreeIn, PostNull, Insert
<1> QED BY <1>1, <1>2, <1>3

LEMMA DownloadKeeps ==
  ASSUME PcTyped, BoxesTyped, WStep \/ WDevice
  PROVE  /\ pc'["X"] = pc["X"]
         /\ UNCHANGED <<repeat, audio_bsem, booting, dlocals, i2svars>>
         /\ held'["D"] = held["D"] /\ held'["F"] = held["F"]
<1> "D" \in Threads /\ "F" \in Threads /\ "W" \in Threads /\ "X" \in Threads
  BY DEF Threads
<1>1. pc'["X"] = pc["X"]
  <2>1. CASE WStart
    <3>1. AfterReset(pc["X"]) = pc["X"]
      BY DEF AfterReset, PcTyped, XLabels
    <3> QED BY <2>1, <3>1, MovedByReset DEF WStart
  <2>2. CASE ~WStart
    BY <2>2, Moved DEF WStep, WLoop, WLock, WFree, WStopped, WInsert, WEnd, WNull, TakeFreeIn, PostNull,
       WDevice, WReadOk, WReadError, WSlept, WClosed
  <2> QED BY <2>1, <2>2
<1>2. UNCHANGED <<repeat, audio_bsem, booting, dlocals, i2svars>>
  BY DEF WStep, WStart, WLoop, WLock, WFree, WStopped, WInsert, WEnd, WNull, TakeFreeIn, PostNull,
     WDevice, WReadOk, WReadError, WSlept, WClosed, flags, bsems, bounds
<1>3. held'["D"] = held["D"] /\ held'["F"] = held["F"]
  BY DEF BoxesTyped, WStep, WStart, WLoop, WLock, WFree, WStopped, WInsert, WEnd, WNull, TakeFreeIn, PostNull,
     WDevice, WReadOk, WReadError, WSlept, WClosed, Insert
<1> QED BY <1>1, <1>2, <1>3

\* The commands, what follows them, and nothing.
Requested == Commands \/ PlayAnswered \/ PlayFailed \/ StopUrgently \/ BootOver \/ UNCHANGED vars

LEMMA RequestKeeps ==
  ASSUME PcTyped, Requested
  PROVE  /\ pc'["D"] = pc["D"] /\ pc'["F"] = pc["F"] /\ pc'["W"] = pc["W"]
         /\ UNCHANGED <<boxes, held, dlocals, nodata, i2svars, decode_bsem, sent, lastRead>>
<1> "D" \in Threads /\ "F" \in Threads /\ "W" \in Threads /\ "X" \in Threads
  BY DEF Threads
<1>1. CASE Commands \/ BootOver \/ UNCHANGED vars
  BY <1>1 DEF Commands, Play, Stop, Ring, RingStop, BootOver, vars, PcTyped, bsems, history, wlocals
<1>2. CASE PlayAnswered \/ PlayFailed \/ StopUrgently
  BY <1>2, Moved DEF PlayAnswered, PlayFailed, StopUrgently, PcTyped, bsems, history, wlocals
<1> QED BY <1>1, <1>2 DEF Requested

LEMMA NextKinds ==
  [Next]_vars <=>
    (DStep \/ DTimeout \/ DDrained \/ I2SInterrupt) \/ FStep \/ (WStep \/ WDevice) \/ Requested
BY DEF Next, Requested

LEMMA NextFlashLimits ==
  ASSUME PcTyped, BoxesTyped, CountsTyped, FlashLimits, [Next]_vars
  PROVE  FlashLimits'
<1> "D" \in Threads /\ "F" \in Threads /\ "W" \in Threads /\ "X" \in Threads
  BY DEF Threads
<1>1. CASE DStep \/ DTimeout \/ DDrained \/ I2SInterrupt
  BY <1>1, PlaybackKeeps DEF FlashLimits
<1>2. CASE FWait \/ FLock \/ FEnd \/ FNull
  BY <1>2, Moved DEF FWait, FLock, FEnd, FNull, TakeFreeIn, PostNull, FlashLimits
<1>3. CASE FReset
  BY <1>3, MovedByReset DEF FReset, FlashLimits
<1>4. CASE FLoop
  BY <1>4, Moved DEF FLoop, FlashLimits, flags, CountsTyped
<1>5. CASE FFree
  BY <1>5, Moved DEF FFree, TakeFreeIn, FlashLimits, flags
<1>6. CASE FPost
  <2>1. pc["F"] = "f_post" /\ (pc'["F"] = "f_free" => repeat' = repeat)
        /\ (pc'["F"] \in {"f_loop", "f_free"})
    BY <1>6, Moved DEF FPost
  <2> QED BY <2>1 DEF FlashLimits
<1>7. CASE WStart
  <2>1. pc'["F"] = pc["F"] \/ (OnMailbox(pc["F"]) /\ Blocked("F") /\ pc'["F"] = AfterReset(pc["F"]))
    BY <1>7, MovedByReset DEF WStart
  <2>2. pc'["F"] \in {"f_free", "f_post"} => pc["F"] \in {"f_free", "f_post"}
    BY <2>1 DEF AfterReset, PcTyped, FLabels
  <2> QED BY <2>2, <1>7 DEF WStart, flags, FlashLimits
<1>8. CASE (WStep /\ ~WStart) \/ WDevice
  <2>1. pc'["F"] = pc["F"]
    BY <1>8, Moved DEF WStep, WLoop, WLock, WFree, WStopped, WInsert, WEnd, WNull, TakeFreeIn, PostNull,
       WDevice, WReadOk, WReadError, WSlept, WClosed
  <2> QED BY <1>8, <2>1, DownloadKeeps DEF FlashLimits
<1>9. CASE Requested
  <2>1. pc'["F"] = pc["F"]
    BY <1>9, RequestKeeps
  <2>2. repeat' \in {0, 1, repeat}
    BY <1>9 DEF Requested, Commands, Play, Stop, Ring, RingStop, PlayAnswered, PlayFailed, StopUrgently,
       BootOver, vars, flags
  <2> QED BY <2>1, <2>2 DEF FlashLimits
<1> QED BY <1>1, <1>2, <1>3, <1>4, <1>5, <1>6, <1>7, <1>8, <1>9, NextKinds DEF FStep

LEMMA NextDownloadLimits ==
  ASSUME PcTyped, BoxesTyped, CountsTyped, DownloadLimits, [Next]_vars
  PROVE  DownloadLimits'
<1> "D" \in Threads /\ "F" \in Threads /\ "W" \in Threads /\ "X" \in Threads
  BY DEF Threads
<1>1. CASE DStep \/ DTimeout \/ DDrained \/ I2SInterrupt
  BY <1>1, PlaybackKeeps DEF DownloadLimits
<1>2. CASE FStep
  BY <1>2, FlashKeeps DEF DownloadLimits
<1>3. CASE Requested
  BY <1>3, RequestKeeps DEF DownloadLimits
<1>4. CASE WStart
  BY <1>4, MovedByReset DEF WStart, DownloadLimits
<1>5. CASE WLoop
  BY <1>5, Moved DEF WLoop, DownloadLimits, wlocals
<1>6. CASE WLock("w_lock", "w_free") \/ WLock("w_end_lock", "w_end")
  BY <1>6, Moved DEF WLock, DownloadLimits, wlocals
<1>7. CASE WFree \/ WStopped \/ WInsert \/ WEnd \/ WNull
  BY <1>7, Moved DEF WFree, WStopped, WInsert, WEnd, WNull, TakeFreeIn, PostNull, DownloadLimits, wlocals
<1>8. CASE WReadOk
  BY <1>8, BoundAssumption DEF WReadOk, DownloadLimits
<1>9. CASE WReadError
  <2>1. pc["W"] = "w_read" /\ pc'["W"] = (IF nodata + 1 = MaxNoData \/ urgent_stop THEN "w_full" ELSE "w_sleep")
    BY <1>9, Moved DEF WReadError
  <2>2. nodata' = nodata + 1 /\ nodata < MaxNoData
    BY <1>9, <2>1 DEF WReadError, DownloadLimits
  <2>3. CASE nodata + 1 = MaxNoData \/ urgent_stop
    BY <2>1, <2>3 DEF DownloadLimits
  <2>4. CASE ~(nodata + 1 = MaxNoData \/ urgent_stop)
    BY <2>2, <2>4, BoundAssumption DEF DownloadLimits, CountsTyped
  <2> QED BY <2>3, <2>4
<1>10. CASE WSlept \/ WClosed
  BY <1>10, Moved DEF WSlept, WClosed, DownloadLimits, wlocals
<1> QED BY <1>1, <1>2, <1>3, <1>4, <1>5, <1>6, <1>7, <1>8, <1>9, <1>10, NextKinds DEF WStep, WDevice

LEMMA TypedNext == ASSUME Typed, [Next]_vars PROVE Typed'
<1>1. PcTyped /\ BoxesTyped /\ BufferTyped /\ FlagsTyped /\ CountsTyped
  BY TypeParts DEF Typed
<1>2. PlaybackLimits /\ FlashLimits /\ DownloadLimits
  BY LimitParts DEF Typed
<1>3. PcTyped' /\ BoxesTyped' /\ BufferTyped' /\ FlagsTyped' /\ CountsTyped'
  BY <1>1, NextPc, NextBoxes, NextBuffer, NextFlags, NextCounts DEF Typed
<1>4. PlaybackLimits' /\ FlashLimits' /\ DownloadLimits'
  BY <1>1, <1>2, NextPlaybackLimits, NextFlashLimits, NextDownloadLimits
<1>5. TypeOK'
  BY <1>3 DEF TypeOK, PcTyped, BoxesTyped, BufferTyped, FlagsTyped, CountsTyped
<1>6. Limits'
  BY <1>4 DEF Limits, PlaybackLimits, FlashLimits, DownloadLimits
<1> QED BY <1>5, <1>6 DEF Typed

\* Whatever is asked for, and when: the pointers stay in the working buffer, the mailboxes
\* never hold more than they have room for, and pbuf is a buffer when it is posted.
THEOREM AudioTypeOK == Spec => []TypeOK
<1>1. Typed => TypeOK
  BY DEF Typed
<1> QED BY <1>1, TypeInit, TypedNext, PTL DEF Spec

----------------------------------------------------------------------------
(* What holds when a music is asked for only when no other is in progress. *)

\* A music has been asked for, and its source has not reset the mailboxes yet.
FlashAsked == audio_bsem \/ pc["F"] \in {"f_lock", "f_reset"}
DownloadAsked == download_bsem \/ pc["X"] = "x_get"

\* One source at a time, and a session begins when the playback is at rest.
Sessions ==
  /\ audio_bsem => pc["F"] = "f_wait"
  /\ DownloadAsked => pc["W"] = "w_wait"
  /\ pc["X"] = "x_get" => ~download_bsem
  /\ ~((audio_bsem \/ pc["F"] # "f_wait") /\ (DownloadAsked \/ pc["W"] # "w_wait"))
  /\ FlashAsked \/ DownloadAsked => pc["D"] \in {"d_top", "d_wait"} /\ ~decode_bsem

\* So that a reset of the mailboxes finds nobody on them.
LEMMA CalmReset ==
  ASSUME PcTyped, Sessions
  PROVE  /\ FReset => /\ pc["D"] \in {"d_top", "d_wait"} /\ pc'["D"] = pc["D"]
                      /\ pc["W"] = "w_wait" /\ pc'["W"] = "w_wait"
                      /\ pc["F"] = "f_reset" /\ pc'["F"] \in {"f_loop", "f_wait"}
         /\ WStart => /\ pc["D"] \in {"d_top", "d_wait"} /\ pc'["D"] = pc["D"]
                      /\ pc["F"] = "f_wait" /\ pc'["F"] = "f_wait"
                      /\ pc["W"] = "w_wait" /\ pc'["W"] = "w_loop" /\ download_bsem
<1> "D" \in Threads /\ "F" \in Threads /\ "W" \in Threads /\ "X" \in Threads
  BY DEF Threads
<1>1. \A label \in {"d_top", "d_wait", "f_wait", "w_wait"} : ~OnMailbox(label)
  BY DEF OnMailbox, PostsFreeDec, PostsFreeIn, FetchesFreeIn
<1>2. ASSUME FReset
      PROVE  /\ pc["D"] \in {"d_top", "d_wait"} /\ pc'["D"] = pc["D"]
             /\ pc["W"] = "w_wait" /\ pc'["W"] = "w_wait"
             /\ pc["F"] = "f_reset" /\ pc'["F"] \in {"f_loop", "f_wait"}
  <2>1. pc["F"] = "f_reset" /\ pc'["F"] \in {"f_loop", "f_wait"}
        /\ \A u \in {"D", "W"} :
             pc'[u] = pc[u] \/ (OnMailbox(pc[u]) /\ Blocked(u) /\ pc'[u] = AfterReset(pc[u]))
    BY <1>2, MovedByReset DEF FReset
  <2>2. pc["D"] \in {"d_top", "d_wait"} /\ pc["W"] = "w_wait"
    BY <2>1 DEF Sessions, FlashAsked
  <2> QED BY <1>1, <2>1, <2>2
<1>3. ASSUME WStart
      PROVE  /\ pc["D"] \in {"d_top", "d_wait"} /\ pc'["D"] = pc["D"]
             /\ pc["F"] = "f_wait" /\ pc'["F"] = "f_wait"
             /\ pc["W"] = "w_wait" /\ pc'["W"] = "w_loop" /\ download_bsem
  <2>1. pc["W"] = "w_wait" /\ pc'["W"] = "w_loop"
        /\ \A u \in {"D", "F"} :
             pc'[u] = pc[u] \/ (OnMailbox(pc[u]) /\ Blocked(u) /\ pc'[u] = AfterReset(pc[u]))
    BY <1>3, MovedByReset DEF WStart
  <2>2. download_bsem
    BY <1>3 DEF WStart, Reset, CanRun, Blocked
  <2>3. pc["D"] \in {"d_top", "d_wait"} /\ pc["F"] = "f_wait"
    BY <2>2 DEF Sessions, DownloadAsked
  <2> QED BY <1>1, <2>1, <2>2, <2>3
<1> QED BY <1>2, <1>3

LEMMA NextSessions ==
  ASSUME Calm, PcTyped, BoxesTyped, Sessions, [Next]_vars
  PROVE  Sessions'
<1> "D" \in Threads /\ "F" \in Threads /\ "W" \in Threads /\ "X" \in Threads
  BY DEF Threads
<1>1. CASE DStep \/ DTimeout \/ DDrained \/ I2SInterrupt
  <2>1. pc'["F"] = pc["F"] /\ pc'["W"] = pc["W"] /\ pc'["X"] = pc["X"] /\ audio_bsem' = audio_bsem
        /\ download_bsem' = download_bsem
    BY <1>1, PlaybackKeeps
  <2>2. ASSUME pc["D"] \in {"d_top", "d_wait"}, ~decode_bsem
        PROVE  pc'["D"] \in {"d_top", "d_wait"} /\ ~decode_bsem'
    <3>1. ~Step("D", "d_wait", "d_free")
      BY <2>2 DEF Step, CanRun, Blocked
    <3>2. DTop \/ I2SInterrupt
      BY <1>1, <2>2, <3>1 DEF DStep, DWait, DFree, DEnough, DMore, DFetch, DRelease, DEndDec, DEndIn,
         DEnd, DNoSync, DFrame, DUnderflow, DDrop, DBadHeader, DBad, DClear, DSem, DPost, DStart,
         ReleasePbuf, DTimeout, DDrained, Step, Wake
    <3>3. decode_bsem' = decode_bsem
      BY <3>2 DEF DTop, I2SInterrupt, bsems
    <3> QED BY <2>2, <3>2, <3>3, Moved DEF DTop, I2SInterrupt
  <2> QED BY <2>1, <2>2 DEF Sessions, FlashAsked, DownloadAsked
<1>2. CASE FReset
  <2>1. UNCHANGED <<audio_bsem, download_bsem>>
    BY <1>2 DEF FReset
  <2>2. pc'["X"] = pc["X"]
    BY <1>2, FlashKeeps DEF FStep
  <2>3. ~audio_bsem /\ ~DownloadAsked
    BY <1>2, CalmReset DEF Sessions
  <2> QED BY <1>2, <2>1, <2>2, <2>3, CalmReset DEF Sessions, FlashAsked, DownloadAsked
<1>3. CASE FStep /\ ~FReset
  <2>1. pc'["W"] = pc["W"] /\ pc'["X"] = pc["X"] /\ download_bsem' = download_bsem
    BY <1>3, FlashKeeps
  <2>2. pc'["D"] = pc["D"] /\ decode_bsem' = decode_bsem
    BY <1>3, Moved DEF FStep, FWait, FLock, FLoop, FFree, FPost, FEnd, FNull, TakeFreeIn, PostNull, bsems
  <2>3. CASE FWait
    <3>1. audio_bsem /\ pc["F"] = "f_wait" /\ pc'["F"] = "f_lock" /\ ~audio_bsem'
      BY <2>3, Moved DEF FWait, Step, CanRun, Blocked
    <3> QED BY <2>1, <2>2, <3>1 DEF Sessions, FlashAsked, DownloadAsked
  <2>4. CASE ~FWait
    <3>1. pc["F"] # "f_wait" /\ audio_bsem' = audio_bsem
          /\ (pc'["F"] \in {"f_lock", "f_reset"} => pc["F"] \in {"f_lock", "f_reset"})
      BY <1>3, <2>4, Moved DEF FStep, FLock, FLoop, FFree, FPost, FEnd, FNull, TakeFreeIn, PostNull, bsems
    <3>2. ~audio_bsem
      BY <3>1 DEF Sessions
    <3> QED BY <2>1, <2>2, <3>1, <3>2 DEF Sessions, FlashAsked, DownloadAsked
  <2> QED BY <2>3, <2>4
<1>4. CASE WStart
  <2>1. ~download_bsem' /\ UNCHANGED <<audio_bsem, decode_bsem>>
    BY <1>4 DEF WStart
  <2>2. pc'["X"] = pc["X"]
    BY <1>4, DownloadKeeps DEF WStep
  <2>3. ~audio_bsem /\ download_bsem /\ pc["X"] # "x_get"
    BY <1>4, CalmReset DEF Sessions, DownloadAsked
  <2> QED BY <1>4, <2>1, <2>2, <2>3, CalmReset DEF Sessions, FlashAsked, DownloadAsked
<1>5. CASE (WStep /\ ~WStart) \/ WDevice
  <2>1. pc["W"] # "w_wait"
    BY <1>5 DEF WStep, WLoop, WLock, WFree, WStopped, WInsert, WEnd, WNull, TakeFreeIn, PostNull,
       WDevice, WReadOk, WReadError, WSlept, WClosed, Step, Wake
  <2>2. pc'["D"] = pc["D"] /\ pc'["F"] = pc["F"] /\ UNCHANGED <<audio_bsem, download_bsem>>
    BY <1>5, Moved DEF WStep, WLoop, WLock, WFree, WStopped, WInsert, WEnd, WNull, TakeFreeIn, PostNull,
       WDevice, WReadOk, WReadError, WSlept, WClosed, bsems
  <2>3. pc'["X"] = pc["X"]
    BY <1>5, DownloadKeeps
  <2>4. ~DownloadAsked /\ ~audio_bsem /\ pc["F"] = "f_wait"
    BY <2>1 DEF Sessions
  <2> QED BY <2>2, <2>3, <2>4 DEF Sessions, FlashAsked, DownloadAsked
<1>6. CASE Requested
  <2>1. pc'["D"] = pc["D"] /\ pc'["F"] = pc["F"] /\ pc'["W"] = pc["W"] /\ decode_bsem' = decode_bsem
    BY <1>6, RequestKeeps
  <2>2. CASE Play
    <3>1. Idle /\ pc'["X"] = "x_get" /\ UNCHANGED <<audio_bsem, download_bsem>>
      BY <2>2 DEF Play, PcTyped, bsems
    <3> QED BY <2>1, <3>1 DEF Sessions, FlashAsked, DownloadAsked, Idle
  <2>3. CASE Ring
    <3>1. Idle /\ pc' = pc /\ download_bsem' = download_bsem
      BY <2>3 DEF Ring
    <3> QED BY <2>1, <3>1 DEF Sessions, FlashAsked, DownloadAsked, Idle
  <2>4. CASE PlayAnswered
    <3>1. pc["X"] = "x_get" /\ pc'["X"] = "x_idle" /\ audio_bsem' = audio_bsem
      BY <2>4, Moved DEF PlayAnswered
    <3> QED BY <2>1, <3>1 DEF Sessions, FlashAsked, DownloadAsked
  <2>5. CASE PlayFailed
    <3>1. pc["X"] = "x_get" /\ pc'["X"] = "x_shut" /\ UNCHANGED <<audio_bsem, download_bsem>>
      BY <2>5, Moved DEF PlayFailed, bsems
    <3> QED BY <2>1, <3>1 DEF Sessions, FlashAsked, DownloadAsked
  <2>6. CASE Stop \/ RingStop \/ StopUrgently \/ BootOver \/ UNCHANGED vars
    <3>1. UNCHANGED <<audio_bsem, download_bsem>>
      BY <2>6 DEF Stop, RingStop, StopUrgently, BootOver, vars, bsems
    <3>2. pc'["X"] = "x_get" => pc["X"] = "x_get"
      BY <2>6, Moved DEF Stop, RingStop, StopUrgently, BootOver, vars, PcTyped
    <3> QED BY <2>1, <3>1, <3>2 DEF Sessions, FlashAsked, DownloadAsked
  <2> QED BY <1>6, <2>2, <2>3, <2>4, <2>5, <2>6 DEF Requested, Commands
<1> QED BY <1>1, <1>2, <1>3, <1>4, <1>5, <1>6, NextKinds

\* started says whether the I2S runs; it does not while the playback waits for music, and
\* before it does the semaphore has been set to its two halves.
Speaker ==
  /\ started <=> i2s
  /\ pc["D"] \in {"d_top", "d_wait"} => ~i2s
  /\ pc["D"] = "d_wait" => audio_sem = 2
  /\ pc["D"] = "d_fetch" /\ inBox = <<>> => ~i2s

LEMMA NextSpeaker ==
  ASSUME PcTyped, BoxesTyped, Sessions, Speaker, [Next]_vars
  PROVE  Speaker'
<1> "D" \in Threads /\ "F" \in Threads /\ "W" \in Threads /\ "X" \in Threads
  BY DEF Threads
<1>1. CASE DTop
  <2>1. pc["D"] = "d_top" /\ pc'["D"] = "d_wait" /\ audio_sem' = 2 /\ UNCHANGED <<i2s, started>>
    BY <1>1, Moved DEF DTop
  <2> QED BY <2>1 DEF Speaker
<1>2. CASE DWait \/ DFree \/ DEnough \/ DFetch \/ DRelease \/ DEndDec \/ DEndIn \/ DNoSync \/ DFrame
           \/ DUnderflow \/ DDrop \/ DBadHeader \/ DBad \/ DClear \/ DPost
  <2>1. UNCHANGED <<i2s, started>>
    BY <1>2 DEF DWait, DFree, DEnough, DFetch, DRelease, DEndDec, DEndIn, DNoSync, DFrame,
     DUnderflow, DDrop, DBadHeader, DBad, DClear, DPost, ReleasePbuf, i2svars
  <2>2. pc'["D"] \notin {"d_top", "d_wait", "d_fetch"}
    <3>1. CASE DWait \/ DFree \/ DEnough \/ DRelease \/ DEndDec \/ DEndIn \/ DNoSync \/ DFrame
      BY <3>1, Moved DEF DWait, DFree, DEnough, DRelease, DEndDec, DEndIn, DNoSync, DFrame, ReleasePbuf
    <3>2. CASE DFetch \/ DUnderflow \/ DDrop \/ DBadHeader \/ DBad \/ DClear \/ DPost
      BY <3>2, Moved DEF DFetch, DUnderflow, DDrop, DBadHeader, DBad, DClear, DPost, ReleasePbuf
    <3> QED BY <1>2, <3>1, <3>2
  <2> QED BY <2>1, <2>2 DEF Speaker
<1>3. CASE DMore
  <2>1. pc'["D"] = "d_fetch" /\ inBox' = inBox
    BY <1>3, Moved DEF DMore, boxes
  <2>2. CASE inBox = <<>> /\ i2s
    BY <1>3, <2>1, <2>2 DEF DMore, StopI2S, Speaker
  <2>3. CASE ~(inBox = <<>> /\ i2s)
    BY <1>3, <2>1, <2>3 DEF DMore, i2svars, Speaker
  <2> QED BY <2>2, <2>3
<1>4. CASE DTimeout
  <2>1. pc["D"] = "d_fetch" /\ pc'["D"] = "d_top" /\ UNCHANGED <<i2s, started>>
    BY <1>4, Moved DEF DTimeout, i2svars
  <2>2. inBox = <<>>
    BY <1>4, <2>1 DEF DTimeout, Blocked, PostsFreeDec, PostsFreeIn, FetchesFreeIn, PostsInBox, Locks
  <2> QED BY <2>1, <2>2 DEF Speaker
<1>5. CASE DEnd \/ DDrained
  <2>1. ~i2s' /\ ~started' /\ pc'["D"] \in {"d_top", "d_free"}
    BY <1>5, Moved DEF DEnd, DDrained, StopI2S
  <2> QED BY <2>1 DEF Speaker
<1>6. CASE DSem
  <2>1. pc'["D"] = "d_post" /\ UNCHANGED <<i2s, started>>
    BY <1>6, Moved DEF DSem
  <2> QED BY <2>1 DEF Speaker
<1>7. CASE DStart
  <2>1. pc'["D"] = "d_free"
    BY <1>7, Moved DEF DStart
  <2>2. started' <=> i2s'
    BY <1>7 DEF DStart, Speaker
  <2> QED BY <2>1, <2>2 DEF Speaker
<1>8. CASE I2SInterrupt
  <2>1. i2s /\ UNCHANGED <<pc, inBox, i2s, started>>
    BY <1>8 DEF I2SInterrupt, boxes
  <2> QED BY <2>1 DEF Speaker
<1>9. CASE FReset \/ WStart
  <2>1. pc["D"] \in {"d_top", "d_wait"} /\ pc'["D"] = pc["D"]
    BY <1>9, CalmReset
  <2>2. UNCHANGED <<i2s, started, audio_sem>>
    BY <1>9 DEF FReset, WStart, i2svars
  <2> QED BY <2>1, <2>2 DEF Speaker
<1>10. CASE (FStep /\ ~FReset) \/ (WStep /\ ~WStart) \/ WDevice
  <2>1. UNCHANGED <<i2s, started, audio_sem>>
    BY <1>10, FlashKeeps, DownloadKeeps DEF i2svars
  <2>2. pc'["D"] = pc["D"]
    BY <1>10, Moved DEF FStep, FWait, FLock, FLoop, FFree, FPost, FEnd, FNull, WStep, WLoop, WLock,
       WFree, WStopped, WInsert, WEnd, WNull, TakeFreeIn, PostNull,
       WDevice, WReadOk, WReadError, WSlept, WClosed
  <2>3. inBox' = <<>> => inBox = <<>>
    <3>1. inBox' = inBox \/ \E e \in InBufs \cup {Null} : inBox' = Append(inBox, e)
      BY <1>10 DEF FStep, FWait, FLock, FLoop, FFree, FPost, FEnd, FNull, WStep, WLoop, WLock,
         WFree, WStopped, WInsert, WEnd, WNull, TakeFreeIn, PostNull, Insert, BoxesTyped, Threads,
         WDevice, WReadOk, WReadError, WSlept, WClosed, boxes
    <3>2. \A e \in InBufs \cup {Null} : Append(inBox, e) # <<>>
      BY DEF BoxesTyped
    <3> QED BY <3>1, <3>2
  <2> QED BY <2>1, <2>2, <2>3 DEF Speaker
<1>11. CASE Requested
  <2>1. UNCHANGED <<inBox, i2s, started, audio_sem>> /\ pc'["D"] = pc["D"]
    BY <1>11, RequestKeeps DEF i2svars, boxes
  <2> QED BY <2>1 DEF Speaker
<1> QED BY <1>1, <1>2, <1>3, <1>4, <1>5, <1>6, <1>7, <1>8, <1>9, <1>10, <1>11, NextKinds DEF DStep, FStep, WStep

----------------------------------------------------------------------------
(* The buffers: who has them, and in which order they wait.                *)

In(s, b) == \E i \in DOMAIN s : s[i] = b
Uniq(s) == \A i, j \in DOMAIN s : s[i] = s[j] /\ s[i] # Null => i = j

\* The w buffers at the start of box hold the chunks from the one after last to the n-th; a
\* NULL may follow.
Row(box, chunk, last, n, w) ==
  /\ w \in Nat
  /\ w = Len(box) \/ (w = Len(box) - 1 /\ box[Len(box)] = Null)
  /\ \A k \in 1..w : box[k] # Null /\ chunk[box[k]] = last + k
  /\ last + w = n

LEMMA InAppend ==
  ASSUME NEW S, NEW s \in Seq(S), NEW e \in S, NEW b
  PROVE  In(Append(s, e), b) <=> In(s, b) \/ b = e
<1>1. DOMAIN s = 1..Len(s) /\ DOMAIN Append(s, e) = 1..(Len(s) + 1) /\ Len(s) \in Nat
  OBVIOUS
<1>2. Append(s, e)[Len(s) + 1] = e /\ \A i \in 1..Len(s) : Append(s, e)[i] = s[i]
  OBVIOUS
<1>3. Len(s) + 1 \in 1..(Len(s) + 1) /\ \A i \in 1..(Len(s) + 1) : i \in 1..Len(s) \/ i = Len(s) + 1
  BY <1>1
<1> QED BY <1>1, <1>2, <1>3 DEF In

LEMMA InTail ==
  ASSUME NEW S, NEW s \in Seq(S), s # <<>>, NEW b
  PROVE  In(s, b) <=> In(Tail(s), b) \/ b = Head(s)
<1>1. DOMAIN s = 1..Len(s) /\ DOMAIN Tail(s) = 1..(Len(s) - 1) /\ Len(s) \in Nat \ {0}
  OBVIOUS
<1>2. Head(s) = s[1] /\ \A i \in 1..(Len(s) - 1) : Tail(s)[i] = s[i + 1]
  OBVIOUS
<1>3. ASSUME In(s, b) PROVE In(Tail(s), b) \/ b = Head(s)
  <2>1. PICK i \in 1..Len(s) : s[i] = b
    BY <1>1, <1>3 DEF In
  <2>2. CASE i = 1
    BY <1>2, <2>1, <2>2
  <2>3. CASE i # 1
    <3>1. i - 1 \in 1..(Len(s) - 1) /\ (i - 1) + 1 = i
      BY <1>1, <2>1, <2>3
    <3> QED BY <1>1, <1>2, <2>1, <3>1 DEF In
  <2> QED BY <2>2, <2>3
<1>4. ASSUME In(Tail(s), b) PROVE In(s, b)
  <2>1. PICK i \in 1..(Len(s) - 1) : Tail(s)[i] = b
    BY <1>1, <1>4 DEF In
  <2>2. i + 1 \in 1..Len(s) /\ s[i + 1] = b
    BY <1>1, <1>2, <2>1
  <2> QED BY <1>1, <2>2 DEF In
<1>5. 1 \in 1..Len(s)
  BY <1>1
<1> QED BY <1>1, <1>2, <1>3, <1>4, <1>5 DEF In

LEMMA UniqAppend ==
  ASSUME NEW S, NEW s \in Seq(S), NEW e \in S, Uniq(s), e = Null \/ ~In(s, e)
  PROVE  Uniq(Append(s, e))
<1>1. DOMAIN s = 1..Len(s) /\ DOMAIN Append(s, e) = 1..(Len(s) + 1) /\ Len(s) \in Nat
  OBVIOUS
<1>2. Append(s, e)[Len(s) + 1] = e /\ \A i \in 1..Len(s) : Append(s, e)[i] = s[i]
  OBVIOUS
<1>3. \A i \in 1..(Len(s) + 1) : i \in 1..Len(s) \/ i = Len(s) + 1
  BY <1>1
<1> QED BY <1>1, <1>2, <1>3 DEF In, Uniq

LEMMA UniqTail ==
  ASSUME NEW S, NEW s \in Seq(S), s # <<>>, Uniq(s)
  PROVE  Uniq(Tail(s)) /\ (Head(s) # Null => ~In(Tail(s), Head(s)))
<1>1. DOMAIN s = 1..Len(s) /\ DOMAIN Tail(s) = 1..(Len(s) - 1) /\ Len(s) \in Nat \ {0}
  OBVIOUS
<1>2. Head(s) = s[1] /\ \A i \in 1..(Len(s) - 1) : Tail(s)[i] = s[i + 1]
  OBVIOUS
<1>3. \A i \in 1..(Len(s) - 1) : i + 1 \in 1..Len(s) /\ i + 1 # 1
  BY <1>1
<1>4. 1 \in 1..Len(s)
  BY <1>1
<1>5. ASSUME NEW i \in 1..(Len(s) - 1), NEW j \in 1..(Len(s) - 1), Tail(s)[i] = Tail(s)[j], Tail(s)[i] # Null
      PROVE  i = j
  <2>1. i + 1 = j + 1
    BY <1>1, <1>2, <1>3, <1>5 DEF Uniq
  <2> QED BY <2>1
<1>6. Head(s) # Null => ~In(Tail(s), Head(s))
  BY <1>1, <1>2, <1>3, <1>4 DEF In, Uniq
<1> QED BY <1>1, <1>5, <1>6 DEF Uniq

LEMMA RowIsOrder ==
  ASSUME BoxesTyped
  PROVE  InOrder <=> \E w : Row(inBox, content, lastRead, sent, w)
<1> DEFINE ended == inBox # <<>> /\ inBox[Len(inBox)] = Null
<1> DEFINE waiting == IF ended THEN Len(inBox) - 1 ELSE Len(inBox)
<1>1. Len(inBox) \in Nat /\ (Len(inBox) = 0 <=> inBox = <<>>)
  BY DEF BoxesTyped
<1>2. waiting \in Nat
  BY <1>1
<1>3. InOrder <=> /\ \A k \in 1..waiting : inBox[k] # Null /\ content[inBox[k]] = lastRead + k
                  /\ lastRead + waiting = sent
  BY DEF InOrder
<1>4. InOrder => Row(inBox, content, lastRead, sent, waiting)
  BY <1>1, <1>2, <1>3 DEF Row
<1>5. ASSUME NEW w, Row(inBox, content, lastRead, sent, w) PROVE w = waiting
  <2>1. CASE w = Len(inBox)
    <3>1. ~ended
      BY <1>1, <1>5, <2>1 DEF Row
    <3> QED BY <2>1, <3>1
  <2>2. CASE w = Len(inBox) - 1 /\ inBox[Len(inBox)] = Null
    <3>1. inBox # <<>>
      BY <1>1, <1>5, <2>2 DEF Row
    <3> QED BY <2>2, <3>1
  <2> QED BY <1>5, <2>1, <2>2 DEF Row
<1>6. ASSUME NEW w, Row(inBox, content, lastRead, sent, w) PROVE InOrder
  <2>1. w = waiting
    BY <1>5, <1>6
  <2> HIDE DEF waiting, ended
  <2> QED BY <1>3, <1>6, <2>1 DEF Row
<1> QED BY <1>4, <1>6

\* A source is between its reset of the mailboxes and its last message; the playback has met
\* the end of the music; thread t is at work on the buffer it holds.
Loading == pc["F"] \notin {"f_wait", "f_lock", "f_reset"} \/ pc["W"] \notin {"w_wait", "w_close"}
AtEnd == pc["D"] \in {"d_eom_dec", "d_eom_in"}
Holders == {"D", "F", "W"}
Busy(t) == pc[t] \in Working[t]

\* There is no NULL in the mailboxes before the last message of a session.
Ends ==
  /\ Loading => ~In(freeIn, Null) /\ ~In(inBox, Null) /\ ~AtEnd
  /\ \A t \in Holders : Busy(t) => held[t] \in InBufs
  /\ AtEnd => held["D"] = Null

\* An input buffer is in one place at most.
Own ==
  /\ Uniq(freeIn) /\ Uniq(inBox)
  /\ \A b \in InBufs : ~(In(freeIn, b) /\ In(inBox, b))
  /\ \A t \in Holders : Busy(t) => ~In(freeIn, held[t]) /\ ~In(inBox, held[t])
  /\ \A t, u \in Holders : Busy(t) /\ Busy(u) /\ held[t] = held[u] => t = u

Ordered == \E w : Row(inBox, content, lastRead, sent, w)

Buffers == Ends /\ Own /\ Ordered

LEMMA BusyAt ==
  /\ Busy("D") <=> pc["D"] = "d_release"
  /\ Busy("F") <=> pc["F"] = "f_post"
  /\ Busy("W") <=> pc["W"] \in {"w_read", "w_sleep", "w_full"}
  /\ Busy("D")' <=> pc'["D"] = "d_release"
  /\ Busy("F")' <=> pc'["F"] = "f_post"
  /\ Busy("W")' <=> pc'["W"] \in {"w_read", "w_sleep", "w_full"}
BY DEF Busy, Working

\* A step that leaves the buffers where they are.
LEMMA SameBuffers ==
  ASSUME Buffers, UNCHANGED <<freeIn, inBox, content, held, lastRead, sent>>,
         Loading' => Loading, AtEnd' => AtEnd, \A t \in Holders : Busy(t)' => Busy(t)
  PROVE  Buffers'
<1>1. Ends'
  BY DEF Buffers, Ends
<1>2. Own'
  BY DEF Buffers, Own
<1>3. Ordered'
  BY DEF Buffers, Ordered
<1> QED BY <1>1, <1>2, <1>3 DEF Buffers

\* A reset, when nobody has a buffer.
LEMMA ResetBuffers ==
  ASSUME NEW t, NEW from, NEW to, Reset(t, from, to), \A u \in Holders : ~Busy(u)', ~AtEnd'
  PROVE  Buffers'
<1>1. freeIn' = [i \in InBufs |-> i] /\ inBox' = <<>> /\ sent' = 0 /\ lastRead' = 0
  BY DEF Reset
<1>2. \A b : ~In(inBox', b)
  BY <1>1 DEF In
<1>3. DOMAIN freeIn' = InBufs /\ \A i \in InBufs : freeIn'[i] = i
  BY <1>1
<1>4. ~In(freeIn', Null)
  BY <1>3, BufferAssumption DEF In, InBufs, Null
<1>5. Uniq(freeIn') /\ Uniq(inBox')
  BY <1>1, <1>3 DEF Uniq
<1>6. Row(inBox', content', lastRead', sent', 0)
  BY <1>1 DEF Row
<1> QED BY <1>2, <1>4, <1>5, <1>6 DEF Buffers, Ends, Own, Ordered

\* Thread t takes a buffer from free_input_box; it may not use it.
LEMMA TakeBuffers ==
  ASSUME BoxesTyped, Buffers, Loading, NEW t \in {"F", "W"}, NEW from \in FetchesFreeIn, NEW to,
         TakeFreeIn(t, from, to), AtEnd' => AtEnd, \A u \in Holders \ {t} : Busy(u)' => Busy(u)
  PROVE  Buffers'
<1>1. freeIn # <<>> /\ freeIn' = Tail(freeIn) /\ held' = [held EXCEPT ![t] = Head(freeIn)]
      /\ UNCHANGED <<inBox, content, lastRead, sent>>
  BY DEF TakeFreeIn, Step, CanRun, Blocked, history
<1>2. \A b : In(freeIn, b) <=> In(freeIn', b) \/ b = Head(freeIn)
  BY <1>1, InTail DEF BoxesTyped
<1>3. Head(freeIn) \in InBufs
  <2>1. Head(freeIn) \in InBufs \cup {Null}
    BY <1>1, TakenSeq DEF BoxesTyped
  <2>2. Head(freeIn) # Null
    BY <1>2 DEF Buffers, Ends
  <2> QED BY <2>1, <2>2
<1>4. Uniq(freeIn') /\ ~In(freeIn', Head(freeIn))
  <2>1. Head(freeIn) # Null
    BY <1>3, BufferAssumption DEF InBufs, Null
  <2> QED BY <1>1, <2>1, UniqTail DEF BoxesTyped, Buffers, Own
<1>5. held'[t] = Head(freeIn) /\ \A u \in Holders \ {t} : held'[u] = held[u]
  BY <1>1 DEF BoxesTyped, Holders, Threads
<1>6. t \in Holders
  BY DEF Holders
<1>7. ~In(inBox, Head(freeIn)) /\ \A u \in Holders \ {t} : Busy(u) => held[u] # Head(freeIn)
  BY <1>2, <1>3 DEF Buffers, Own
<1>8. Ends'
  BY <1>1, <1>2, <1>3, <1>5, <1>6 DEF Buffers, Ends, AtEnd, Holders
<1>9. Own'
  <2>1. \A u \in Holders : Busy(u)' => ~In(freeIn', held'[u]) /\ ~In(inBox', held'[u])
    BY <1>1, <1>2, <1>4, <1>5, <1>7 DEF Buffers, Own
  <2>2. \A u, v \in Holders : Busy(u)' /\ Busy(v)' /\ held'[u] = held'[v] => u = v
    BY <1>5, <1>7 DEF Buffers, Own
  <2> QED BY <1>1, <1>2, <1>4, <2>1, <2>2 DEF Buffers, Own
<1>10. Ordered'
  BY <1>1 DEF Buffers, Ordered
<1> QED BY <1>8, <1>9, <1>10 DEF Buffers

\* Thread t inserts its buffer, and is done with it.
LEMMA InsertBuffers ==
  ASSUME BoxesTyped, Buffers, Loading, NEW t \in {"F", "W"}, Insert(t), Busy(t), ~Busy(t)',
         AtEnd' => AtEnd, \A u \in Holders \ {t} : Busy(u)' => Busy(u)
  PROVE  Buffers'
<1> DEFINE h == held[t]
<1>1. inBox' = Append(inBox, h) /\ content' = [content EXCEPT ![h] = sent + 1] /\ sent' = sent + 1
      /\ UNCHANGED <<freeIn, held, lastRead>>
  BY DEF Insert
<1>2. h \in InBufs /\ ~In(freeIn, h) /\ ~In(inBox, h) /\ h # Null /\ t \in Holders
  <2>1. t \in Holders
    BY DEF Holders
  <2> QED BY <2>1, BufferAssumption DEF Buffers, Ends, Own, InBufs, Null
<1>3. \A b : In(inBox', b) <=> In(inBox, b) \/ b = h
  <2> TAKE b
  <2>1. inBox \in Seq(InBufs \cup {Null}) /\ h \in InBufs \cup {Null}
    BY <1>2 DEF BoxesTyped
  <2>2. In(Append(inBox, h), b) <=> In(inBox, b) \/ b = h
    BY <2>1, InAppend
  <2> QED BY <1>1, <2>2
<1>4. Uniq(inBox')
  BY <1>1, <1>2, UniqAppend DEF BoxesTyped, Buffers, Own
<1>5. Ends'
  BY <1>1, <1>2, <1>3 DEF Buffers, Ends, AtEnd
<1>6. Own'
  <2>1. \A u \in Holders : Busy(u)' => Busy(u) /\ u # t /\ held[u] # h
    BY <1>2 DEF Buffers, Own
  <2> QED BY <1>1, <1>2, <1>3, <1>4, <2>1 DEF Buffers, Own
<1>7. Ordered'
  <2>1. PICK w : Row(inBox, content, lastRead, sent, w)
    BY DEF Buffers, Ordered
  <2>2. Len(inBox) \in Nat /\ DOMAIN inBox = 1..Len(inBox) /\ w = Len(inBox) /\ lastRead \in Nat /\ sent \in Nat
    <3>1. Len(inBox) \in Nat /\ DOMAIN inBox = 1..Len(inBox) /\ lastRead \in Nat /\ sent \in Nat
      BY DEF BoxesTyped
    <3>2. ~In(inBox, Null)
      BY DEF Buffers, Ends
    <3>3. w \in Nat /\ w = Len(inBox) - 1 => Len(inBox) \in DOMAIN inBox
      BY <3>1
    <3> QED BY <2>1, <3>1, <3>2, <3>3 DEF Row, In
  <2>3. Len(inBox') = w + 1 /\ inBox'[w + 1] = h /\ \A k \in 1..w : inBox'[k] = inBox[k]
    BY <1>1, <1>2, <2>2 DEF BoxesTyped
  <2>4. content'[h] = sent + 1 /\ \A b \in InBufs : b # h => content'[b] = content[b]
    BY <1>1, <1>2 DEF BoxesTyped
  <2>5. ASSUME NEW k \in 1..(w + 1) PROVE inBox'[k] # Null /\ content'[inBox'[k]] = lastRead' + k
    <3>1. CASE k = w + 1
      BY <1>1, <1>2, <2>1, <2>2, <2>3, <2>4, <3>1 DEF Row
    <3>2. CASE k # w + 1
      <4>1. k \in 1..w
        BY <2>2, <3>2
      <4>2. inBox[k] \in InBufs
        <5>1. inBox[k] \in InBufs \cup {Null}
          BY <2>2, <4>1 DEF BoxesTyped
        <5>2. inBox[k] # Null
          BY <2>1, <4>1 DEF Row
        <5> QED BY <5>1, <5>2
      <4>3. inBox[k] # h
        BY <1>2, <2>2, <4>1 DEF In
      <4> QED BY <1>1, <2>1, <2>3, <2>4, <4>1, <4>2, <4>3 DEF Row
    <3> QED BY <3>1, <3>2
  <2>6. w + 1 \in Nat /\ lastRead' + (w + 1) = sent'
    BY <1>1, <2>1, <2>2 DEF Row
  <2>7. Row(inBox', content', lastRead', sent', w + 1)
    BY <2>3, <2>5, <2>6 DEF Row
  <2> QED BY <2>7 DEF Ordered
<1> QED BY <1>5, <1>6, <1>7 DEF Buffers

\* Thread t posts NULL, the last message of its session.
LEMMA NullBuffers ==
  ASSUME BoxesTyped, Buffers, Loading, ~Loading', NEW t \in {"F", "W"}, NEW from, NEW to,
         PostNull(t, from, to), AtEnd' => AtEnd, \A u \in Holders : Busy(u)' => Busy(u)
  PROVE  Buffers'
<1>1. inBox' = Append(inBox, Null) /\ UNCHANGED <<freeIn, content, held, lastRead, sent>>
  BY DEF PostNull, history
<1>2. Null \notin InBufs
  BY BufferAssumption DEF InBufs, Null
<1>3. \A b : In(inBox', b) <=> In(inBox, b) \/ b = Null
  BY <1>1, InAppend DEF BoxesTyped
<1>4. Uniq(inBox')
  BY <1>1, UniqAppend DEF BoxesTyped, Buffers, Own
<1>5. Ends'
  BY <1>1 DEF Buffers, Ends
<1>6. Own'
  <2>1. \A u \in Holders : Busy(u)' => held[u] \in InBufs
    BY DEF Buffers, Ends
  <2> QED BY <1>1, <1>2, <1>3, <1>4, <2>1 DEF Buffers, Own
<1>7. Ordered'
  <2>1. PICK w : Row(inBox, content, lastRead, sent, w)
    BY DEF Buffers, Ordered
  <2>2. Len(inBox) \in Nat /\ DOMAIN inBox = 1..Len(inBox) /\ w = Len(inBox)
    <3>1. Len(inBox) \in Nat /\ DOMAIN inBox = 1..Len(inBox)
      BY DEF BoxesTyped
    <3>2. ~In(inBox, Null)
      BY DEF Buffers, Ends
    <3>3. w \in Nat /\ w = Len(inBox) - 1 => Len(inBox) \in DOMAIN inBox
      BY <3>1
    <3> QED BY <2>1, <3>1, <3>2, <3>3 DEF Row, In
  <2>3. Len(inBox') = w + 1 /\ inBox'[w + 1] = Null /\ \A k \in 1..w : inBox'[k] = inBox[k]
    BY <1>1, <2>2 DEF BoxesTyped
  <2>4. w = Len(inBox') - 1 /\ inBox'[Len(inBox')] = Null
    BY <2>2, <2>3
  <2>5. \A k \in 1..w : inBox'[k] # Null /\ content'[inBox'[k]] = lastRead' + k
    BY <1>1, <2>1, <2>3 DEF Row
  <2>6. w \in Nat /\ lastRead' + w = sent'
    BY <1>1, <2>1 DEF Row
  <2>7. Row(inBox', content', lastRead', sent', w)
    BY <2>4, <2>5, <2>6 DEF Row
  <2> QED BY <2>7 DEF Ordered
<1> QED BY <1>5, <1>6, <1>7 DEF Buffers

\* The playback takes the first message.
LEMMA FetchBuffers ==
  ASSUME PcTyped, BoxesTyped, Buffers, DFetch
  PROVE  Buffers'
<1> DEFINE b == Head(inBox)
<1> "D" \in Threads /\ "F" \in Threads /\ "W" \in Threads
  BY DEF Threads
<1>1. inBox # <<>> /\ inBox' = Tail(inBox) /\ held' = [held EXCEPT !["D"] = b]
      /\ UNCHANGED <<freeIn, content, sent>>
      /\ lastRead' = (IF b = Null THEN lastRead ELSE content[b])
  BY DEF DFetch, Step, CanRun, Blocked
<1>2. pc["D"] = "d_fetch" /\ pc'["D"] = (IF b = Null THEN "d_eom_dec" ELSE "d_release")
      /\ pc'["F"] = pc["F"] /\ pc'["W"] = pc["W"]
  BY Moved DEF DFetch
<1>3. b \in InBufs \cup {Null}
  BY <1>1, TakenSeq DEF BoxesTyped
<1>4. Null \notin InBufs
  BY BufferAssumption DEF InBufs, Null
<1>5. \A e : In(inBox, e) <=> In(inBox', e) \/ e = b
  BY <1>1, InTail DEF BoxesTyped
<1>6. Uniq(inBox') /\ (b # Null => ~In(inBox', b))
  BY <1>1, UniqTail DEF BoxesTyped, Buffers, Own
<1>7. /\ Busy("D")' <=> b # Null
      /\ AtEnd' <=> b = Null
      /\ \A u \in {"F", "W"} : Busy(u)' <=> Busy(u)
      /\ Loading' <=> Loading
  BY <1>2, BusyAt DEF AtEnd, Loading
<1>8. held'["D"] = b /\ \A u \in {"F", "W"} : held'[u] = held[u]
  BY <1>1 DEF BoxesTyped
<1>9. Holders = {"D"} \cup {"F", "W"}
  BY DEF Holders
<1>10. b = Null => ~Loading
  BY <1>5 DEF Buffers, Ends
<1> HIDE DEF b
<1>11. Ends'
  <2>1. Loading' => ~In(freeIn', Null) /\ ~In(inBox', Null) /\ ~AtEnd'
    BY <1>1, <1>5, <1>7, <1>10 DEF Buffers, Ends
  <2>2. \A u \in Holders : Busy(u)' => held'[u] \in InBufs
    BY <1>3, <1>7, <1>8, <1>9 DEF Buffers, Ends
  <2> QED BY <1>7, <1>8, <2>1, <2>2 DEF Ends
<1>12. Own'
  <2>1. b # Null => b \in InBufs /\ ~In(freeIn, b) /\ \A u \in {"F", "W"} : Busy(u) => held[u] # b
    BY <1>3, <1>5, <1>9 DEF Buffers, Own
  <2>2. \A u \in Holders : Busy(u)' => ~In(freeIn', held'[u]) /\ ~In(inBox', held'[u])
    BY <1>1, <1>5, <1>6, <1>7, <1>8, <1>9, <2>1 DEF Buffers, Own
  <2>3. \A u, v \in Holders : Busy(u)' /\ Busy(v)' /\ held'[u] = held'[v] => u = v
    BY <1>7, <1>8, <1>9, <2>1 DEF Buffers, Own
  <2>4. \A e \in InBufs : ~(In(freeIn', e) /\ In(inBox', e))
    BY <1>1, <1>5 DEF Buffers, Own
  <2>5. Uniq(freeIn')
    BY <1>1 DEF Buffers, Own
  <2> QED BY <1>6, <2>2, <2>3, <2>4, <2>5 DEF Own
<1>13. Ordered'
  <2>1. PICK w : Row(inBox, content, lastRead, sent, w)
    BY DEF Buffers, Ordered
  <2>2. /\ Len(inBox) \in Nat \ {0} /\ Len(inBox') = Len(inBox) - 1 /\ b = inBox[1]
        /\ \A k \in 1..(Len(inBox) - 1) : inBox'[k] = inBox[k + 1]
        /\ lastRead \in Nat /\ sent \in Nat
    BY <1>1 DEF BoxesTyped, b
  <2>3. w \in Nat /\ lastRead + w = sent
    BY <2>1 DEF Row
  <2>4. CASE b = Null
    <3>1. w = 0
      <4>1. 1 \notin 1..w
        BY <2>1, <2>2, <2>4 DEF Row
      <4> QED BY <2>3, <4>1
    <3>2. Len(inBox') = 0 /\ lastRead' = lastRead
      BY <1>1, <2>1, <2>2, <2>4, <3>1 DEF Row
    <3>3. Row(inBox', content', lastRead', sent', 0)
      BY <1>1, <2>3, <3>1, <3>2 DEF Row
    <3> QED BY <3>3 DEF Ordered
  <2>5. CASE b # Null
    <3>1. w >= 1
      BY <2>1, <2>2, <2>3, <2>5 DEF Row
    <3>2. 1 \in 1..w
      BY <2>3, <3>1
    <3>3. lastRead' = lastRead + 1
      BY <1>1, <2>1, <2>2, <2>5, <3>2 DEF Row
    <3>4. w - 1 \in Nat /\ lastRead' + (w - 1) = sent'
      BY <1>1, <2>2, <2>3, <3>1, <3>3
    <3>5. w - 1 = Len(inBox') \/ (w - 1 = Len(inBox') - 1 /\ inBox'[Len(inBox')] = Null)
      <4>1. CASE w = Len(inBox)
        BY <2>2, <4>1
      <4>2. CASE w = Len(inBox) - 1 /\ inBox[Len(inBox)] = Null
        <5>1. Len(inBox') \in 1..(Len(inBox) - 1) /\ Len(inBox') + 1 = Len(inBox)
          BY <2>2, <3>1, <4>2
        <5>2. inBox'[Len(inBox')] = Null
          BY <2>2, <4>2, <5>1
        <5> QED BY <2>2, <4>2, <5>2
      <4> QED BY <2>1, <4>1, <4>2 DEF Row
    <3>6. ASSUME NEW k \in 1..(w - 1) PROVE inBox'[k] # Null /\ content'[inBox'[k]] = lastRead' + k
      <4>0. w <= Len(inBox)
        BY <2>1, <2>2 DEF Row
      <4>1. k + 1 \in 1..w /\ k \in 1..(Len(inBox) - 1) /\ lastRead + (k + 1) = (lastRead + 1) + k
        BY <2>2, <2>3, <3>1, <4>0
      <4>2. inBox'[k] = inBox[k + 1]
        BY <2>2, <4>1
      <4>3. inBox[k + 1] # Null /\ content[inBox[k + 1]] = lastRead + (k + 1)
        BY <2>1, <4>1 DEF Row
      <4> QED BY <1>1, <3>3, <4>1, <4>2, <4>3
    <3>7. Row(inBox', content', lastRead', sent', w - 1)
      BY <3>4, <3>5, <3>6 DEF Row
    <3> QED BY <3>7 DEF Ordered
  <2> QED BY <2>4, <2>5
<1> QED BY <1>11, <1>12, <1>13 DEF Buffers

\* The playback gives the buffer it has read back.
LEMMA ReleaseBuffers ==
  ASSUME PcTyped, BoxesTyped, Buffers, DRelease
  PROVE  Buffers'
<1> DEFINE b == held["D"]
<1> "D" \in Threads /\ "F" \in Threads /\ "W" \in Threads
  BY DEF Threads
<1>1. freeIn' = Append(freeIn, b) /\ content' = [content EXCEPT ![b] = 0]
      /\ UNCHANGED <<inBox, held, lastRead, sent>>
  BY DEF DRelease, history
<1>2. pc["D"] = "d_release" /\ pc'["D"] = "d_acquire" /\ pc'["F"] = pc["F"] /\ pc'["W"] = pc["W"]
  BY Moved DEF DRelease
<1>3. /\ Busy("D") /\ ~Busy("D")' /\ ~AtEnd'
      /\ \A u \in {"F", "W"} : Busy(u)' <=> Busy(u)
      /\ Loading' <=> Loading
  BY <1>2, BusyAt DEF AtEnd, Loading
<1>4. Holders = {"D"} \cup {"F", "W"}
  BY DEF Holders
<1>5. b \in InBufs /\ ~In(freeIn, b) /\ ~In(inBox, b) /\ b # Null
  BY <1>3, <1>4, BufferAssumption DEF Buffers, Ends, Own, InBufs, Null
<1>6. \A e : In(freeIn', e) <=> In(freeIn, e) \/ e = b
  <2>1. freeIn \in Seq(InBufs \cup {Null}) /\ b \in InBufs \cup {Null}
    BY <1>5 DEF BoxesTyped
  <2> HIDE DEF b
  <2> QED BY <1>1, <2>1, InAppend
<1>7. Uniq(freeIn')
  BY <1>1, <1>5, UniqAppend DEF BoxesTyped, Buffers, Own
<1>8. Ends'
  BY <1>1, <1>3, <1>4, <1>5, <1>6 DEF Buffers, Ends
<1>9. Own'
  <2>1. \A u \in Holders : Busy(u)' => Busy(u) /\ held[u] # b
    BY <1>3, <1>4 DEF Buffers, Own
  <2>2. \A u \in Holders : Busy(u)' => ~In(freeIn', held'[u]) /\ ~In(inBox', held'[u])
    BY <1>1, <1>6, <2>1 DEF Buffers, Own
  <2>3. \A e \in InBufs : ~(In(freeIn', e) /\ In(inBox', e))
    BY <1>1, <1>5, <1>6 DEF Buffers, Own
  <2> QED BY <1>1, <1>7, <2>1, <2>2, <2>3 DEF Buffers, Own
<1>10. Ordered'
  <2>1. PICK w : Row(inBox, content, lastRead, sent, w)
    BY DEF Buffers, Ordered
  <2>2. Len(inBox) \in Nat /\ DOMAIN inBox = 1..Len(inBox) /\ w \in Nat /\ w <= Len(inBox)
    <3>1. Len(inBox) \in Nat /\ DOMAIN inBox = 1..Len(inBox)
      BY DEF BoxesTyped
    <3> QED BY <2>1, <3>1 DEF Row
  <2>3. ASSUME NEW k \in 1..w PROVE content'[inBox[k]] = content[inBox[k]]
    <3>1. k \in DOMAIN inBox
      BY <2>2
    <3>2. inBox[k] \in InBufs \cup {Null} /\ inBox[k] # Null
      BY <2>1, <3>1 DEF BoxesTyped, Row
    <3>3. inBox[k] # b
      BY <1>5, <3>1 DEF In
    <3> QED BY <1>1, <3>2, <3>3 DEF BoxesTyped
  <2>4. Row(inBox', content', lastRead', sent', w)
    BY <1>1, <2>1, <2>3 DEF Row
  <2> QED BY <2>4 DEF Ordered
<1> QED BY <1>8, <1>9, <1>10 DEF Buffers

\* The playback gives NULL back, as if it were a buffer.
LEMMA ReleaseNull ==
  ASSUME PcTyped, BoxesTyped, Buffers, DEndIn
  PROVE  Buffers'
<1> "D" \in Threads /\ "F" \in Threads /\ "W" \in Threads
  BY DEF Threads
<1>1. freeIn' = Append(freeIn, held["D"]) /\ UNCHANGED <<inBox, content, held, lastRead, sent>>
  BY DEF DEndIn, history
<1>2. pc["D"] = "d_eom_in" /\ pc'["D"] = "d_eom" /\ pc'["F"] = pc["F"] /\ pc'["W"] = pc["W"]
  BY Moved DEF DEndIn
<1>3. /\ AtEnd /\ ~AtEnd' /\ ~Busy("D")'
      /\ \A u \in {"F", "W"} : Busy(u)' <=> Busy(u)
      /\ Loading' <=> Loading
  BY <1>2, BusyAt DEF AtEnd, Loading
<1>4. held["D"] = Null /\ ~Loading
  BY <1>3 DEF Buffers, Ends
<1>5. Null \notin InBufs /\ Holders = {"D"} \cup {"F", "W"}
  BY BufferAssumption DEF InBufs, Null, Holders
<1>6. \A e : In(freeIn', e) <=> In(freeIn, e) \/ e = Null
  BY <1>1, <1>4, InAppend DEF BoxesTyped
<1>7. Uniq(freeIn')
  BY <1>1, <1>4, UniqAppend DEF BoxesTyped, Buffers, Own
<1>8. Ends'
  BY <1>1, <1>3, <1>4, <1>5 DEF Buffers, Ends
<1>9. Own'
  <2>1. \A u \in Holders : Busy(u)' => Busy(u) /\ held[u] \in InBufs
    BY <1>3, <1>5 DEF Buffers, Ends
  <2>2. \A u \in Holders : Busy(u)' => ~In(freeIn', held'[u]) /\ ~In(inBox', held'[u])
    BY <1>1, <1>5, <1>6, <2>1 DEF Buffers, Own
  <2> QED BY <1>1, <1>5, <1>6, <1>7, <2>1, <2>2 DEF Buffers, Own
<1>10. Ordered'
  BY <1>1 DEF Buffers, Ordered
<1> QED BY <1>8, <1>9, <1>10 DEF Buffers

LEMMA NextBuffers ==
  ASSUME PcTyped, BoxesTyped, Sessions, Buffers, [Next]_vars
  PROVE  Buffers'
<1> "D" \in Threads /\ "F" \in Threads /\ "W" \in Threads /\ "X" \in Threads
  BY DEF Threads
<1> Holders = {"D", "F", "W"}
  BY DEF Holders
<1>1. CASE DFetch
  BY <1>1, FetchBuffers
<1>2. CASE DRelease
  BY <1>2, ReleaseBuffers
<1>3. CASE DEndIn
  BY <1>3, ReleaseNull
<1>4. CASE (DStep /\ ~DFetch /\ ~DRelease /\ ~DEndIn) \/ DTimeout \/ DDrained \/ I2SInterrupt
  <2>1. UNCHANGED <<freeIn, inBox, content, held, lastRead, sent>>
    BY <1>4 DEF DStep, DTop, DWait, DFree, DEnough, DMore, DEndDec,
     DEnd, DNoSync, DFrame, DUnderflow, DDrop, DBadHeader, DBad, DClear, DSem, DPost, DStart, ReleasePbuf,
     DTimeout, DDrained, I2SInterrupt, boxes, history
  <2>2. pc'["F"] = pc["F"] /\ pc'["W"] = pc["W"]
    BY <1>4, PlaybackKeeps
  <2>3. (pc'["D"] = "d_release" => pc["D"] = "d_release") /\ (AtEnd' => AtEnd)
    <3>1. CASE DStep /\ ~DFetch /\ ~DRelease /\ ~DEndIn
      <4>1. CASE DTop \/ DWait \/ DFree \/ DEnough \/ DMore \/ DEnd \/ DNoSync
        BY <4>1, Moved DEF DTop, DWait, DFree, DEnough, DMore, DEnd, DNoSync, AtEnd
      <4>2. CASE DFrame \/ DUnderflow \/ DBadHeader \/ DClear \/ DSem \/ DStart
        BY <4>2, Moved DEF DFrame, DUnderflow, DBadHeader, DClear, DSem, DStart, AtEnd
      <4>3. CASE DEndDec \/ DDrop \/ DBad \/ DPost
        BY <4>3, Moved DEF DEndDec, DDrop, DBad, DPost, ReleasePbuf, AtEnd
      <4> QED BY <3>1, <4>1, <4>2, <4>3 DEF DStep
    <3>2. CASE DTimeout \/ DDrained \/ I2SInterrupt
      BY <3>2, Moved DEF DTimeout, DDrained, I2SInterrupt, AtEnd
    <3> QED BY <1>4, <3>1, <3>2
  <2>4. (Loading' => Loading) /\ \A t \in Holders : Busy(t)' => Busy(t)
    BY <2>2, <2>3, BusyAt DEF Loading
  <2> QED BY <2>1, <2>3, <2>4, SameBuffers
<1>5. CASE FReset \/ WStart
  <2>1. \A u \in Holders : ~Busy(u)'
    BY <1>5, CalmReset, BusyAt
  <2>2. ~AtEnd'
    BY <1>5, CalmReset DEF AtEnd
  <2> QED BY <1>5, <2>1, <2>2, ResetBuffers DEF FReset, WStart
<1>6. CASE FFree \/ FEnd
  <2>1. Loading /\ pc'["D"] = pc["D"] /\ pc'["W"] = pc["W"]
    BY <1>6, Moved DEF FFree, FEnd, TakeFreeIn, Loading
  <2>2. (AtEnd' => AtEnd) /\ \A u \in Holders \ {"F"} : Busy(u)' => Busy(u)
    BY <2>1, BusyAt DEF AtEnd
  <2> QED BY <1>6, <2>1, <2>2, TakeBuffers DEF FFree, FEnd, FetchesFreeIn
<1>7. CASE WFree \/ WEnd
  <2>1. Loading /\ pc'["D"] = pc["D"] /\ pc'["F"] = pc["F"]
    BY <1>7, Moved DEF WFree, WEnd, TakeFreeIn, Loading
  <2>2. (AtEnd' => AtEnd) /\ \A u \in Holders \ {"W"} : Busy(u)' => Busy(u)
    BY <2>1, BusyAt DEF AtEnd
  <2> QED BY <1>7, <2>1, <2>2, TakeBuffers DEF WFree, WEnd, FetchesFreeIn
<1>8. CASE FPost
  <2>1. pc["F"] = "f_post" /\ pc'["F"] \in {"f_loop", "f_free"} /\ pc'["D"] = pc["D"] /\ pc'["W"] = pc["W"]
    BY <1>8, Moved DEF FPost
  <2>2. Loading /\ (AtEnd' => AtEnd) /\ \A u \in Holders \ {"F"} : Busy(u)' => Busy(u)
    BY <2>1, BusyAt DEF AtEnd, Loading
  <2>3. Busy("F") /\ ~Busy("F")'
    BY <2>1, BusyAt
  <2> QED BY <1>8, <2>2, <2>3, InsertBuffers DEF FPost
<1>9. CASE WInsert
  <2>1. pc["W"] = "w_full" /\ pc'["W"] = "w_loop" /\ pc'["D"] = pc["D"] /\ pc'["F"] = pc["F"]
    BY <1>9, Moved DEF WInsert
  <2>2. Loading /\ (AtEnd' => AtEnd) /\ \A u \in Holders \ {"W"} : Busy(u)' => Busy(u)
    BY <2>1, BusyAt DEF AtEnd, Loading
  <2>3. Busy("W") /\ ~Busy("W")'
    BY <2>1, BusyAt
  <2> QED BY <1>9, <2>2, <2>3, InsertBuffers DEF WInsert
<1>10. CASE FNull
  <2>1. pc["F"] = "f_null" /\ pc'["F"] = "f_wait" /\ pc'["D"] = pc["D"] /\ pc'["W"] = pc["W"]
    BY <1>10, Moved DEF FNull, PostNull
  <2>2. Loading /\ (AtEnd' => AtEnd) /\ \A u \in Holders : Busy(u)' => Busy(u)
    BY <2>1, BusyAt DEF AtEnd, Loading
  <2>3. ~Loading'
    BY <2>1 DEF Loading, Sessions
  <2> QED BY <1>10, <2>2, <2>3, NullBuffers DEF FNull
<1>11. CASE WNull
  <2>1. pc["W"] = "w_null" /\ pc'["W"] = "w_close" /\ pc'["D"] = pc["D"] /\ pc'["F"] = pc["F"]
    BY <1>11, Moved DEF WNull, PostNull
  <2>2. Loading /\ (AtEnd' => AtEnd) /\ \A u \in Holders : Busy(u)' => Busy(u)
    BY <2>1, BusyAt DEF AtEnd, Loading
  <2>3. ~Loading'
    BY <2>1 DEF Loading, Sessions
  <2> QED BY <1>11, <2>2, <2>3, NullBuffers DEF WNull
<1>12. CASE FWait \/ FLock \/ FLoop
  <2>1. UNCHANGED <<freeIn, inBox, content, held, lastRead, sent>>
    BY <1>12 DEF FWait, FLock, FLoop, boxes, history
  <2>2. pc'["D"] = pc["D"] /\ pc'["W"] = pc["W"] /\ pc'["F"] # "f_post"
        /\ (pc["F"] \in {"f_wait", "f_lock"} => pc'["F"] \in {"f_lock", "f_reset"})
    BY <1>12, Moved DEF FWait, FLock, FLoop
  <2>3. pc["F"] \in {"f_wait", "f_lock", "f_loop"}
    BY <1>12, Moved DEF FWait, FLock, FLoop
  <2>4. (Loading' => Loading) /\ (AtEnd' => AtEnd) /\ \A t \in Holders : Busy(t)' => Busy(t)
    BY <2>2, <2>3, BusyAt DEF Loading, AtEnd
  <2> QED BY <2>1, <2>4, SameBuffers
<1>13. CASE WLoop \/ WLock("w_lock", "w_free") \/ WLock("w_end_lock", "w_end") \/ WStopped \/ WDevice
  <2>1. UNCHANGED <<freeIn, inBox, content, held, lastRead, sent>>
    BY <1>13 DEF WLoop, WLock, WStopped, WDevice, WReadOk, WReadError, WSlept, WClosed, boxes, history
  <2>2. pc'["D"] = pc["D"] /\ pc'["F"] = pc["F"]
    BY <1>13, Moved DEF WLoop, WLock, WStopped, WDevice, WReadOk, WReadError, WSlept, WClosed
  <2>3. /\ pc["W"] # "w_wait" /\ (pc["W"] = "w_close" => pc'["W"] = "w_wait")
        /\ (pc'["W"] \in {"w_read", "w_sleep", "w_full"} => pc["W"] \in {"w_read", "w_sleep", "w_full"})
    BY <1>13, Moved DEF WLoop, WLock, WStopped, WDevice, WReadOk, WReadError, WSlept, WClosed
  <2>4. (Loading' => Loading) /\ (AtEnd' => AtEnd) /\ \A t \in Holders : Busy(t)' => Busy(t)
    BY <2>2, <2>3, BusyAt DEF Loading, AtEnd
  <2> QED BY <2>1, <2>4, SameBuffers
<1>14. CASE Requested
  <2>1. UNCHANGED <<freeIn, inBox, content, held, lastRead, sent>>
        /\ pc'["D"] = pc["D"] /\ pc'["F"] = pc["F"] /\ pc'["W"] = pc["W"]
    BY <1>14, RequestKeeps DEF boxes
  <2>2. (Loading' => Loading) /\ (AtEnd' => AtEnd) /\ \A t \in Holders : Busy(t)' => Busy(t)
    BY <2>1, BusyAt DEF Loading, AtEnd
  <2> QED BY <2>1, <2>2, SameBuffers
<1> QED BY <1>1, <1>2, <1>3, <1>4, <1>5, <1>6, <1>7, <1>8, <1>9, <1>10, <1>11, <1>12, <1>13, <1>14,
           NextKinds DEF FStep, WStep


LEMMA CalmInit == Init => Sessions /\ Speaker /\ Buffers
<1> SUFFICES ASSUME Init PROVE Sessions /\ Speaker /\ Buffers
  OBVIOUS
<1>1. /\ pc["D"] = "d_top" /\ pc["F"] = "f_wait" /\ pc["W"] = "w_wait" /\ pc["X"] = "x_idle"
      /\ audio_bsem = TRUE /\ download_bsem = FALSE /\ decode_bsem = FALSE
      /\ i2s = FALSE /\ started = FALSE
  BY DEF Init
<1>2. Sessions /\ Speaker
  BY <1>1 DEF Sessions, Speaker, FlashAsked, DownloadAsked
<1>3. \A t \in Holders : ~Busy(t)
  BY <1>1, BusyAt DEF Holders
<1>4. ~Loading /\ ~AtEnd
  BY <1>1 DEF Loading, AtEnd
<1>5. freeIn = [i \in InBufs |-> i] /\ inBox = <<>> /\ sent = 0 /\ lastRead = 0
  BY DEF Init
<1>6. Uniq(freeIn)
  BY <1>5 DEF Uniq
<1>7. Uniq(inBox) /\ \A b : ~In(inBox, b)
  BY <1>5 DEF Uniq, In
<1>8. Row(inBox, content, lastRead, sent, 0)
  BY <1>5 DEF Row
<1>9. Ends /\ Own
  BY <1>3, <1>4, <1>6, <1>7 DEF Ends, Own
<1> QED BY <1>2, <1>8, <1>9 DEF Buffers, Ordered

\* Each part on the others, and all on the type invariant.
CalmInv == Typed /\ Sessions /\ Speaker /\ Buffers

LEMMA CalmNext == ASSUME Calm, CalmInv, [Next]_vars PROVE CalmInv'
<1>1. PcTyped /\ BoxesTyped
  BY TypeParts DEF CalmInv, Typed
<1>2. Typed'
  BY TypedNext DEF CalmInv
<1>3. Sessions' /\ Speaker' /\ Buffers'
  BY <1>1, NextSessions, NextSpeaker, NextBuffers DEF CalmInv
<1> QED BY <1>2, <1>3 DEF CalmInv

LEMMA CalmAlways == Calm => (Spec => []CalmInv)
<1> SUFFICES ASSUME Calm PROVE Spec => []CalmInv
  OBVIOUS
<1>1. Init => CalmInv
  BY TypeInit, CalmInit DEF CalmInv
<1>2. CalmInv /\ [Next]_vars => CalmInv'
  BY CalmNext
<1> QED BY <1>1, <1>2, PTL DEF Spec

\* One session at a time: the chunks of a music reach the decoder in the order in which its
\* source inserted them, none lost, repeated or overwritten.
THEOREM AudioInOrder == Calm => (Spec => []InOrder)
<1> SUFFICES ASSUME Calm PROVE Spec => []InOrder
  OBVIOUS
<1>1. CalmInv => InOrder
  BY TypeParts, RowIsOrder DEF CalmInv, Typed, Buffers, Ordered
<1>2. Spec => []CalmInv
  BY CalmAlways
<1> QED BY <1>1, <1>2, PTL

\* One session at a time: whatever ends it, the I2S is stopped and its semaphore set again
\* before the playback waits for the next.
THEOREM AudioSpeakerIdle == Calm => (Spec => []SpeakerIdle)
<1> SUFFICES ASSUME Calm PROVE Spec => []SpeakerIdle
  OBVIOUS
<1>1. CalmInv => SpeakerIdle
  BY DEF CalmInv, Speaker, SpeakerIdle
<1>2. Spec => []CalmInv
  BY CalmAlways
<1> QED BY <1>1, <1>2, PTL

\* A set in which any two elements are equal.
LEMMA AtMostOne ==
  ASSUME NEW S, \A x, y \in S : x = y
  PROVE  Cardinality(S) \in {0, 1} /\ (Cardinality(S) = 0 <=> S = {})
<1>1. CASE S = {}
  BY <1>1, FS_EmptySet
<1>2. CASE S # {}
  <2>1. PICK x : x \in S
    BY <1>2
  <2>2. S = {x}
    BY <2>1
  <2>3. Cardinality(S) = 1
    BY <2>2, FS_Singleton
  <2> QED BY <1>2, <2>3
<1> QED BY <1>1, <1>2

\* One session at a time: an input buffer is in one mailbox, once, or with one thread.
THEOREM AudioBufferOwnership == Calm => (Spec => []BufferOwnership)
<1> SUFFICES ASSUME Calm PROVE Spec => []BufferOwnership
  OBVIOUS
<1>1. ASSUME CalmInv PROVE BufferOwnership
  <2> SUFFICES ASSUME NEW b \in InBufs
               PROVE  Cardinality({i \in DOMAIN freeIn : freeIn[i] = b})
                      + Cardinality({i \in DOMAIN inBox : inBox[i] = b})
                      + Cardinality({t \in DOMAIN Working : pc[t] \in Working[t] /\ held[t] = b}) <= 1
    BY DEF BufferOwnership
  <2> DEFINE inFree == {i \in DOMAIN freeIn : freeIn[i] = b}
             waits  == {i \in DOMAIN inBox : inBox[i] = b}
             hands  == {t \in DOMAIN Working : pc[t] \in Working[t] /\ held[t] = b}
  <2>1. Own /\ b # Null
    BY <1>1, BufferAssumption DEF CalmInv, Buffers, InBufs, Null
  <2>2. DOMAIN Working = Holders
    BY DEF Working, Holders
  <2>3. \A t \in hands : t \in Holders /\ Busy(t) /\ held[t] = b
    BY <2>2 DEF Busy
  <2>4. (\A i, j \in inFree : i = j) /\ (\A i, j \in waits : i = j)
    BY <2>1 DEF Own, Uniq
  <2>5. \A t, u \in hands : t = u
    BY <2>1, <2>3 DEF Own
  <2>6. (inFree # {} => In(freeIn, b)) /\ (waits # {} => In(inBox, b))
    BY DEF In
  <2>7. (inFree = {} \/ waits = {}) /\ (hands = {} \/ (inFree = {} /\ waits = {}))
    BY <2>1, <2>3, <2>6 DEF Own
  <2> HIDE DEF inFree, waits, hands
  <2>8. /\ Cardinality(inFree) \in {0, 1} /\ (Cardinality(inFree) = 0 <=> inFree = {})
        /\ Cardinality(waits) \in {0, 1} /\ (Cardinality(waits) = 0 <=> waits = {})
        /\ Cardinality(hands) \in {0, 1} /\ (Cardinality(hands) = 0 <=> hands = {})
    BY <2>4, <2>5, AtMostOne
  <2>9. Cardinality(inFree) + Cardinality(waits) + Cardinality(hands) <= 1
    BY <2>7, <2>8
  <2> QED BY <2>9 DEF inFree, waits, hands
<1>2. Spec => []CalmInv
  BY CalmAlways
<1> QED BY <1>1, <1>2, PTL

----------------------------------------------------------------------------
(* The halves of the I2S buffer.                                           *)

Pending == IF pc["D"] = "d_sem" THEN 1 ELSE 0
Halves == WriteHalf + half + audio_sem + Pending

LEMMA Parity == \A m, n \in Nat : n = m \/ n = m + 2 \/ m = n + 2 => m % 2 = n % 2
OBVIOUS

\* Two more or two less keep the phase.
LEMMA PhaseKept ==
  ASSUME Halves \in Nat, Halves' \in Nat,
         Halves' = Halves \/ Halves' = Halves + 2 \/ Halves = Halves' + 2
  PROVE  Phase' = Phase
<1>1. Halves % 2 = Halves' % 2
  BY Parity
<1>2. Phase = Halves % 2 /\ Phase' = Halves' % 2
  BY DEF Phase, Pending, Halves
<1> QED BY <1>1, <1>2

LEMMA SamePhase ==
  ASSUME UNCHANGED <<count, half, audio_sem>>, pc'["D"] = "d_sem" <=> pc["D"] = "d_sem"
  PROVE  Phase' = Phase
<1>1. WriteHalf' = WriteHalf
  BY DEF WriteHalf
<1>2. (IF pc'["D"] = "d_sem" THEN 1 ELSE 0) = (IF pc["D"] = "d_sem" THEN 1 ELSE 0)
  OBVIOUS
<1> QED BY <1>1, <1>2 DEF Phase

LEMMA NextPhase ==
  ASSUME PcTyped, BoxesTyped, CountsTyped, CountsTyped', Sessions, Speaker, [Next]_vars, i2s, i2s'
  PROVE  Phase' = Phase
<1> "D" \in Threads /\ "F" \in Threads /\ "W" \in Threads /\ "X" \in Threads
  BY DEF Threads
<1> count \in {0, 1} /\ half \in {0, 1} /\ audio_sem \in Nat /\ audio_sem' \in Nat
  BY BoundAssumption DEF CountsTyped
<1>1. CASE DFrame
  <2>1. pc["D"] = "d_decode" /\ pc'["D"] = "d_sem" /\ count' = 1 - count /\ UNCHANGED <<half, audio_sem>>
    BY <1>1, Moved DEF DFrame, i2svars
  <2>2. WriteHalf' = 1 - WriteHalf /\ WriteHalf \in {0, 1}
    BY <2>1 DEF WriteHalf
  <2>3. Pending = 0 /\ Pending' = 1
    BY <2>1 DEF Pending
  <2> QED BY <2>1, <2>2, <2>3, PhaseKept DEF Halves
<1>2. CASE DSem
  <2>1. pc["D"] = "d_sem" /\ pc'["D"] = "d_post" /\ audio_sem' = audio_sem - 1 /\ UNCHANGED <<half, count>>
    BY <1>2, Moved DEF DSem, dlocals
  <2>2. WriteHalf' = WriteHalf /\ WriteHalf \in {0, 1}
    BY <2>1 DEF WriteHalf
  <2>3. Pending = 1 /\ Pending' = 0
    BY <2>1 DEF Pending
  <2> QED BY <2>1, <2>2, <2>3, PhaseKept DEF Halves
<1>3. CASE I2SInterrupt
  <2>1. audio_sem' = audio_sem + 1 /\ half' = 1 - half /\ UNCHANGED <<pc, count>>
    BY <1>3 DEF I2SInterrupt, dlocals
  <2>2. WriteHalf' = WriteHalf /\ WriteHalf \in {0, 1} /\ Pending' = Pending /\ Pending \in {0, 1}
    BY <2>1 DEF WriteHalf, Pending
  <2> QED BY <2>1, <2>2, PhaseKept DEF Halves
<1>4. CASE DMore
  <2>1. UNCHANGED <<count, half, audio_sem>>
    BY <1>4 DEF DMore, StopI2S, i2svars, dlocals
  <2>2. pc["D"] = "d_acquire" /\ pc'["D"] = "d_fetch"
    BY <1>4, Moved DEF DMore
  <2> QED BY <2>1, <2>2, SamePhase
<1>5. CASE DTop
  BY <1>5, Moved DEF DTop, Speaker
<1>6. CASE DEnd \/ DDrained
  BY <1>6 DEF DEnd, DDrained, StopI2S
<1>7. CASE DStart
  <2>1. UNCHANGED <<count, half, audio_sem>>
    BY <1>7 DEF DStart, Speaker, dlocals
  <2>2. pc["D"] = "d_start" /\ pc'["D"] = "d_free"
    BY <1>7, Moved DEF DStart
  <2> QED BY <2>1, <2>2, SamePhase
<1>8. CASE DWait \/ DFree \/ DEnough \/ DFetch \/ DRelease \/ DEndIn \/ DNoSync
  <2>1. UNCHANGED <<count, half, audio_sem>>
    BY <1>8 DEF DWait, DFree, DEnough, DFetch, DRelease, DEndIn, DNoSync, i2svars, dlocals
  <2>2. pc["D"] # "d_sem" /\ pc'["D"] # "d_sem"
    BY <1>8, Moved DEF DWait, DFree, DEnough, DFetch, DRelease, DEndIn, DNoSync
  <2> QED BY <2>1, <2>2, SamePhase
<1>9. CASE DUnderflow \/ DBadHeader \/ DClear \/ DTimeout
  <2>1. UNCHANGED <<count, half, audio_sem>>
    BY <1>9 DEF DUnderflow, DBadHeader, DClear, DTimeout, i2svars, dlocals
  <2>2. pc["D"] # "d_sem" /\ pc'["D"] # "d_sem"
    BY <1>9, Moved DEF DUnderflow, DBadHeader, DClear, DTimeout
  <2> QED BY <2>1, <2>2, SamePhase
<1>10. CASE DEndDec \/ DDrop \/ DBad \/ DPost
  <2>1. UNCHANGED <<count, half, audio_sem>>
    BY <1>10 DEF DEndDec, DDrop, DBad, DPost, ReleasePbuf, i2svars
  <2>2. pc["D"] # "d_sem" /\ pc'["D"] # "d_sem"
    BY <1>10, Moved DEF DEndDec, DDrop, DBad, DPost, ReleasePbuf
  <2> QED BY <2>1, <2>2, SamePhase
<1>11. CASE FStep \/ WStep \/ WDevice
  <2>1. UNCHANGED <<count, half, audio_sem>>
    BY <1>11, FlashKeeps, DownloadKeeps DEF i2svars, dlocals
  <2>2. pc'["D"] = pc["D"]
    <3>1. CASE FReset \/ WStart
      BY <3>1, CalmReset
    <3>2. CASE (FStep /\ ~FReset) \/ (WStep /\ ~WStart) \/ WDevice
      BY <3>2, Moved DEF FStep, FWait, FLock, FLoop, FFree, FPost, FEnd, FNull, WStep, WLoop, WLock,
         WFree, WStopped, WInsert, WEnd, WNull, TakeFreeIn, PostNull,
         WDevice, WReadOk, WReadError, WSlept, WClosed
    <3> QED BY <1>11, <3>1, <3>2
  <2> QED BY <2>1, <2>2, SamePhase
<1>12. CASE Requested
  <2>1. UNCHANGED <<count, half, audio_sem>> /\ pc'["D"] = pc["D"]
    BY <1>12, RequestKeeps DEF i2svars, dlocals
  <2> QED BY <2>1, SamePhase
<1> QED BY <1>1, <1>2, <1>3, <1>4, <1>5, <1>6, <1>7, <1>8, <1>9, <1>10, <1>11, <1>12, NextKinds DEF DStep

\* One session at a time: while the I2S runs, the halves that are written and the halves that
\* are played keep their step, through any number of frames, dropped frames and interrupts.
THEOREM AudioHalvesInStep == Calm => (Spec => HalvesInStep)
<1> SUFFICES ASSUME Calm PROVE Spec => HalvesInStep
  OBVIOUS
<1>1. CalmInv /\ CalmInv' /\ [Next]_vars => [i2s /\ i2s' => Phase' = Phase]_vars
  <2> SUFFICES ASSUME CalmInv, CalmInv', [Next]_vars, i2s, i2s' PROVE Phase' = Phase
    BY Zenon
  <2>1. PcTyped /\ BoxesTyped /\ CountsTyped
    BY TypeParts DEF CalmInv, Typed
  <2>2. CountsTyped'
    BY DEF CalmInv, Typed, TypeOK, CountsTyped
  <2> QED BY <2>1, <2>2, NextPhase DEF CalmInv
<1>2. Spec => []CalmInv
  BY CalmAlways
<1> QED BY <1>1, <1>2, PTL DEF Spec, HalvesInStep

----------------------------------------------------------------------------
(* One session at a time, the audio subsystem implements MusicService.     *)

\* The playback has something to decode, or a frame to play, only if it has read a chunk of this
\* music: what is left of the one before is cleared before the wait for the next.
Fed ==
  /\ pc["D"] = "d_wait" => wr = 0
  /\ pc["D"] # "d_top" /\ wr > 0 => lastRead > 0
  /\ pc["D"] \in {"d_sem", "d_post", "d_start"} => lastRead > 0

\* A read takes the chunk that follows the last one, and there is one.
LEMMA FetchReads ==
  ASSUME BoxesTyped, Ordered, DFetch
  PROVE  \/ Head(inBox) = Null /\ UNCHANGED <<lastRead, wr>>
         \/ lastRead < sent /\ lastRead' = lastRead + 1
<1>1. PICK w : Row(inBox, content, lastRead, sent, w)
  BY DEF Ordered
<1>2. inBox # <<>> /\ (IF Head(inBox) = Null THEN UNCHANGED <<wr, lastRead>> ELSE lastRead' = content[Head(inBox)])
  BY DEF DFetch, Step, CanRun, Blocked
<1>3. Len(inBox) \in Nat \ {0} /\ Head(inBox) = inBox[1] /\ lastRead \in Nat
  BY <1>2 DEF BoxesTyped
<1>4. w \in Nat /\ lastRead + w = sent
  BY <1>1 DEF Row
<1>5. CASE Head(inBox) # Null
  <2>1. 1 \in 1..w
    BY <1>1, <1>3, <1>4, <1>5 DEF Row
  <2>2. lastRead' = lastRead + 1
    BY <1>1, <1>2, <1>3, <1>5, <2>1 DEF Row
  <2> QED BY <1>3, <1>4, <2>1, <2>2
<1> QED BY <1>2, <1>5

\* A chunk that is inserted had room: no more of them wait than there are buffers.
LEMMA RoomToInsert ==
  ASSUME BoxesTyped, BoxesTyped', Ordered', NEW t \in Threads, Insert(t)
  PROVE  sent - lastRead < NIn
<1>1. PICK w : Row(inBox', content', lastRead', sent', w)
  BY DEF Ordered
<1>2. Len(inBox') \in Nat /\ Len(inBox') <= NIn /\ sent \in Nat /\ lastRead \in Nat
  BY DEF BoxesTyped
<1>3. w \in Nat /\ w <= NIn /\ lastRead' + w = sent'
  BY <1>1, <1>2, BufferAssumption DEF Row
<1>4. sent' = sent + 1 /\ lastRead' = lastRead
  BY DEF Insert
<1> QED BY <1>2, <1>3, <1>4, BufferAssumption

LEMMA FedInit == Init => Fed
BY DEF Init, Fed

LEMMA NextFed ==
  ASSUME PcTyped, BoxesTyped, BufferTyped, Sessions, Ordered, Fed, [Next]_vars
  PROVE  Fed'
<1> "D" \in Threads /\ "F" \in Threads /\ "W" \in Threads /\ "X" \in Threads
  BY DEF Threads
<1> lastRead \in Nat /\ sent \in Nat /\ rd \in Nat /\ wr \in Nat /\ rd <= wr
  BY SizeAssumption DEF BoxesTyped, BufferTyped
<1>1. CASE DTop \/ DNoSync \/ DDrained
  <2>1. wr' = 0 /\ pc'["D"] \in {"d_wait", "d_free"}
    BY <1>1, Moved DEF DTop, DNoSync, DDrained
  <2> QED BY <2>1 DEF Fed
<1>2. CASE DWait \/ DFree \/ DEnough \/ DMore \/ DRelease \/ DEndIn \/ DBadHeader \/ DStart
  <2>1. UNCHANGED <<wr, lastRead>>
    BY <1>2 DEF DWait, DFree, DEnough, DMore, DRelease, DEndIn, DBadHeader, DStart, dlocals, history
  <2>2. pc["D"] # "d_top" /\ pc'["D"] \notin {"d_wait", "d_sem", "d_post", "d_start"}
    BY <1>2, Moved DEF DWait, DFree, DEnough, DMore, DRelease, DEndIn, DBadHeader, DStart
  <2> QED BY <2>1, <2>2 DEF Fed
<1>3. CASE DEndDec \/ DDrop \/ DBad
  <2>1. UNCHANGED <<wr, lastRead>>
    BY <1>3 DEF DEndDec, DDrop, DBad, ReleasePbuf, history
  <2>2. pc["D"] # "d_top" /\ pc'["D"] \notin {"d_wait", "d_sem", "d_post", "d_start"}
    BY <1>3, Moved DEF DEndDec, DDrop, DBad, ReleasePbuf
  <2> QED BY <2>1, <2>2 DEF Fed
<1>4. CASE DSem \/ DPost
  <2>1. UNCHANGED <<wr, lastRead>>
    BY <1>4 DEF DSem, DPost, ReleasePbuf, dlocals, history
  <2>2. pc["D"] \in {"d_sem", "d_post"} /\ pc'["D"] \in {"d_post", "d_start"}
    BY <1>4, Moved DEF DSem, DPost, ReleasePbuf
  <2> QED BY <2>1, <2>2 DEF Fed
<1>5. CASE DEnd \/ DTimeout
  <2>1. UNCHANGED <<wr, lastRead>> /\ pc'["D"] = "d_top"
    BY <1>5, Moved DEF DEnd, DTimeout, dlocals, history
  <2> QED BY <2>1 DEF Fed
<1>6. CASE DFetch
  <2>1. pc["D"] = "d_fetch" /\ pc'["D"] \in {"d_eom_dec", "d_release"}
    BY <1>6, Moved DEF DFetch
  <2>2. UNCHANGED <<lastRead, wr>> \/ lastRead' > 0
    BY <1>6, FetchReads
  <2> QED BY <2>1, <2>2 DEF Fed
<1>7. CASE DFrame
  <2>1. pc["D"] = "d_decode" /\ pc'["D"] = "d_sem" /\ lastRead' = lastRead /\ wr - rd >= Frame
    BY <1>7, Moved DEF DFrame, history
  <2>2. wr > 0
    BY <2>1, SizeAssumption
  <2> QED BY <2>1, <2>2 DEF Fed
<1>8. CASE DUnderflow
  <2>1. pc["D"] = "d_decode" /\ pc'["D"] = "d_drop" /\ lastRead' = lastRead
        /\ (wr > rd \/ wr - rd >= Frame)
    BY <1>8, Moved DEF DUnderflow, history
  <2>2. wr > 0
    BY <2>1, SizeAssumption
  <2> QED BY <2>1, <2>2 DEF Fed
<1>9. CASE DClear
  <2>1. pc["D"] = "d_bad2" /\ pc'["D"] \in {"d_drain", "d_free"} /\ lastRead' = lastRead
        /\ wr' \in {0, wr}
    BY <1>9, Moved DEF DClear, history
  <2> QED BY <2>1 DEF Fed
<1>10. CASE I2SInterrupt
  BY <1>10 DEF I2SInterrupt, Fed, dlocals, history
<1>11. CASE FReset \/ WStart
  <2>1. pc["D"] \in {"d_top", "d_wait"} /\ pc'["D"] = pc["D"]
    BY <1>11, CalmReset
  <2>2. wr' = wr
    BY <1>11 DEF FReset, WStart, dlocals
  <2> QED BY <2>1, <2>2 DEF Fed
<1>12. CASE (FStep /\ ~FReset) \/ (WStep /\ ~WStart) \/ WDevice
  <2>1. UNCHANGED <<wr, lastRead>>
    BY <1>12 DEF FStep, FWait, FLock, FLoop, FFree, FPost, FEnd, FNull, WStep, WLoop, WLock,
       WFree, WStopped, WInsert, WEnd, WNull, TakeFreeIn, PostNull, Insert,
       WDevice, WReadOk, WReadError, WSlept, WClosed, dlocals, history
  <2>2. pc'["D"] = pc["D"]
    BY <1>12, Moved DEF FStep, FWait, FLock, FLoop, FFree, FPost, FEnd, FNull, WStep, WLoop, WLock,
       WFree, WStopped, WInsert, WEnd, WNull, TakeFreeIn, PostNull,
       WDevice, WReadOk, WReadError, WSlept, WClosed
  <2> QED BY <2>1, <2>2 DEF Fed
<1>13. CASE Requested
  BY <1>13, RequestKeeps DEF Fed, dlocals
<1> QED BY <1>1, <1>2, <1>3, <1>4, <1>5, <1>6, <1>7, <1>8, <1>9, <1>10, <1>11, <1>12, <1>13,
           NextKinds DEF DStep, FStep, WStep

LEMMA FedAlways == Calm => (Spec => []Fed)
<1> SUFFICES ASSUME Calm PROVE Spec => []Fed
  OBVIOUS
<1>1. CalmInv /\ Fed /\ [Next]_vars => Fed'
  BY TypeParts, NextFed DEF CalmInv, Typed, Buffers
<1>2. Spec => []CalmInv
  BY CalmAlways
<1> QED BY <1>1, <1>2, FedInit, PTL DEF Spec

\* What the source is, as its thread goes.
LEMMA SourceKept ==
  ASSUME pc'["F"] = pc["F"], pc'["W"] = pc["W"]
  PROVE  Source' = Source
BY DEF Source

LEMMA SourceFlash ==
  /\ pc["F"] \in {"f_loop", "f_free", "f_post", "f_end", "f_null"} => Source = "flash"
  /\ pc'["F"] \in {"f_loop", "f_free", "f_post", "f_end", "f_null"} => Source' = "flash"
BY DEF Source

LEMMA SourceNone ==
  /\ pc["F"] \in {"f_wait", "f_lock", "f_reset"} /\ pc["W"] \in {"w_wait", "w_close"} => Source = "none"
  /\ pc'["F"] \in {"f_wait", "f_lock", "f_reset"} /\ pc'["W"] \in {"w_wait", "w_close"} => Source' = "none"
BY DEF Source

LEMMA SourceNetwork ==
  /\ pc["F"] = "f_wait" /\ pc["W"] \notin {"w_wait", "w_close"} => Source = "network"
  /\ pc'["F"] = "f_wait" /\ pc'["W"] \notin {"w_wait", "w_close"} => Source' = "network"
BY DEF Source

\* Each step of the subsystem is one of the service, or none.
Serves == Music!Next \/ UNCHANGED Music!vars

LEMMA PlaybackServes ==
  ASSUME CalmInv, Fed, DStep \/ DTimeout \/ DDrained \/ I2SInterrupt
  PROVE  Serves
<1> USE DEF Serves, Music!vars
<1> "D" \in Threads
  BY DEF Threads
<1>0. PcTyped /\ BoxesTyped /\ FlagsTyped /\ Speaker /\ Ordered
  BY TypeParts DEF CalmInv, Typed, Buffers
<1>1. sent' = sent /\ Source' = Source
  BY <1>0, PlaybackKeeps, SourceKept
<1>2. CASE DFetch
  <2>1. i2s' = i2s
    BY <1>2 DEF DFetch, i2svars
  <2>2. lastRead' = lastRead \/ (lastRead < sent /\ lastRead' = lastRead + 1)
    BY <1>0, <1>2, FetchReads
  <2> QED BY <1>1, <2>1, <2>2 DEF Music!Next, Music!Read
<1>3. CASE DStart
  <2>1. lastRead' = lastRead /\ lastRead > 0
    BY <1>0, <1>3, Moved DEF DStart, history, Fed
  <2>2. i2s' = i2s \/ (~i2s /\ i2s' = TRUE)
    BY <1>0, <1>3, Zenon DEF DStart, Speaker
  <2> QED BY <1>1, <2>1, <2>2, Zenon DEF Music!Next, Music!Sound
<1>4. CASE DMore \/ DEnd \/ DDrained
  <2>1. lastRead' = lastRead
    BY <1>4 DEF DMore, DEnd, DDrained, history
  <2>2. i2s' = i2s \/ (i2s /\ i2s' = FALSE)
    <3>1. i2s' = i2s \/ i2s' = FALSE
      BY <1>4, Zenon DEF DMore, DEnd, DDrained, StopI2S, i2svars
    <3>2. i2s = TRUE \/ i2s = FALSE
      BY <1>0 DEF FlagsTyped
    <3> QED BY <3>1, <3>2, Zenon
  <2> QED BY <1>1, <2>1, <2>2, Zenon DEF Music!Next, Music!Silence
<1>5. CASE (DStep /\ ~DFetch /\ ~DStart /\ ~DMore /\ ~DEnd) \/ DTimeout \/ I2SInterrupt
  <2>1. UNCHANGED <<lastRead, i2s>>
    BY <1>5 DEF DStep, DTop, DWait, DFree, DEnough, DRelease, DEndDec, DEndIn, DNoSync, DFrame,
       DUnderflow, DDrop, DBadHeader, DBad, DClear, DSem, DPost, ReleasePbuf, DTimeout, I2SInterrupt,
       i2svars, history
  <2> QED BY <1>1, <2>1
<1> QED BY <1>2, <1>3, <1>4, <1>5

LEMMA FlashServes ==
  ASSUME CalmInv, CalmInv', FStep
  PROVE  Serves
<1> USE DEF Serves, Music!vars
<1> "F" \in Threads
  BY DEF Threads
<1>0. PcTyped /\ BoxesTyped /\ Sessions /\ Speaker
  BY TypeParts DEF CalmInv, Typed
<1>1. i2s' = i2s /\ pc'["W"] = pc["W"]
  BY <1>0, FlashKeeps DEF i2svars
<1>2. pc["F"] # "f_wait" => pc["W"] = "w_wait"
  BY <1>0 DEF Sessions
<1>3. CASE FReset
  <2>1. sent' = 0 /\ lastRead' = 0
    BY <1>3 DEF FReset, Reset
  <2>2. Source = "none" /\ Source' \in {"none", "flash"}
    BY <1>0, <1>3, CalmReset, SourceNone, SourceFlash
  <2>3. ~i2s
    BY <1>0, <1>3, CalmReset DEF Speaker
  <2> QED BY <1>1, <2>1, <2>2, <2>3, Zenon DEF Music!Next, Music!Begin
<1>4. CASE FPost
  <2>1. Source = "flash" /\ Source' = "flash"
    BY <1>0, <1>4, Moved, SourceFlash DEF FPost
  <2>2. sent' = sent + 1 /\ lastRead' = lastRead
    BY <1>4 DEF FPost, Insert
  <2>3. sent - lastRead < NIn
    <3>1. BoxesTyped' /\ Ordered'
      BY DEF CalmInv, Typed, TypeOK, BoxesTyped, Buffers
    <3> QED BY <1>0, <1>4, <3>1, RoomToInsert DEF FPost
  <2> QED BY <1>1, <2>1, <2>2, <2>3 DEF Music!Next, Music!Insert
<1>5. CASE FNull
  <2>1. Source = "flash" /\ Source' = "none"
    BY <1>0, <1>1, <1>2, <1>5, Moved, SourceFlash, SourceNone DEF FNull, PostNull
  <2>2. UNCHANGED <<sent, lastRead>>
    BY <1>5 DEF FNull, PostNull, history
  <2> QED BY <1>1, <2>1, <2>2 DEF Music!Next, Music!End
<1>6. CASE FLoop \/ FFree \/ FEnd
  <2>1. Source = "flash" /\ Source' = "flash"
    BY <1>0, <1>6, Moved, SourceFlash DEF FLoop, FFree, FEnd, TakeFreeIn
  <2>2. UNCHANGED <<sent, lastRead>>
    BY <1>6 DEF FLoop, FFree, FEnd, TakeFreeIn, history
  <2> QED BY <1>1, <2>1, <2>2
<1>7. CASE FWait \/ FLock
  <2>1. pc["F"] \in {"f_wait", "f_lock"} /\ pc'["F"] \in {"f_lock", "f_reset"}
    BY <1>0, <1>7, Moved DEF FWait, FLock
  <2>2. Source' = Source
    BY <1>1, <2>1 DEF Source
  <2>3. UNCHANGED <<sent, lastRead>>
    BY <1>7 DEF FWait, FLock, history
  <2> QED BY <1>1, <2>2, <2>3
<1> QED BY <1>3, <1>4, <1>5, <1>6, <1>7 DEF FStep

LEMMA DownloadServes ==
  ASSUME CalmInv, CalmInv', WStep \/ WDevice
  PROVE  Serves
<1> USE DEF Serves, Music!vars
<1> "W" \in Threads /\ "F" \in Threads
  BY DEF Threads
<1>0. PcTyped /\ BoxesTyped /\ Sessions /\ Speaker
  BY TypeParts DEF CalmInv, Typed
<1>1. i2s' = i2s
  BY <1>0, DownloadKeeps DEF i2svars
<1>2. CASE WStart
  <2>1. sent' = 0 /\ lastRead' = 0
    BY <1>2 DEF WStart, Reset
  <2>2. Source = "none" /\ Source' = "network"
    BY <1>0, <1>2, CalmReset, SourceNone, SourceNetwork
  <2>3. ~i2s
    BY <1>0, <1>2, CalmReset DEF Speaker
  <2> QED BY <1>1, <2>1, <2>2, <2>3, Zenon DEF Music!Next, Music!Begin
<1>3. CASE (WStep /\ ~WStart) \/ WDevice
  <2>1. pc["W"] # "w_wait"
    BY <1>3 DEF WStep, WLoop, WLock, WFree, WStopped, WInsert, WEnd, WNull, TakeFreeIn, PostNull,
       WDevice, WReadOk, WReadError, WSlept, WClosed, Step, Wake
  <2>2. pc["F"] = "f_wait" /\ pc'["F"] = "f_wait"
    <3>1. pc["F"] = "f_wait"
      BY <1>0, <2>1 DEF Sessions
    <3>2. pc'["F"] = pc["F"]
      BY <1>0, <1>3, Moved DEF WStep, WLoop, WLock, WFree, WStopped, WInsert, WEnd, WNull, TakeFreeIn,
         PostNull, WDevice, WReadOk, WReadError, WSlept, WClosed
    <3> QED BY <3>1, <3>2
  <2>3. CASE WInsert
    <3>1. Source = "network" /\ Source' = "network"
      BY <1>0, <2>2, <2>3, Moved, SourceNetwork DEF WInsert
    <3>2. sent' = sent + 1 /\ lastRead' = lastRead
      BY <2>3 DEF WInsert, Insert
    <3>3. sent - lastRead < NIn
      <4>1. BoxesTyped' /\ Ordered'
        BY DEF CalmInv, Typed, TypeOK, BoxesTyped, Buffers
      <4> QED BY <1>0, <2>3, <4>1, RoomToInsert DEF WInsert
    <3> QED BY <1>1, <3>1, <3>2, <3>3 DEF Music!Next, Music!Insert
  <2>4. CASE ~WInsert
    <3>1. UNCHANGED <<sent, lastRead>>
      BY <1>3, <2>4 DEF WStep, WLoop, WLock, WFree, WStopped, WEnd, WNull, TakeFreeIn, PostNull,
         WDevice, WReadOk, WReadError, WSlept, WClosed, history
    <3>2. pc["W"] = "w_close" => pc'["W"] = "w_wait"
      BY <1>0, <1>3, <2>4, Moved DEF WStep, WLoop, WLock, WFree, WStopped, WEnd, WNull, TakeFreeIn,
         PostNull, WDevice, WReadOk, WReadError, WSlept, WClosed
    <3>3. CASE pc["W"] = "w_close"
      BY <1>1, <2>2, <3>1, <3>2, <3>3, SourceNone
    <3>4. CASE pc["W"] # "w_close" /\ pc'["W"] \in {"w_wait", "w_close"}
      <4>1. Source = "network" /\ Source' = "none"
        BY <2>1, <2>2, <3>4, SourceNone, SourceNetwork
      <4> QED BY <1>1, <3>1, <4>1 DEF Music!Next, Music!End
    <3>5. CASE pc["W"] # "w_close" /\ pc'["W"] \notin {"w_wait", "w_close"}
      BY <1>1, <2>1, <2>2, <3>1, <3>5, SourceNetwork
    <3> QED BY <3>3, <3>4, <3>5
  <2> QED BY <2>3, <2>4
<1> QED BY <1>2, <1>3

LEMMA RequestServes == ASSUME CalmInv, Requested PROVE Serves
<1>1. PcTyped
  BY TypeParts DEF CalmInv, Typed
<1>2. UNCHANGED <<sent, lastRead, i2s>> /\ pc'["F"] = pc["F"] /\ pc'["W"] = pc["W"]
  BY <1>1, RequestKeeps DEF i2svars
<1> QED BY <1>2, SourceKept DEF Serves, Music!vars

\* One session at a time: the three threads, their mailboxes, semaphores and commands implement
\* MusicService: chunks in order, at most NIn of them waiting, each music from silence to
\* silence, and no sound before something of it has been read.
THEOREM AudioImplementsMusic == Calm => (Spec => ImplementsMusic)
<1> SUFFICES ASSUME Calm PROVE Spec => ImplementsMusic
  OBVIOUS
<1>1. Init => Music!Init
  BY DEF Init, Music!Init, Source
<1>2. CalmInv /\ CalmInv' /\ Fed /\ [Next]_vars => [Music!Next]_(Music!vars)
  <2> SUFFICES ASSUME CalmInv, CalmInv', Fed, [Next]_vars PROVE Serves
    BY DEF Serves
  <2> QED BY NextKinds, PlaybackServes, FlashServes, DownloadServes, RequestServes
<1>3. Spec => []CalmInv /\ []Fed
  BY CalmAlways, FedAlways
<1> QED BY <1>1, <1>2, <1>3, PTL DEF Spec, ImplementsMusic, Music!Spec

=============================================================================
