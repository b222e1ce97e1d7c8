------------------------------ MODULE RelayProofs ------------------------------
(***************************************************************************)
(* Theorems about Relay, for any number of connections of the plant, of    *)
(* clients and of views.                                                   *)
(***************************************************************************)
EXTENDS Relay, FiniteSetTheorems, SequenceTheorems, TLAPS

\* The types of ws and conn.
WS == [owner : Tasks \cup {None}, queue : Seq(Tasks), waiting : Seq(Conns),
       notified : SUBSET Conns, new : BOOLEAN, pending : 0..MaxPending]
WSs == {w \in [Objects -> WS] : \A o \in Objects : w[o].new <=> w[o].pending > 0}

LockWaits ==
  {"hello", "closed", "answer", "other", "timeout", "nothing", "forward", "again",
   "closing", "goodbye"}

Ats == Over \cup Waiting \cup Sending \cup LockWaits \cup {"off"}
Producings == {"none", "begin", "enter", "condition", "reenter", "ended", "done"}
Connections == [Conns -> [at : Ats, producer : Producings, text : 0..MaxPending]]

Typed == entry \in [Registers -> Objects \cup {0}] /\ ws \in WSs /\ conn \in Connections

\* Where a coroutine holds the lock of its own object.
HoldsOwn == {"reply", "noclient", "lost", "send", "forward"}

\* One coroutine is served per register, and has its object there.
Registered ==
  /\ entry["plants"] \in PlantConns \cup {0} /\ entry["clients"] \in ClientConns \cup {0}
  /\ \A t, u \in Conns : Own(t) = Own(u) /\ Live(t) /\ Live(u) => t = u
  /\ \A t \in Conns : Live(t) /\ conn[t].at # "refused" => entry[Own(t)] # 0
  /\ entry["plants"] # 0 => \E t \in PlantConns : Live(t)

\* Where a coroutine and its producer task can be at the same time.
Fits(t, at, pc) ==
  /\ t \in PlantConns => at \notin {"hello", "greet", "refused", "lost", "goodbye"}
  /\ t \in PlantConns /\ at \notin Over \cup {"off"} => pc # "none"
  /\ at \in {"off", "refused", "hello", "greet"} => pc = "none"
  /\ at \in {"again", "send", "nothing"} => pc = "done"
  /\ at = "goodbye" => pc \in {"none", "done"}
  /\ pc = "begin" => at = "wait"

Labels == \A t \in Conns : Fits(t, conn[t].at, conn[t].producer)

\* What follows is about a value w of ws in the middle of a step in which the coroutines of X
\* run.  The lock of object o is left locked by a coroutine that is over; the coroutine of
\* connection t is served with object o.
Shut(w, o) == \E t \in Conns : w[o].owner = Main(t) /\ conn[t].at \in Over
Served(t, o) == Live(t) /\ entry[Own(t)] = o

InQueue(w, o, k) == \E i \in DOMAIN w[o].queue : w[o].queue[i] = k
Once(w, o) == \A i, j \in DOMAIN w[o].queue : w[o].queue[i] = w[o].queue[j] => i = j

\* A task waits for one lock at a time, once, where its coroutine says so: a producer task
\* and the plant that forwards a message for the lock of an object that is registered.
Queues(w, X) ==
  /\ \A o \in Objects : Once(w, o)
  /\ \A o, q \in Objects, k \in Tasks : InQueue(w, o, k) /\ InQueue(w, q, k) => o = q
  /\ \A o \in Objects, t \in Conns :
       InQueue(w, o, Main(t)) => t \notin X /\ conn[t].at \in LockWaits
  /\ \A o \in Objects, t \in Conns :
       InQueue(w, o, Producer(t)) =>
         conn[t].producer \in {"enter", "reenter"} /\ (Served(t, o) \/ Shut(w, o))
  /\ \A o \in Objects, t \in PlantConns :
       conn[t].at = "forward" /\ InQueue(w, o, Main(t)) => entry["clients"] = o \/ Shut(w, o)

Owners(w, X) ==
  \A t \in Conns \ X : conn[t].at \in HoldsOwn => w[entry[Own(t)]].owner = Main(t)
Texts(w, X) ==
  \A t \in Conns \ X : conn[t].at = "send" => w[entry[Own(t)]].pending = conn[t].text

Member(w, o, t) == t \in w[o].notified \/ \E i \in DOMAIN w[o].waiting : w[o].waiting[i] = t
Alone(w, o) ==
  \/ w[o].waiting = <<>> /\ \E t \in Conns : w[o].notified \subseteq {t}
  \/ w[o].notified = {} /\ \E t \in Conns : w[o].waiting = <<t>>

\* One producer task at most waits for a condition or is notified, of the coroutine that is
\* served; it does so for one object.
Waiters(w) ==
  /\ \A o \in Objects : Alone(w, o)
  /\ \A o \in Objects, t \in Conns :
       Member(w, o, t) => conn[t].producer = "condition" /\ (Served(t, o) \/ Shut(w, o))
  /\ \A o, q \in Objects, t \in Conns : Member(w, o, t) /\ Member(w, q, t) => o = q

Good(w, X) == Queues(w, X) /\ Owners(w, X) /\ Texts(w, X) /\ Waiters(w)

\* The inductive invariant, as long as no task has strayed.
Sound == Registered /\ Labels /\ Good(ws, {})
IInv == TypeOK /\ (~strayed => Sound)

----------------------------------------------------------------------------
(* The names of the tasks and of the registers.                            *)

LEMMA TaskNames ==
  /\ \A t \in Conns : Main(t) \in Tasks /\ Producer(t) \in Tasks
  /\ \A v \in Views : View(v) \in Tasks
  /\ \A t, u : Main(t) = Main(u) => t = u
  /\ \A t, u : Producer(t) = Producer(u) => t = u
  /\ \A t, u : Main(t) # Producer(u) /\ Main(t) # View(u) /\ Producer(t) # View(u)
  /\ None \notin Tasks
<1>1. /\ \A t \in Conns : Main(t) \in Tasks /\ Producer(t) \in Tasks
      /\ \A v \in Views : View(v) \in Tasks
  BY DEF Tasks
<1>2. /\ \A t, u : Main(t) = Main(u) => t = u
      /\ \A t, u : Producer(t) = Producer(u) => t = u
  BY DEF Main, Producer
<1>3. \A t, u : Main(t) # Producer(u) /\ Main(t) # View(u) /\ Producer(t) # View(u)
  BY DEF Main, Producer, View
<1>4. None \notin Tasks
  BY ConnAssumption
<1> QED BY <1>1, <1>2, <1>3, <1>4

LEMMA Sides ==
  /\ 0 \notin Objects /\ Objects = Conns
  /\ \A t \in Conns :
       /\ Own(t) \in Registers /\ Other(t) \in Registers
       /\ t \in PlantConns <=> t \notin ClientConns
       /\ t \in PlantConns => Own(t) = "plants" /\ Other(t) = "clients"
       /\ t \notin PlantConns => Own(t) = "clients" /\ Other(t) = "plants"
<1>1. Conns \subseteq Nat \ {0} /\ PlantConns \cap ClientConns = {}
  BY ConnAssumption
<1> QED BY <1>1 DEF Objects, Conns, Own, Other, Registers

----------------------------------------------------------------------------
(* Values of ws: the operators keep the type, and change what they say.    *)

LEMMA Replaced ==
  ASSUME NEW w \in WSs, NEW o \in Objects, NEW v \in [Objects -> WS],
         v[o].new <=> v[o].pending > 0, \A q \in Objects : q # o => v[q] = w[q]
  PROVE  v \in WSs
<1>1. ASSUME NEW q \in Objects PROVE v[q].new <=> v[q].pending > 0
  BY DEF WSs
<1> QED BY <1>1 DEF WSs

LEMMA TakenFields ==
  ASSUME NEW w \in WSs, NEW o \in Objects, NEW k \in Tasks \cup {None}
  PROVE  LET v == Taken(w, o, k) IN
         /\ v \in WSs
         /\ \A q \in Objects : q # o => v[q] = w[q]
         /\ v[o].owner = k /\ v[o].queue = w[o].queue /\ v[o].waiting = w[o].waiting
         /\ v[o].notified = w[o].notified /\ v[o].pending = w[o].pending
<1> DEFINE v == Taken(w, o, k)
<1> DEFINE r == [w[o] EXCEPT !.owner = k]
<1>1. w[o] \in WS /\ (w[o].new <=> w[o].pending > 0)
  BY DEF WSs
<1>2. /\ r \in WS /\ r.owner = k /\ r.queue = w[o].queue /\ r.waiting = w[o].waiting
      /\ r.notified = w[o].notified /\ r.pending = w[o].pending /\ r.new = w[o].new
  BY <1>1 DEF WS
<1>3. v = [w EXCEPT ![o] = r]
  BY DEF Taken
<1> HIDE DEF r, v
<1>6. v \in [Objects -> WS] /\ v[o] = r /\ \A q \in Objects : q # o => v[q] = w[q]
  BY <1>2, <1>3 DEF WSs
<1> QED BY <1>1, <1>2, <1>6, Replaced DEF v

LEMMA ReleasedFields ==
  ASSUME NEW w \in WSs, NEW o \in Objects
  PROVE  LET v == Released(w, o) IN
         /\ v \in WSs
         /\ \A q \in Objects : q # o => v[q] = w[q]
         /\ v[o].owner = None /\ v[o].queue = w[o].queue /\ v[o].waiting = w[o].waiting
         /\ v[o].notified = w[o].notified /\ v[o].pending = w[o].pending
<1>1. None \in Tasks \cup {None}
  OBVIOUS
<1>2. Released(w, o) = Taken(w, o, None)
  BY DEF Released, Taken
<1> QED BY <1>1, <1>2, TakenFields

LEMMA WrittenFields ==
  ASSUME NEW w \in WSs, NEW o \in Objects, NEW v, v = Written(w, o)
  PROVE  /\ v \in WSs
         /\ \A q \in Objects : q # o => v[q] = w[q]
         /\ v[o].owner = w[o].owner /\ v[o].queue = w[o].queue
         /\ v[o].waiting = w[o].waiting /\ v[o].notified = w[o].notified
<1> DEFINE p == IF w[o].pending < MaxPending THEN w[o].pending + 1 ELSE w[o].pending
<1>1. w[o] \in WS /\ w[o].pending \in 0..MaxPending
  BY DEF WSs, WS
<1>2. p \in 0..MaxPending /\ p > 0
  BY <1>1, PendingAssumption
<1>3. v = [w EXCEPT ![o].new = TRUE, ![o].pending = p]
  BY DEF Written
<1> HIDE DEF p
<1> DEFINE r == [w[o] EXCEPT !.new = TRUE, !.pending = p]
<1>4. /\ r \in WS /\ r.owner = w[o].owner /\ r.queue = w[o].queue /\ r.waiting = w[o].waiting
      /\ r.notified = w[o].notified /\ r.pending = p /\ r.new = TRUE
  BY <1>1, <1>2 DEF WS
<1>5. v = [w EXCEPT ![o] = r]
  BY <1>3 DEF WSs
<1> HIDE DEF r
<1>6. v \in [Objects -> WS] /\ v[o] = r /\ \A q \in Objects : q # o => v[q] = w[q]
  BY <1>4, <1>5 DEF WSs
<1> QED BY <1>2, <1>4, <1>6, Replaced

LEMMA EmptiedFields ==
  ASSUME NEW w \in WSs, NEW o \in Objects, NEW v, v = Emptied(w, o)
  PROVE  /\ v \in WSs
         /\ \A q \in Objects : q # o => v[q] = w[q]
         /\ v[o].owner = w[o].owner /\ v[o].queue = w[o].queue
         /\ v[o].waiting = w[o].waiting /\ v[o].notified = w[o].notified
<1> DEFINE r == [w[o] EXCEPT !.new = FALSE, !.pending = 0]
<1>1. w[o] \in WS /\ 0 \in 0..MaxPending /\ ~(0 > 0)
  BY PendingAssumption DEF WSs
<1>2. /\ r \in WS /\ r.owner = w[o].owner /\ r.queue = w[o].queue /\ r.waiting = w[o].waiting
      /\ r.notified = w[o].notified /\ r.pending = 0 /\ r.new = FALSE
  BY <1>1 DEF WS
<1>3. v = [w EXCEPT ![o] = r]
  BY DEF WSs, Emptied
<1> HIDE DEF r
<1>6. v \in [Objects -> WS] /\ v[o] = r /\ \A q \in Objects : q # o => v[q] = w[q]
  BY <1>2, <1>3 DEF WSs
<1> QED BY <1>1, <1>2, <1>6, Replaced

\* The queue of a lock: its end and its head.
LEMMA QueueAppend ==
  ASSUME NEW S, NEW s \in Seq(S), NEW e \in S
  PROVE  /\ Append(s, e) \in Seq(S)
         /\ \A x : (\E i \in DOMAIN Append(s, e) : Append(s, e)[i] = x) <=>
                   x = e \/ \E i \in DOMAIN s : s[i] = x
         /\ (\A i, j \in DOMAIN s : s[i] = s[j] => i = j) /\ (\A i \in DOMAIN s : s[i] # e)
              => \A i, j \in DOMAIN Append(s, e) : Append(s, e)[i] = Append(s, e)[j] => i = j
<1> DEFINE n == Len(s)
           r == Append(s, e)
<1>1. n \in Nat /\ DOMAIN s = 1..n
  BY LenProperties
<1>2. r \in Seq(S) /\ Len(r) = n + 1 /\ r[n + 1] = e /\ \A i \in 1..n : r[i] = s[i]
  BY AppendProperties
<1>3. DOMAIN r = 1..(n + 1)
  BY <1>2, LenProperties
<1> HIDE DEF n, r
<1>4. \A i \in 1..(n + 1) : i \in 1..n \/ i = n + 1
  BY <1>1
<1>5. 1..n \subseteq 1..(n + 1) /\ n + 1 \in 1..(n + 1)
  BY <1>1
<1>6. \A x : (\E i \in DOMAIN r : r[i] = x) <=> x = e \/ \E i \in DOMAIN s : s[i] = x
  BY <1>1, <1>2, <1>3, <1>4, <1>5
<1>7. ASSUME \A i, j \in DOMAIN s : s[i] = s[j] => i = j, \A i \in DOMAIN s : s[i] # e
      PROVE  \A i, j \in DOMAIN r : r[i] = r[j] => i = j
  BY <1>1, <1>2, <1>3, <1>4, <1>7
<1> QED BY <1>2, <1>6, <1>7 DEF r

LEMMA QueueTail ==
  ASSUME NEW S, NEW s \in Seq(S), s # <<>>, NEW r, r = Tail(s)
  PROVE  /\ r \in Seq(S) /\ Head(s) \in S /\ \E i \in DOMAIN s : s[i] = Head(s)
         /\ \A x : (\E i \in DOMAIN r : r[i] = x) => \E i \in DOMAIN s : s[i] = x
         /\ (\A i, j \in DOMAIN s : s[i] = s[j] => i = j)
              => /\ \A i, j \in DOMAIN r : r[i] = r[j] => i = j
                 /\ \A i \in DOMAIN r : r[i] # Head(s)
<1> DEFINE n == Len(s)
<1>1. n \in Nat \ {0} /\ DOMAIN s = 1..n
  BY LenProperties, EmptySeq
<1>2. /\ r \in Seq(S) /\ Len(r) = n - 1 /\ Head(s) = s[1] /\ Head(s) \in S
      /\ \A i \in 1..Len(r) : r[i] = s[i + 1]
  BY HeadTailProperties
<1>3. DOMAIN r = 1..(n - 1) /\ \A i \in 1..(n - 1) : r[i] = s[i + 1]
  BY <1>2, LenProperties
<1> HIDE DEF n
<1>4. \A i \in 1..(n - 1) : i + 1 \in 1..n /\ i + 1 # 1
  BY <1>1
<1>5. 1 \in 1..n
  BY <1>1
<1>6. \A x : (\E i \in DOMAIN r : r[i] = x) => \E i \in DOMAIN s : s[i] = x
  BY <1>1, <1>3, <1>4
<1>7. ASSUME \A i, j \in DOMAIN s : s[i] = s[j] => i = j
      PROVE  /\ \A i, j \in DOMAIN r : r[i] = r[j] => i = j
             /\ \A i \in DOMAIN r : r[i] # Head(s)
  <2>1. ASSUME NEW i \in DOMAIN r, NEW j \in DOMAIN r, r[i] = r[j] PROVE i = j
    <3>1. i + 1 = j + 1
      BY <1>1, <1>3, <1>4, <1>7, <2>1
    <3> QED BY <1>3, <3>1
  <2>2. ASSUME NEW i \in DOMAIN r PROVE r[i] # Head(s)
    BY <1>1, <1>2, <1>3, <1>4, <1>5, <1>7
  <2> QED BY <2>1, <2>2
<1> QED BY <1>1, <1>2, <1>5, <1>6, <1>7

LEMMA QueuedFields ==
  ASSUME NEW w \in WSs, NEW o \in Objects, NEW k \in Tasks, NEW v, v = Queued(w, o, k)
  PROVE  /\ v \in WSs
         /\ \A q \in Objects : q # o => v[q] = w[q]
         /\ v[o].owner = w[o].owner /\ v[o].pending = w[o].pending
         /\ v[o].waiting = w[o].waiting /\ v[o].notified = w[o].notified
         /\ \A j : InQueue(v, o, j) <=> j = k \/ InQueue(w, o, j)
         /\ Once(w, o) /\ ~InQueue(w, o, k) => Once(v, o)
<1> DEFINE s == w[o].queue
           e == Append(s, k)
<1>1. w[o] \in WS /\ s \in Seq(Tasks) /\ (w[o].new <=> w[o].pending > 0)
  BY DEF WSs, WS
<1>2. v = [w EXCEPT ![o].queue = e]
  BY DEF Queued
<1> HIDE DEF s
<1>3. /\ e \in Seq(Tasks)
      /\ \A x : (\E i \in DOMAIN e : e[i] = x) <=> x = k \/ \E i \in DOMAIN s : s[i] = x
      /\ (\A i, j \in DOMAIN s : s[i] = s[j] => i = j) /\ (\A i \in DOMAIN s : s[i] # k)
           => \A i, j \in DOMAIN e : e[i] = e[j] => i = j
  BY <1>1, QueueAppend
<1> HIDE DEF e
<1> DEFINE r == [w[o] EXCEPT !.queue = e]
<1>4. /\ r \in WS /\ r.owner = w[o].owner /\ r.queue = e /\ r.waiting = w[o].waiting
      /\ r.notified = w[o].notified /\ r.pending = w[o].pending /\ r.new = w[o].new
  BY <1>1, <1>3 DEF WS
<1>5. v = [w EXCEPT ![o] = r]
  BY <1>2
<1> HIDE DEF r
<1>9. v \in [Objects -> WS] /\ v[o] = r /\ \A q \in Objects : q # o => v[q] = w[q]
  BY <1>4, <1>5 DEF WSs
<1>6. v \in WSs /\ v[o] = r /\ \A q \in Objects : q # o => v[q] = w[q]
  BY <1>1, <1>4, <1>9, Replaced
<1>7. ASSUME NEW j PROVE InQueue(v, o, j) <=> j = k \/ InQueue(w, o, j)
  <2>1. (\E i \in DOMAIN e : e[i] = j) <=> j = k \/ \E i \in DOMAIN s : s[i] = j
    BY <1>3
  <2> QED BY <2>1, <1>4, <1>6 DEF InQueue, s
<1>8. Once(w, o) /\ ~InQueue(w, o, k) => Once(v, o)
  BY <1>3, <1>4, <1>6 DEF InQueue, Once, s
<1> QED BY <1>4, <1>6, <1>7, <1>8

LEMMA DequeuedFields ==
  ASSUME ws \in WSs, NEW o \in Objects, NEW k \in Tasks, Granted(o, k), NEW v, v = Dequeued(o, k)
  PROVE  /\ v \in WSs
         /\ \A q \in Objects : q # o => v[q] = ws[q]
         /\ v[o].owner = k /\ v[o].pending = ws[o].pending /\ ws[o].owner = None
         /\ v[o].waiting = ws[o].waiting /\ v[o].notified = ws[o].notified
         /\ InQueue(ws, o, k)
         /\ \A j : InQueue(v, o, j) => InQueue(ws, o, j)
         /\ Once(ws, o) => Once(v, o) /\ ~InQueue(v, o, k)
<1> DEFINE s == ws[o].queue
           e == Tail(s)
<1>1. /\ ws[o] \in WS /\ s \in Seq(Tasks) /\ (ws[o].new <=> ws[o].pending > 0)
      /\ s # <<>> /\ Head(s) = k /\ ws[o].owner = None
  BY DEF WSs, WS, Granted, Locked
<1>2. v = [ws EXCEPT ![o].owner = k, ![o].queue = e]
  BY DEF Dequeued, WSs
<1> HIDE DEF s
<1>3. /\ e \in Seq(Tasks) /\ \E i \in DOMAIN s : s[i] = k
      /\ \A x : (\E i \in DOMAIN e : e[i] = x) => \E i \in DOMAIN s : s[i] = x
      /\ (\A i, j \in DOMAIN s : s[i] = s[j] => i = j)
           => (\A i, j \in DOMAIN e : e[i] = e[j] => i = j) /\ \A i \in DOMAIN e : e[i] # k
  BY <1>1, QueueTail
<1> HIDE DEF e
<1> DEFINE r == [ws[o] EXCEPT !.owner = k, !.queue = e]
<1>4. /\ r \in WS /\ r.owner = k /\ r.queue = e /\ r.waiting = ws[o].waiting
      /\ r.notified = ws[o].notified /\ r.pending = ws[o].pending /\ r.new = ws[o].new
  BY <1>1, <1>3 DEF WS
<1>5. v = [ws EXCEPT ![o] = r]
  BY <1>2 DEF WSs
<1> HIDE DEF r
<1>9. v \in [Objects -> WS] /\ v[o] = r /\ \A q \in Objects : q # o => v[q] = ws[q]
  BY <1>4, <1>5 DEF WSs
<1>6. v \in WSs /\ v[o] = r /\ \A q \in Objects : q # o => v[q] = ws[q]
  BY <1>1, <1>4, <1>9, Replaced
<1>7. InQueue(ws, o, k) /\ \A j : InQueue(v, o, j) => InQueue(ws, o, j)
  BY <1>3, <1>4, <1>6 DEF InQueue, s
<1>8. Once(ws, o) => Once(v, o) /\ ~InQueue(v, o, k)
  BY <1>3, <1>4, <1>6 DEF InQueue, Once, s
<1> QED BY <1>1, <1>4, <1>6, <1>7, <1>8

LEMMA NotifiedFields ==
  ASSUME NEW w \in WSs, NEW o \in Objects, NEW v, v = Notified(w, o)
  PROVE  /\ v \in WSs
         /\ \A q \in Objects : q # o => v[q] = w[q]
         /\ v[o].owner = w[o].owner /\ v[o].queue = w[o].queue /\ v[o].pending = w[o].pending
         /\ \A t : Member(v, o, t) => Member(w, o, t)
         /\ Alone(w, o) => Alone(v, o)
<1>1. CASE w[o].waiting = <<>>
  BY <1>1 DEF Notified
<1>2. CASE w[o].waiting # <<>>
  <2> DEFINE s == w[o].waiting
             h == Head(s)
             e == Tail(s)
             n == w[o].notified \cup {h}
  <2>1. /\ w[o] \in WS /\ s \in Seq(Conns) /\ (w[o].new <=> w[o].pending > 0)
        /\ w[o].notified \in SUBSET Conns /\ s # <<>>
    BY <1>2 DEF WSs, WS
  <2>2. v = [w EXCEPT ![o].waiting = e, ![o].notified = n]
    BY <1>2 DEF Notified
  <2>3. \A t : s = <<t>> => h = t /\ e = <<>>
    OBVIOUS
  <2> HIDE DEF s
  <2>4. /\ h \in Conns /\ e \in Seq(Conns) /\ \E i \in DOMAIN s : s[i] = h
        /\ \A x : (\E i \in DOMAIN e : e[i] = x) => \E i \in DOMAIN s : s[i] = x
    BY <2>1, QueueTail
  <2>5. n \in SUBSET Conns /\ \A t : t \in n => t \in w[o].notified \/ t = h
    BY <2>1, <2>4
  <2> HIDE DEF h, e
  <2>6. w[o].notified = {} => \A t : t = h => n \subseteq {t}
    OBVIOUS
  <2> HIDE DEF n
  <2> DEFINE r == [w[o] EXCEPT !.waiting = e, !.notified = n]
  <2>7. /\ r \in WS /\ r.owner = w[o].owner /\ r.queue = w[o].queue /\ r.waiting = e
        /\ r.notified = n /\ r.pending = w[o].pending /\ r.new = w[o].new
    BY <2>1, <2>4, <2>5 DEF WS
  <2>8. v = [w EXCEPT ![o] = r]
    BY <2>2 DEF WSs
  <2> HIDE DEF r
  <2>12. v \in [Objects -> WS] /\ v[o] = r /\ \A q \in Objects : q # o => v[q] = w[q]
    BY <2>7, <2>8 DEF WSs
  <2>9. v \in WSs /\ v[o] = r /\ \A q \in Objects : q # o => v[q] = w[q]
    BY <2>1, <2>7, <2>12, Replaced
  <2>10. \A t : Member(v, o, t) => Member(w, o, t)
    BY <2>4, <2>5, <2>7, <2>9 DEF Member, s
  <2>11. ASSUME Alone(w, o) PROVE Alone(v, o)
    <3>1. PICK t \in Conns : w[o].notified = {} /\ s = <<t>>
      BY <2>1, <2>11 DEF Alone, s
    <3> QED BY <2>3, <2>6, <2>7, <2>9, <3>1 DEF Alone
  <2> QED BY <2>7, <2>9, <2>10, <2>11
<1> QED BY <1>1, <1>2

----------------------------------------------------------------------------
(* Type correctness.                                                       *)

LEMMA MutatorsTyped ==
  ASSUME NEW w \in WSs, NEW o \in Objects
  PROVE  /\ Released(w, o) \in WSs /\ Notified(w, o) \in WSs /\ Written(w, o) \in WSs
         /\ Put(w, o) \in WSs /\ Emptied(w, o) \in WSs
         /\ \A k \in Tasks : Taken(w, o, k) \in WSs /\ Queued(w, o, k) \in WSs
<1>1. \A x \in WSs : Released(x, o) \in WSs
  BY ReleasedFields
<1>2. \A x \in WSs : Notified(x, o) \in WSs /\ Written(x, o) \in WSs /\ Emptied(x, o) \in WSs
  BY NotifiedFields, WrittenFields, EmptiedFields
<1>3. Put(w, o) \in WSs
  BY <1>1, <1>2 DEF Put
<1>4. \A k \in Tasks : Taken(w, o, k) \in WSs /\ Queued(w, o, k) \in WSs
  BY TakenFields, QueuedFields
<1> QED BY <1>1, <1>2, <1>3, <1>4

LEMMA ConnTyped ==
  ASSUME Typed, NEW t \in Conns, NEW at \in Ats, NEW pc \in Producings, NEW n \in 0..MaxPending,
         conn' \in {[conn EXCEPT ![t].at = at], [conn EXCEPT ![t].producer = pc],
                    [conn EXCEPT ![t].at = at, ![t].text = n],
                    [conn EXCEPT ![t].at = at, ![t].producer = pc],
                    [conn EXCEPT ![t] = [at |-> at, producer |-> pc, text |-> n]]}
  PROVE  conn' \in Connections
<1> DEFINE CN == [at : Ats, producer : Producings, text : 0..MaxPending]
<1>1. conn[t] \in CN /\ conn \in [Conns -> CN]
  BY DEF Typed, Connections
<1>2. /\ [conn[t] EXCEPT !.at = at] \in CN /\ [conn[t] EXCEPT !.producer = pc] \in CN
      /\ [conn[t] EXCEPT !.at = at, !.text = n] \in CN
      /\ [conn[t] EXCEPT !.at = at, !.producer = pc] \in CN
      /\ [at |-> at, producer |-> pc, text |-> n] \in CN
  BY <1>1
<1>3. conn' \in {[conn EXCEPT ![t] = [conn[t] EXCEPT !.at = at]],
                 [conn EXCEPT ![t] = [conn[t] EXCEPT !.producer = pc]],
                 [conn EXCEPT ![t] = [conn[t] EXCEPT !.at = at, !.text = n]],
                 [conn EXCEPT ![t] = [conn[t] EXCEPT !.at = at, !.producer = pc]],
                 [conn EXCEPT ![t] = [at |-> at, producer |-> pc, text |-> n]]}
  BY <1>1
<1>4. \A r \in CN : [conn EXCEPT ![t] = r] \in [Conns -> CN]
  BY <1>1
<1> HIDE DEF CN
<1>5. conn' \in [Conns -> CN]
  BY <1>2, <1>3, <1>4
<1> QED BY <1>5 DEF Connections, CN

LEMMA SuspendTyped ==
  ASSUME Typed, NEW t \in Conns, NEW w \in WSs, NEW at \in Ats, Suspend(t, w, at)
  PROVE  Typed'
<1>1. conn' = [conn EXCEPT ![t].at = at] /\ UNCHANGED entry /\ ws' = w
  BY DEF Suspend
<1>2. "none" \in Producings /\ 0 \in 0..MaxPending
  BY PendingAssumption DEF Producings
<1>3. conn' \in Connections
  BY <1>1, <1>2, ConnTyped
<1> QED BY <1>1, <1>3 DEF Typed

\* The object of a register, when it has one.
LEMMA EntryTyped ==
  Typed => \A r \in Registers : entry[r] \in Objects \cup {0} /\ (entry[r] # 0 => entry[r] \in Objects)
BY DEF Typed

LEMMA CrashTyped ==
  ASSUME Typed, NEW t \in Conns, NEW w \in WSs, Crash(t, w)
  PROVE  Typed'
BY SuspendTyped DEF Crash, Ats, Over

LEMMA JoinProducerTyped ==
  ASSUME Typed, NEW t \in Conns, NEW w \in WSs, NEW at \in Ats, JoinProducer(t, w, at)
  PROVE  Typed'
<1> DEFINE o == entry[Own(t)]
           pc == IF conn[t].producer = "done" THEN "ended" ELSE conn[t].producer
<1>1. CASE ~Holding(t, w)
  BY <1>1, CrashTyped DEF JoinProducer
<1>2. CASE Holding(t, w)
  <2>1. o \in Objects
    BY <1>2, EntryTyped, Sides DEF Holding
  <2>2. ws' = Released(Notified(w, o), o) /\ UNCHANGED entry
    BY <1>2 DEF JoinProducer
  <2>3. conn' = [conn EXCEPT ![t].at = at, ![t].producer = pc]
    BY <1>2 DEF JoinProducer, Typed, Connections
  <2>4. conn[t].producer \in Producings /\ 0 \in 0..MaxPending
    BY PendingAssumption DEF Typed, Connections
  <2>5. pc \in Producings
    BY <2>4 DEF Producings
  <2> HIDE DEF pc, o
  <2>6. conn' \in Connections
    BY <2>3, <2>4, <2>5, ConnTyped
  <2> QED BY <2>1, <2>2, <2>6, MutatorsTyped DEF Typed
<1> QED BY <1>1, <1>2

LEMMA LoopTyped ==
  ASSUME Typed, NEW t \in Conns, NEW w \in WSs, Loop(t, w)
  PROVE  Typed'
<1>1. "wait" \in Ats /\ "begin" \in Producings /\ 0 \in 0..MaxPending
  BY PendingAssumption DEF Ats, Waiting, Producings
<1>2. conn' = [conn EXCEPT ![t] = [at |-> "wait", producer |-> "begin", text |-> 0]]
  BY DEF Loop
<1>3. conn' \in Connections
  BY <1>1, <1>2, ConnTyped
<1> QED BY <1>3 DEF Loop, Typed

LEMMA UnregisterTyped ==
  ASSUME Typed, NEW t \in Conns, NEW w \in WSs, Unregister(t, w)
  PROVE  Typed'
<1>1. "end" \in Ats /\ "none" \in Producings /\ 0 \in 0..MaxPending
  BY PendingAssumption DEF Ats, Over, Producings
<1>2. conn' \in Connections
  BY <1>1, ConnTyped DEF Unregister
<1>3. ws' \in WSs
  BY EntryTyped, MutatorsTyped, Sides DEF Unregister
<1>4. entry' \in [Registers -> Objects \cup {0}]
  BY DEF Unregister, Typed
<1> QED BY <1>2, <1>3, <1>4 DEF Typed

LEMMA FlushTyped ==
  ASSUME Typed, NEW t \in Conns, NEW w \in WSs, Flush(t, w)
  PROVE  Typed'
<1> DEFINE o == entry[Own(t)]
<1>1. CASE o = 0
  BY <1>1, CrashTyped DEF Flush
<1>2. CASE o # 0 /\ w[o].new
  <2>1. o \in Objects
    BY <1>2, EntryTyped, Sides
  <2>2. w[o].pending \in 0..MaxPending
    BY <2>1 DEF WSs, WS
  <2>3. "send" \in Ats /\ "none" \in Producings
    BY DEF Ats, Sending, Producings
  <2>4. conn' = [conn EXCEPT ![t].at = "send", ![t].text = w[o].pending]
    BY <1>2 DEF Flush
  <2> HIDE DEF o
  <2>5. conn' \in Connections
    BY <2>2, <2>3, <2>4, ConnTyped
  <2> QED BY <1>2, <2>5 DEF Flush, Typed, o
<1>3. CASE o # 0 /\ ~w[o].new
  BY <1>3, EntryTyped, Sides, MutatorsTyped, LoopTyped, CrashTyped DEF Flush
<1> QED BY <1>1, <1>2, <1>3

LEMMA JoinTyped ==
  ASSUME Typed, NEW t \in Conns, NEW w \in WSs, Join(t, w)
  PROVE  Typed'
BY JoinProducerTyped DEF Join, Ats, Waiting

LEMMA ForwardTyped ==
  ASSUME Typed, NEW t \in Conns, NEW w \in WSs, Forward(t, w)
  PROVE  Typed'
BY JoinTyped, CrashTyped, EntryTyped, Sides, MutatorsTyped DEF Forward, Send

LEMMA GoodbyeTyped ==
  ASSUME Typed, NEW t \in Conns, NEW w \in WSs, Goodbye(t, w)
  PROVE  Typed'
BY UnregisterTyped, CrashTyped, EntryTyped, Sides, MutatorsTyped DEF Goodbye, Send, Registers

LEMMA RelayedTyped ==
  ASSUME Typed, NEW t \in Conns, NEW w \in WSs, Relayed(t, w)
  PROVE  Typed'
<1>1. {"forward", "noclient", "lost"} \subseteq Ats
  BY DEF Ats, LockWaits, Sending
<1> QED BY <1>1, ForwardTyped, SuspendTyped, EntryTyped, Sides, TaskNames, MutatorsTyped
        DEF Relayed, Acquire

LEMMA LeaveTyped ==
  ASSUME Typed, NEW t \in Conns, NEW w \in WSs, Leave(t, w)
  PROVE  Typed'
<1>1. "goodbye" \in Ats /\ "plants" \in Registers
  BY DEF Ats, LockWaits, Registers
<1> QED BY <1>1, GoodbyeTyped, UnregisterTyped, CrashTyped, SuspendTyped, EntryTyped, TaskNames,
           MutatorsTyped DEF Leave, Acquire

LEMMA ClosingTyped ==
  ASSUME Typed, NEW t \in Conns, NEW w \in WSs, Closing(t, w)
  PROVE  Typed'
BY LeaveTyped, JoinProducerTyped DEF Closing, Ats, Waiting

LEMMA ClosedTyped ==
  ASSUME Typed, NEW t \in Conns, NEW w \in WSs, Closed(t, w)
  PROVE  Typed'
<1>1. "closing" \in Ats
  BY DEF Ats, LockWaits
<1> QED BY <1>1, ClosingTyped, CrashTyped, SuspendTyped, EntryTyped, Sides, TaskNames, MutatorsTyped
        DEF Closed, Acquire

LEMMA TopTyped ==
  ASSUME Typed, NEW t \in Conns, NEW w \in WSs,
         NEW got \in {"closed", "answer", "other", "timeout", "nothing"}, Top(t, w, got)
  PROVE  Typed'
<1>1. "reply" \in Ats /\ "leave" \in Ats
  BY DEF Ats, Sending, Waiting
<1> QED BY <1>1, ClosedTyped, SuspendTyped, RelayedTyped, JoinProducerTyped, FlushTyped DEF Top

LEMMA TypeSplit ==
  TypeOK <=> Typed /\ due \subseteq Tasks /\ strayed \in BOOLEAN
<1>1. (ws \in [Objects -> WS] /\ \A o \in Objects : ws[o].new <=> ws[o].pending > 0) <=> ws \in WSs
  BY DEF WSs
<1>2. Ats = Over \cup Waiting \cup Sending \cup
              {"off", "hello", "closed", "answer", "other", "timeout", "nothing", "forward",
               "again", "closing", "goodbye"}
  BY DEF Ats, LockWaits
<1> QED BY <1>1, <1>2, Zenon DEF TypeOK, Typed, WS, Connections, Producings

LEMMA ConnectTyped ==
  ASSUME Typed, NEW t \in Conns, Connect(t)
  PROVE  Typed'
<1> DEFINE r == Own(t)
           plant == entry["plants"]
<1>1. r \in Registers /\ "plants" \in Registers
  BY Sides DEF Registers
<1>2. /\ {"refused", "wait", "greet", "hello"} \subseteq Ats /\ 0 \in 0..MaxPending
      /\ "none" \in Producings /\ "begin" \in Producings /\ ws \in WSs
  BY PendingAssumption DEF Ats, Sending, Waiting, LockWaits, Producings, Typed
<1>3. CASE t \in ClientConns /\ plant = 0
  BY <1>2, <1>3, SuspendTyped DEF Connect
<1>4. CASE ~(t \in ClientConns /\ plant = 0)
  <2>1. /\ entry' = [entry EXCEPT ![r] = IF @ = 0 THEN t ELSE @]
        /\ IF t \in PlantConns
           THEN conn' = [conn EXCEPT ![t].at = "wait", ![t].producer = "begin"] /\ ws' = ws
           ELSE IF Free(ws, plant)
           THEN conn' = [conn EXCEPT ![t].at = "greet"] /\ ws' = Put(ws, plant)
           ELSE conn' = [conn EXCEPT ![t].at = "hello"] /\ ws' = Queued(ws, plant, Main(t))
    BY <1>4 DEF Connect
  <2>2. entry' \in [Registers -> Objects \cup {0}]
    BY <1>1, <2>1, Sides DEF Typed
  <2>3. CASE t \in PlantConns
    BY <1>2, <2>1, <2>2, <2>3, ConnTyped DEF Typed
  <2>4. CASE t \notin PlantConns
    <3>1. plant \in Objects
      BY <1>1, <1>4, <2>4, EntryTyped, Sides
    <3>2. ws' \in WSs
      BY <1>2, <2>1, <2>4, <3>1, MutatorsTyped, TaskNames
    <3>3. conn' \in Connections
      BY <1>2, <2>1, <2>4, ConnTyped
    <3> QED BY <2>2, <3>2, <3>3 DEF Typed
  <2> QED BY <2>3, <2>4
<1> QED BY <1>3, <1>4

LEMMA WaitTyped ==
  ASSUME Typed, NEW t \in Conns, Wait(t)
  PROVE  Typed'
<1>1. PICK got \in Outcomes(t) :
        IF entry[Own(t)] = 0 THEN Crash(t, ws)
        ELSE Acquire(t, ws, entry[Own(t)], got, LAMBDA u, w : Top(u, w, got))
  BY DEF Wait
<1>2. got \in {"closed", "answer", "other", "timeout", "nothing"} /\ got \in Ats /\ ws \in WSs
  BY DEF Outcomes, Ats, LockWaits, Typed
<1>3. CASE entry[Own(t)] = 0
  BY <1>1, <1>2, <1>3, CrashTyped
<1>4. CASE entry[Own(t)] # 0
  <2> DEFINE o == entry[Own(t)]
  <2>1. o \in Objects /\ Main(t) \in Tasks
    BY <1>4, EntryTyped, Sides, TaskNames
  <2>2. \/ Top(t, Taken(ws, o, Main(t)), got)
        \/ Suspend(t, Queued(ws, o, Main(t)), got)
    BY <1>1, <1>4 DEF Acquire
  <2> HIDE DEF o
  <2> QED BY <1>2, <2>1, <2>2, TopTyped, SuspendTyped, MutatorsTyped
<1> QED BY <1>3, <1>4

LEMMA ResumeTyped ==
  ASSUME Typed, NEW t \in Conns, Resume(t)
  PROVE  Typed'
<1>1. PICK o \in Objects :
        LET w == Dequeued(o, Main(t)) IN
        /\ Granted(o, Main(t))
        /\ \/ conn[t].at = "hello" /\ Send(t, w, "plants", LAMBDA u, w1 : Suspend(u, w1, "greet"))
           \/ conn[t].at = "forward" /\ Forward(t, w)
           \/ conn[t].at = "again" /\ Flush(t, w)
           \/ conn[t].at = "closing" /\ Closing(t, w)
           \/ conn[t].at = "goodbye" /\ Goodbye(t, w)
           \/ conn[t].at \in {"closed", "answer", "other", "timeout", "nothing"} /\ Top(t, w, conn[t].at)
  BY DEF Resume
<1> DEFINE w == Dequeued(o, Main(t))
<1>2. w \in WSs
  BY <1>1, DequeuedFields, TaskNames DEF Typed
<1>3. \/ Send(t, w, "plants", LAMBDA u, w1 : Suspend(u, w1, "greet"))
      \/ Forward(t, w) \/ Flush(t, w) \/ Closing(t, w) \/ Goodbye(t, w)
      \/ /\ conn[t].at \in {"closed", "answer", "other", "timeout", "nothing"}
         /\ Top(t, w, conn[t].at)
  BY <1>1 DEF LockWaits
<1> HIDE DEF w
<1>4. CASE Send(t, w, "plants", LAMBDA u, w1 : Suspend(u, w1, "greet"))
  <2>1. "greet" \in Ats /\ "plants" \in Registers
    BY DEF Ats, Sending, Registers
  <2> QED BY <1>2, <1>4, <2>1, SuspendTyped, CrashTyped, EntryTyped, MutatorsTyped DEF Send
<1> QED BY <1>2, <1>3, <1>4, ForwardTyped, FlushTyped, ClosingTyped, GoodbyeTyped, TopTyped

LEMMA SendDoneTyped ==
  ASSUME Typed, NEW t \in Conns, SendDone(t)
  PROVE  Typed'
<1>1. ws \in WSs /\ "end" \in Ats
  BY DEF Typed, Ats, Over
<1>2. CASE Sent(t)
  <2> DEFINE o == entry[Own(t)]
  <2>1. \/ Suspend(t, ws, "end") \/ Loop(t, ws) \/ Relayed(t, ws) \/ Join(t, ws)
        \/ Unregister(t, ws) \/ Crash(t, ws)
        \/ Holding(t, ws) /\ Loop(t, Released(Emptied(ws, o), o))
    BY <1>2 DEF SendDone, Sent, Sending
  <2>2. CASE Holding(t, ws) /\ Loop(t, Released(Emptied(ws, o), o))
    <3>1. o \in Objects
      BY <2>2, EntryTyped, Sides DEF Holding
    <3> HIDE DEF o
    <3> QED BY <1>1, <2>2, <3>1, MutatorsTyped, LoopTyped
  <2> QED BY <1>1, <2>1, <2>2, SuspendTyped, LoopTyped, RelayedTyped, JoinTyped, UnregisterTyped,
             CrashTyped
<1> QED BY <1>1, <1>2, ClosedTyped DEF SendDone

LEMMA JoinedTyped ==
  ASSUME Typed, NEW t \in Conns, Joined(t)
  PROVE  Typed'
<1>1. ws \in WSs /\ "again" \in Ats /\ Main(t) \in Tasks
  BY TaskNames DEF Typed, Ats, LockWaits
<1> DEFINE o == entry[Own(t)]
<1>2. \/ Crash(t, ws) \/ Leave(t, ws)
      \/ o # 0 /\ (Flush(t, Taken(ws, o, Main(t))) \/ Suspend(t, Queued(ws, o, Main(t)), "again"))
  BY DEF Joined, Acquire
<1>3. o # 0 => o \in Objects
  BY EntryTyped, Sides
<1> HIDE DEF o
<1> QED BY <1>1, <1>2, <1>3, CrashTyped, LeaveTyped, FlushTyped, SuspendTyped, MutatorsTyped

LEMMA ProducerAtTyped ==
  ASSUME Typed, NEW t \in Conns, NEW w \in WSs, NEW pc \in Producings, ProducerAt(t, w, pc)
  PROVE  Typed'
<1>1. conn' = [conn EXCEPT ![t].producer = pc] /\ UNCHANGED entry /\ ws' = w
  BY DEF ProducerAt
<1>2. "off" \in Ats /\ 0 \in 0..MaxPending
  BY PendingAssumption DEF Ats
<1>3. conn' \in Connections
  BY <1>1, <1>2, ConnTyped
<1> QED BY <1>1, <1>3 DEF Typed

\* A producer task that waits for the condition gives up the lock.
LEMMA SleepFields ==
  ASSUME NEW w \in WSs, NEW o \in Objects, NEW t \in Conns, NEW v, v = Sleep(w, o, t)
  PROVE  /\ v \in WSs
         /\ \A q \in Objects : q # o => v[q] = w[q]
         /\ v[o].owner = None /\ v[o].queue = w[o].queue /\ v[o].pending = w[o].pending
         /\ v[o].notified = w[o].notified /\ v[o].waiting = Append(w[o].waiting, t)
<1> DEFINE x == Released(w, o)
           s == w[o].waiting
           e == Append(s, t)
<1>1. /\ x \in WSs
      /\ \A q \in Objects : q # o => x[q] = w[q]
      /\ x[o].owner = None /\ x[o].queue = w[o].queue /\ x[o].pending = w[o].pending
      /\ x[o].notified = w[o].notified /\ x[o].waiting = s
  BY ReleasedFields
<1>2. x[o] \in WS /\ s \in Seq(Conns) /\ (x[o].new <=> x[o].pending > 0)
  BY <1>1 DEF WSs, WS
<1>3. v = [x EXCEPT ![o].waiting = e]
  BY <1>1 DEF Sleep
<1> HIDE DEF s, x
<1>4. e \in Seq(Conns)
  BY <1>2, QueueAppend
<1> HIDE DEF e
<1> DEFINE r == [x[o] EXCEPT !.waiting = e]
<1>5. /\ r \in WS /\ r.owner = x[o].owner /\ r.queue = x[o].queue /\ r.waiting = e
      /\ r.notified = x[o].notified /\ r.pending = x[o].pending /\ r.new = x[o].new
  BY <1>2, <1>4 DEF WS
<1>6. v = [x EXCEPT ![o] = r]
  BY <1>3
<1> HIDE DEF r
<1>7. v \in [Objects -> WS] /\ v[o] = r /\ \A q \in Objects : q # o => v[q] = x[q]
  BY <1>1, <1>5, <1>6 DEF WSs
<1>8. v \in WSs
  BY <1>1, <1>2, <1>5, <1>7, Replaced
<1> QED BY <1>1, <1>5, <1>7, <1>8 DEF e, s

Forgotten(w, o, t) == [w EXCEPT ![o].notified = @ \ {t}]

LEMMA ForgottenFields ==
  ASSUME NEW w \in WSs, NEW o \in Objects, NEW t, NEW v, v = Forgotten(w, o, t)
  PROVE  /\ v \in WSs
         /\ \A q \in Objects : q # o => v[q] = w[q]
         /\ v[o].owner = w[o].owner /\ v[o].queue = w[o].queue /\ v[o].pending = w[o].pending
         /\ v[o].notified = w[o].notified \ {t} /\ v[o].waiting = w[o].waiting
<1> DEFINE n == w[o].notified \ {t}
           r == [w[o] EXCEPT !.notified = n]
<1>1. w[o] \in WS /\ (w[o].new <=> w[o].pending > 0) /\ n \in SUBSET Conns
  BY DEF WSs, WS
<1> HIDE DEF n
<1>2. /\ r \in WS /\ r.owner = w[o].owner /\ r.queue = w[o].queue /\ r.waiting = w[o].waiting
      /\ r.notified = n /\ r.pending = w[o].pending /\ r.new = w[o].new
  BY <1>1 DEF WS
<1>3. v = [w EXCEPT ![o] = r]
  BY DEF n, Forgotten
<1> HIDE DEF r
<1>4. v \in [Objects -> WS] /\ v[o] = r /\ \A q \in Objects : q # o => v[q] = w[q]
  BY <1>2, <1>3 DEF WSs
<1> QED BY <1>1, <1>2, <1>4, Replaced DEF n

LEMMA ProducerTyped ==
  ASSUME Typed, NEW t \in Conns,
         ProducerBegin(t) \/ ProducerNotified(t) \/ ProducerGranted(t) \/ ProducerEnded(t)
  PROVE  Typed'
<1>1. /\ ws \in WSs /\ {"condition", "enter", "reenter", "ended", "done"} \subseteq Producings
      /\ Producer(t) \in Tasks
  BY TaskNames DEF Typed, Producings
<1> DEFINE p == entry[Own(t)]
<1>2. p # 0 => p \in Objects
  BY EntryTyped, Sides
<1>3. \A w \in WSs, o \in Objects : Sleep(w, o, t) \in WSs
  BY SleepFields
<1>4. CASE ProducerBegin(t)
  <2>1. \/ ProducerAt(t, ws, "ended")
        \/ p # 0 /\ ProducerAt(t, Sleep(ws, p, t), "condition")
        \/ p # 0 /\ ProducerAt(t, Queued(ws, p, Producer(t)), "enter")
    BY <1>4 DEF ProducerBegin
  <2> HIDE DEF p
  <2> QED BY <1>1, <1>2, <1>3, <2>1, ProducerAtTyped, MutatorsTyped
<1>5. CASE ProducerNotified(t)
  <2>1. PICK o \in Objects :
          \/ ProducerAt(t, Forgotten(ws, o, t), "ended")
          \/ ProducerAt(t, Queued(Forgotten(ws, o, t), o, Producer(t)), "reenter")
    BY <1>5 DEF ProducerNotified, Forgotten
  <2>2. Forgotten(ws, o, t) \in WSs
    BY <1>1, ForgottenFields
  <2> QED BY <1>1, <2>1, <2>2, ProducerAtTyped, MutatorsTyped
<1>6. CASE ProducerGranted(t)
  <2>1. PICK o \in Objects :
          LET w == Dequeued(o, Producer(t)) IN
          /\ Granted(o, Producer(t))
          /\ \/ ProducerAt(t, w, "ended")
             \/ p # 0 /\ ProducerAt(t, Sleep(w, p, t), "condition")
             \/ p # 0 /\ ProducerAt(t, Released(w, p), "ended")
    BY <1>6 DEF ProducerGranted
  <2> DEFINE w == Dequeued(o, Producer(t))
  <2>2. w \in WSs
    BY <1>1, <2>1, DequeuedFields
  <2>3. \/ ProducerAt(t, w, "ended")
        \/ p # 0 /\ ProducerAt(t, Sleep(w, p, t), "condition")
        \/ p # 0 /\ ProducerAt(t, Released(w, p), "ended")
    BY <2>1
  <2> HIDE DEF w, p
  <2> QED BY <1>1, <1>2, <1>3, <2>2, <2>3, ProducerAtTyped, MutatorsTyped
<1>7. CASE ProducerEnded(t)
  BY <1>1, <1>7, ProducerAtTyped DEF ProducerEnded
<1> QED BY <1>4, <1>5, <1>6, <1>7

LEMMA ViewTyped ==
  ASSUME Typed, NEW v \in Views, ViewSends(v) \/ ViewGranted(v)
  PROVE  Typed'
<1> DEFINE p == entry["plants"]
<1>1. ws \in WSs /\ View(v) \in Tasks /\ (p # 0 => p \in Objects)
  BY TaskNames, EntryTyped DEF Typed, Registers
<1>2. UNCHANGED <<entry, conn>>
  BY DEF ViewSends, ViewGranted
<1>3. CASE ViewSends(v)
  <2>1. p # 0 /\ (ws' = Put(ws, p) \/ ws' = Queued(ws, p, View(v)))
    BY <1>3 DEF ViewSends
  <2> HIDE DEF p
  <2> QED BY <1>1, <1>2, <2>1, MutatorsTyped DEF Typed
<1>4. CASE ViewGranted(v)
  <2>1. PICK o \in Objects :
          /\ Granted(o, View(v))
          /\ ws' = IF p = 0 THEN Dequeued(o, View(v))
                   ELSE IF Locked(Dequeued(o, View(v)), p) THEN Put(Dequeued(o, View(v)), p)
                   ELSE Written(Dequeued(o, View(v)), p)
    BY <1>4 DEF ViewGranted
  <2> DEFINE w == Dequeued(o, View(v))
  <2>2. w \in WSs
    BY <1>1, <2>1, DequeuedFields
  <2>3. ws' = w \/ (p # 0 /\ (ws' = Put(w, p) \/ ws' = Written(w, p)))
    BY <2>1
  <2> HIDE DEF w, p
  <2> QED BY <1>1, <1>2, <2>2, <2>3, MutatorsTyped DEF Typed
<1> QED BY <1>3, <1>4

----------------------------------------------------------------------------
(* What holds in the middle of a step.                                     *)

\* The lock of object o is free, or held by a task that may release it.
Loose(w, o, X) == \A u \in Conns : w[o].owner = Main(u) => u \in X /\ conn[u].at \notin Over

\* A change of one object whose lock is loose, that adds no task to it.
LEMMA Kept ==
  ASSUME NEW w, NEW X, Good(w, X), NEW o \in Objects, Loose(w, o, X), NEW v,
         Registered,
         \A q \in Objects : q # o => v[q] = w[q],
         \A k : InQueue(v, o, k) => InQueue(w, o, k),
         Once(v, o), Alone(v, o),
         \A u : Member(v, o, u) => Member(w, o, u)
  PROVE  Good(v, X)
<1>1. \A q \in Objects :
        /\ \A k : InQueue(v, q, k) => InQueue(w, q, k)
        /\ \A u : Member(v, q, u) => Member(w, q, u)
        /\ Once(v, q) /\ Alone(v, q)
  BY DEF Good, Queues, Waiters, InQueue, Member, Once, Alone
<1>2. \A q \in Objects : Shut(w, q) => Shut(v, q)
  BY DEF Shut, Loose
<1>3. Queues(v, X)
  <2>1. \A q, m \in Objects, k \in Tasks : InQueue(v, q, k) /\ InQueue(v, m, k) => q = m
    BY <1>1 DEF Good, Queues
  <2>2. \A q \in Objects, t \in Conns :
          InQueue(v, q, Main(t)) => t \notin X /\ conn[t].at \in LockWaits
    BY <1>1 DEF Good, Queues
  <2>3. \A q \in Objects, t \in Conns :
          InQueue(v, q, Producer(t)) =>
            conn[t].producer \in {"enter", "reenter"} /\ (Served(t, q) \/ Shut(v, q))
    BY <1>1, <1>2 DEF Good, Queues
  <2>4. \A q \in Objects, t \in PlantConns :
          conn[t].at = "forward" /\ InQueue(v, q, Main(t)) =>
            entry["clients"] = q \/ Shut(v, q)
    BY <1>1, <1>2 DEF Good, Queues
  <2> QED BY <1>1, <2>1, <2>2, <2>3, <2>4 DEF Queues
<1>4. ASSUME NEW t \in Conns \ X, conn[t].at \in HoldsOwn
      PROVE  entry[Own(t)] \in Objects /\ entry[Own(t)] # o /\ v[entry[Own(t)]] = w[entry[Own(t)]]
  <2>1. Live(t) /\ conn[t].at # "refused"
    BY <1>4 DEF Live, HoldsOwn, Over
  <2>2. entry[Own(t)] \in Objects
    BY <2>1, Sides DEF Registered, Objects, Conns
  <2>3. w[entry[Own(t)]].owner = Main(t)
    BY <1>4 DEF Good, Owners
  <2>4. entry[Own(t)] # o
    BY <2>3 DEF Loose
  <2> QED BY <2>2, <2>4
<1>5. Owners(v, X)
  BY <1>4 DEF Good, Owners
<1>6. Texts(v, X)
  BY <1>4 DEF Good, Texts, HoldsOwn
<1>7. Waiters(v)
  BY <1>1, <1>2 DEF Good, Waiters
<1> QED BY <1>3, <1>5, <1>6, <1>7 DEF Good

\* The end of a step of the coroutine of t: ws ends with value w, or with t in a queue.
Ends(t, w) ==
  \/ ws' = w
  \/ \E o \in Objects :
       /\ ws' = Queued(w, o, Main(t)) /\ conn'[t].at \in LockWaits
       /\ t \in PlantConns /\ conn'[t].at = "forward" => entry["clients"] = o

LEMMA EndsFields ==
  ASSUME NEW t \in Conns, NEW w \in WSs, Good(w, {t}), Ends(t, w)
  PROVE  /\ \A q \in Objects :
              /\ ws'[q].owner = w[q].owner /\ ws'[q].pending = w[q].pending
              /\ ws'[q].waiting = w[q].waiting /\ ws'[q].notified = w[q].notified
              /\ Once(ws', q) /\ Alone(ws', q)
              /\ \A k : k # Main(t) /\ InQueue(ws', q, k) => InQueue(w, q, k)
              /\ InQueue(ws', q, Main(t)) =>
                   /\ conn'[t].at \in LockWaits
                   /\ t \in PlantConns /\ conn'[t].at = "forward" => entry["clients"] = q
         /\ \A q, m \in Objects, k \in Tasks :
              InQueue(ws', q, k) /\ InQueue(ws', m, k) => q = m
<1>1. \A q \in Objects : Once(w, q) /\ Alone(w, q) /\ ~InQueue(w, q, Main(t))
  BY DEF Good, Queues, Waiters
<1>2. CASE ws' = w
  BY <1>1, <1>2 DEF Good, Queues
<1>3. CASE \E o \in Objects :
             /\ ws' = Queued(w, o, Main(t)) /\ conn'[t].at \in LockWaits
             /\ t \in PlantConns /\ conn'[t].at = "forward" => entry["clients"] = o
  <2>1. PICK o \in Objects :
             /\ ws' = Queued(w, o, Main(t)) /\ conn'[t].at \in LockWaits
             /\ t \in PlantConns /\ conn'[t].at = "forward" => entry["clients"] = o
    BY <1>3
  <2>2. Main(t) \in Tasks
    BY TaskNames
  <2>3. /\ \A q \in Objects : q # o => ws'[q] = w[q]
        /\ ws'[o].owner = w[o].owner /\ ws'[o].pending = w[o].pending
        /\ ws'[o].waiting = w[o].waiting /\ ws'[o].notified = w[o].notified
        /\ \A j : InQueue(ws', o, j) <=> j = Main(t) \/ InQueue(w, o, j)
        /\ Once(ws', o)
    BY <1>1, <2>1, <2>2, QueuedFields
  <2>4. \A q \in Objects : q # o => \A j : InQueue(ws', q, j) <=> InQueue(w, q, j)
    BY <2>3 DEF InQueue
  <2>5. \A q \in Objects : Once(ws', q) /\ Alone(ws', q)
    BY <1>1, <2>3 DEF Once, Alone
  <2>6. ASSUME NEW q \in Objects
        PROVE  /\ ws'[q].owner = w[q].owner /\ ws'[q].pending = w[q].pending
               /\ ws'[q].waiting = w[q].waiting /\ ws'[q].notified = w[q].notified
               /\ \A k : k # Main(t) /\ InQueue(ws', q, k) => InQueue(w, q, k)
               /\ InQueue(ws', q, Main(t)) => q = o
    BY <1>1, <2>3, <2>4
  <2>7. \A q, m \in Objects, k \in Tasks : InQueue(ws', q, k) /\ InQueue(ws', m, k) => q = m
    BY <2>6 DEF Good, Queues
  <2> QED BY <2>1, <2>5, <2>6, <2>7
<1> QED BY <1>2, <1>3 DEF Ends

\* What the end of a step owes to the invariant.
LEMMA Moves ==
  ASSUME Typed, conn' \in Connections, Registered, Labels,
         NEW t \in Conns, NEW w \in WSs, Good(w, {t}), Ends(t, w),
         \/ UNCHANGED entry
         \/ entry[Own(t)] = 0 /\ entry' = [entry EXCEPT ![Own(t)] = t],
         \A u \in Conns : u # t => conn'[u] = conn[u],
         \A u \in Conns : Own(u) = Own(t) /\ Live(u) => u = t,
         conn[t].at \notin Over, conn'[t].at # "off",
         conn'[t].at \in Over \cup {"refused"} \/ entry'[Own(t)] # 0,
         t \in PlantConns => conn'[t].at \notin Over,
         Fits(t, conn'[t].at, conn'[t].producer),
         conn'[t].at \in HoldsOwn => entry'[Own(t)] = entry[Own(t)] /\ w[entry[Own(t)]].owner = Main(t),
         conn'[t].at = "send" => w[entry[Own(t)]].pending = conn'[t].text,
         \/ conn[t].producer \notin {"enter", "reenter", "condition"}
         \/ /\ conn'[t].producer = conn[t].producer
            /\ conn'[t].at \in Over => w[entry[Own(t)]].owner = Main(t)
  PROVE  Sound'
<1>1. Registered'
  <2>1. entry'["plants"] \in PlantConns \cup {0} /\ entry'["clients"] \in ClientConns \cup {0}
    BY Sides DEF Registered, Typed, Registers
  <2>2. \A u \in Conns : u # t => (Live(u)' <=> Live(u))
    BY DEF Live
  <2>3. \A u, x \in Conns : Own(u) = Own(x) /\ Live(u)' /\ Live(x)' => u = x
    BY <2>2 DEF Registered
  <2>4. \A u \in Conns : Live(u)' /\ conn'[u].at # "refused" => entry'[Own(u)] # 0
    <3> SUFFICES ASSUME NEW u \in Conns, Live(u)', conn'[u].at # "refused"
                 PROVE  entry'[Own(u)] # 0
      OBVIOUS
    <3>1. CASE u = t
      BY <3>1 DEF Live
    <3>2. CASE u # t
      <4>1. entry[Own(u)] # 0
        BY <2>2, <3>2 DEF Registered
      <4> QED BY <4>1, Sides DEF Typed, Registers
    <3> QED BY <3>1, <3>2
  <2>5. entry'["plants"] # 0 => \E u \in PlantConns : Live(u)'
    <3> SUFFICES ASSUME entry'["plants"] # 0 PROVE \E u \in PlantConns : Live(u)'
      OBVIOUS
    <3>1. CASE t \in PlantConns
      BY <3>1 DEF Live
    <3>2. CASE t \notin PlantConns
      <4>1. entry["plants"] # 0
        BY <3>2, Sides DEF Typed, Registers
      <4>2. PICK u \in PlantConns : Live(u)
        BY <4>1 DEF Registered
      <4> QED BY <3>2, <4>2, <2>2 DEF Conns
    <3> QED BY <3>1, <3>2
  <2> QED BY <2>1, <2>3, <2>4, <2>5 DEF Registered, Own
<1>2. Labels'
  BY DEF Labels, Fits
<1>3. /\ \A q \in Objects :
            /\ ws'[q].owner = w[q].owner /\ ws'[q].pending = w[q].pending
            /\ ws'[q].waiting = w[q].waiting /\ ws'[q].notified = w[q].notified
            /\ Once(ws', q) /\ Alone(ws', q)
            /\ \A k : k # Main(t) /\ InQueue(ws', q, k) => InQueue(w, q, k)
            /\ InQueue(ws', q, Main(t)) =>
                 /\ conn'[t].at \in LockWaits
                 /\ t \in PlantConns /\ conn'[t].at = "forward" => entry["clients"] = q
      /\ \A q, m \in Objects, k \in Tasks :
           InQueue(ws', q, k) /\ InQueue(ws', m, k) => q = m
  BY EndsFields
<1>4. ASSUME NEW q \in Objects, Shut(w, q)
      PROVE  \E u \in Conns : ws'[q].owner = Main(u) /\ conn'[u].at \in Over
  <2>1. PICK u \in Conns : w[q].owner = Main(u) /\ conn[u].at \in Over
    BY <1>4 DEF Shut
  <2> QED BY <1>3, <2>1
<1>5. ASSUME NEW q \in Objects, NEW u \in Conns, Served(u, q) \/ Shut(w, q),
             conn[u].producer \in {"enter", "reenter", "condition"}
      PROVE  /\ conn'[u].producer = conn[u].producer
             /\ \/ conn'[u].at \notin Over \cup {"off"} /\ entry'[Own(u)] = q
                \/ \E x \in Conns : ws'[q].owner = Main(x) /\ conn'[x].at \in Over
  <2>1. conn'[u].producer = conn[u].producer
    BY <1>5
  <2>2. CASE Shut(w, q)
    BY <1>4, <2>1, <2>2
  <2>3. CASE Served(u, q)
    <3>1. entry[Own(u)] = q /\ Live(u) /\ q # 0
      BY <2>3, Sides DEF Served
    <3>2. entry'[Own(u)] = q
      BY <3>1, Sides DEF Typed, Registers
    <3>3. CASE u # t
      BY <2>1, <3>1, <3>2, <3>3 DEF Live
    <3>4. CASE u = t
      BY <1>3, <1>5, <2>1, <3>1, <3>2, <3>4
    <3> QED BY <3>3, <3>4
  <2> QED BY <1>5, <2>2, <2>3
<1>6. Queues(ws, {})'
  <2>1. ASSUME NEW q \in Objects, NEW u \in Conns, InQueue(ws', q, Main(u))
        PROVE  conn'[u].at \in LockWaits
    <3>1. CASE u = t
      BY <1>3, <2>1, <3>1
    <3>2. CASE u # t
      BY <1>3, <2>1, <3>2, TaskNames DEF Good, Queues
    <3> QED BY <3>1, <3>2
  <2>2. ASSUME NEW q \in Objects, NEW u \in Conns, InQueue(ws', q, Producer(u))
        PROVE  /\ conn'[u].producer \in {"enter", "reenter"}
               /\ \/ conn'[u].at \notin Over \cup {"off"} /\ entry'[Own(u)] = q
                  \/ \E x \in Conns : ws'[q].owner = Main(x) /\ conn'[x].at \in Over
    <3>1. conn[u].producer \in {"enter", "reenter"} /\ (Served(u, q) \/ Shut(w, q))
      BY <1>3, <2>2, TaskNames DEF Good, Queues
    <3> QED BY <1>5, <3>1
  <2>3. ASSUME NEW q \in Objects, NEW u \in PlantConns,
               conn'[u].at = "forward", InQueue(ws', q, Main(u))
        PROVE  \/ entry'["clients"] = q
               \/ \E x \in Conns : ws'[q].owner = Main(x) /\ conn'[x].at \in Over
    <3>0. u \in Conns /\ q # 0
      BY Sides DEF Conns
    <3>1. entry["clients"] = q => entry'["clients"] = q
      BY <3>0, Sides DEF Typed, Registers
    <3>2. CASE u = t
      BY <1>3, <2>3, <3>1, <3>2
    <3>3. CASE u # t
      <4>1. InQueue(w, q, Main(u)) /\ conn[u].at = "forward"
        BY <1>3, <2>3, <3>0, <3>3, TaskNames
      <4> QED BY <1>4, <3>1, <4>1 DEF Good, Queues
    <3> QED BY <3>2, <3>3
  <2> QED BY <1>3, <2>1, <2>2, <2>3 DEF Queues, Shut, Served, Live, InQueue, Once, Own
<1>7. ASSUME NEW u \in Conns, conn'[u].at \in HoldsOwn
      PROVE  /\ entry'[Own(u)] = entry[Own(u)] /\ entry[Own(u)] \in Objects
             /\ w[entry[Own(u)]].owner = Main(u)
             /\ conn'[u].at = "send" => w[entry[Own(u)]].pending = conn'[u].text
  <2>1. CASE u = t
    BY <1>7, <2>1, Sides DEF HoldsOwn, Over, Typed
  <2>2. CASE u # t
    <3>1. entry[Own(u)] # 0
      BY <1>7, <2>2 DEF Registered, Live, HoldsOwn, Over
    <3> QED BY <1>7, <2>2, <3>1, Sides DEF Typed, Registers, Good, Owners, Texts
  <2> QED BY <2>1, <2>2
<1>8. Owners(ws, {})'
  BY <1>3, <1>7 DEF Owners, Own
<1>9. Texts(ws, {})'
  BY <1>3, <1>7 DEF Texts, Own, HoldsOwn
<1>10. Waiters(ws)'
  <2>1. \A q \in Objects : \A u : Member(ws', q, u) => Member(w, q, u)
    BY <1>3 DEF Member
  <2>2. ASSUME NEW q \in Objects, NEW u \in Conns, Member(ws', q, u)
        PROVE  /\ conn'[u].producer = "condition"
               /\ \/ conn'[u].at \notin Over \cup {"off"} /\ entry'[Own(u)] = q
                  \/ \E x \in Conns : ws'[q].owner = Main(x) /\ conn'[x].at \in Over
    <3>1. conn[u].producer = "condition" /\ (Served(u, q) \/ Shut(w, q))
      BY <2>1, <2>2 DEF Good, Waiters
    <3> QED BY <1>5, <3>1
  <2>3. \A q, m \in Objects, u \in Conns : Member(ws', q, u) /\ Member(ws', m, u) => q = m
    BY <2>1 DEF Good, Waiters
  <2> QED BY <1>3, <2>2, <2>3 DEF Waiters, Shut, Served, Live, Member, Alone, Own
<1> QED BY <1>1, <1>2, <1>6, <1>8, <1>9, <1>10 DEF Sound, Good

----------------------------------------------------------------------------
(* The operators on ws, in the middle of a step.                           *)

LEMMA TakenGood ==
  ASSUME Registered, NEW w \in WSs, NEW X, Good(w, X), NEW o \in Objects, NEW k \in Tasks,
         w[o].owner = None
  PROVE  Good(Taken(w, o, k), X) /\ Taken(w, o, k) \in WSs /\ Taken(w, o, k)[o].owner = k
<1> DEFINE v == Taken(w, o, k)
<1>1. /\ v \in WSs
      /\ \A q \in Objects : q # o => v[q] = w[q]
      /\ v[o].owner = k /\ v[o].queue = w[o].queue /\ v[o].waiting = w[o].waiting
      /\ v[o].notified = w[o].notified
  BY TakenFields
<1> HIDE DEF v
<1>2. Loose(w, o, X)
  BY TaskNames DEF Loose
<1>3. /\ \A j : InQueue(v, o, j) => InQueue(w, o, j)
      /\ \A u : Member(v, o, u) => Member(w, o, u)
      /\ Once(v, o) /\ Alone(v, o)
  BY <1>1 DEF InQueue, Member, Once, Alone, Good, Queues, Waiters
<1>4. Good(v, X)
  BY <1>1, <1>2, <1>3, Kept
<1> QED BY <1>1, <1>4 DEF v

LEMMA ReleasedGood ==
  ASSUME Registered, NEW w \in WSs, NEW X, Good(w, X), NEW o \in Objects, Loose(w, o, X)
  PROVE  Good(Released(w, o), X)
<1> DEFINE v == Released(w, o)
<1>1. /\ v \in WSs
      /\ \A q \in Objects : q # o => v[q] = w[q]
      /\ v[o].queue = w[o].queue /\ v[o].waiting = w[o].waiting
      /\ v[o].notified = w[o].notified
  BY ReleasedFields
<1> HIDE DEF v
<1>2. /\ \A j : InQueue(v, o, j) => InQueue(w, o, j)
      /\ \A u : Member(v, o, u) => Member(w, o, u)
      /\ Once(v, o) /\ Alone(v, o)
  BY <1>1 DEF InQueue, Member, Once, Alone, Good, Queues, Waiters
<1>3. Good(v, X)
  BY <1>1, <1>2, Kept
<1> QED BY <1>3 DEF v

LEMMA NotifiedGood ==
  ASSUME Registered, NEW w \in WSs, NEW X, Good(w, X), NEW o \in Objects, Loose(w, o, X)
  PROVE  /\ Good(Notified(w, o), X) /\ Notified(w, o)[o].owner = w[o].owner
         /\ Loose(Notified(w, o), o, X)
         /\ \A q \in Objects : q # o => Notified(w, o)[q] = w[q]
<1> DEFINE v == Notified(w, o)
<1>1. /\ v \in WSs
      /\ \A q \in Objects : q # o => v[q] = w[q]
      /\ v[o].owner = w[o].owner /\ v[o].queue = w[o].queue
      /\ \A t : Member(v, o, t) => Member(w, o, t)
      /\ Alone(w, o) => Alone(v, o)
  BY NotifiedFields
<1> HIDE DEF v
<1>2. /\ \A j : InQueue(v, o, j) => InQueue(w, o, j)
      /\ Once(v, o) /\ Alone(v, o)
  BY <1>1 DEF InQueue, Once, Good, Queues, Waiters
<1>3. Good(v, X) /\ Loose(v, o, X)
  BY <1>1, <1>2, Kept DEF Loose
<1> QED BY <1>1, <1>3 DEF v

\* Only the message of object o changes, which nobody else is about to send.
LEMMA MessageGood ==
  ASSUME Registered, Typed, NEW w \in WSs, NEW X, Good(w, X), NEW o \in Objects,
         \A u \in Conns \ X : conn[u].at = "send" => entry[Own(u)] # o,
         NEW v, \A q \in Objects : q # o => v[q] = w[q],
         v[o].owner = w[o].owner, v[o].queue = w[o].queue, v[o].waiting = w[o].waiting,
         v[o].notified = w[o].notified
  PROVE  Good(v, X)
<1>1. \A q \in Objects :
        /\ v[q].owner = w[q].owner /\ v[q].queue = w[q].queue
        /\ v[q].waiting = w[q].waiting /\ v[q].notified = w[q].notified
  OBVIOUS
<1>2. \A q \in Objects :
        /\ \A k : InQueue(v, q, k) <=> InQueue(w, q, k)
        /\ \A u : Member(v, q, u) <=> Member(w, q, u)
        /\ Once(w, q) => Once(v, q)
        /\ Alone(w, q) => Alone(v, q)
        /\ Shut(w, q) <=> Shut(v, q)
  BY <1>1 DEF InQueue, Member, Once, Alone, Shut
<1>3. Queues(v, X) /\ Waiters(v)
  BY <1>2 DEF Good, Queues, Waiters
<1>4. ASSUME NEW u \in Conns, conn[u].at \in HoldsOwn PROVE entry[Own(u)] \in Objects
  BY <1>4, Sides, EntryTyped DEF Registered, Live, HoldsOwn, Over
<1>5. Owners(v, X)
  BY <1>1, <1>4 DEF Good, Owners
<1>6. Texts(v, X)
  BY <1>4 DEF Good, Texts, HoldsOwn
<1> QED BY <1>3, <1>5, <1>6 DEF Good

LEMMA LooseQuiet ==
  ASSUME NEW w, NEW X, Good(w, X), NEW o, Loose(w, o, X)
  PROVE  \A u \in Conns \ X : conn[u].at = "send" => entry[Own(u)] # o
BY DEF Good, Owners, Loose, HoldsOwn

LEMMA WrittenGood ==
  ASSUME Registered, Typed, NEW w \in WSs, NEW X, Good(w, X), NEW o \in Objects, Loose(w, o, X)
  PROVE  /\ Good(Written(w, o), X) /\ Loose(Written(w, o), o, X)
         /\ \A q \in Objects : q # o => Written(w, o)[q] = w[q]
<1> DEFINE v == Written(w, o)
<1>1. /\ v \in WSs
      /\ \A q \in Objects : q # o => v[q] = w[q]
      /\ v[o].owner = w[o].owner /\ v[o].queue = w[o].queue
      /\ v[o].waiting = w[o].waiting /\ v[o].notified = w[o].notified
  BY WrittenFields
<1> HIDE DEF v
<1>2. Good(v, X) /\ Loose(v, o, X)
  BY <1>1, MessageGood, LooseQuiet DEF Loose
<1> QED BY <1>1, <1>2 DEF v

LEMMA EmptiedGood ==
  ASSUME Registered, Typed, NEW w \in WSs, NEW X, Good(w, X), NEW o \in Objects,
         \A u \in Conns \ X : conn[u].at = "send" => entry[Own(u)] # o
  PROVE  Good(Emptied(w, o), X) /\ \A q \in Objects : Emptied(w, o)[q].owner = w[q].owner
<1> DEFINE v == Emptied(w, o)
<1>1. /\ v \in WSs
      /\ \A q \in Objects : q # o => v[q] = w[q]
      /\ v[o].owner = w[o].owner /\ v[o].queue = w[o].queue
      /\ v[o].waiting = w[o].waiting /\ v[o].notified = w[o].notified
  BY EmptiedFields
<1> HIDE DEF v
<1>2. Good(v, X)
  BY <1>1, MessageGood
<1> QED BY <1>1, <1>2 DEF v

LEMMA PutGood ==
  ASSUME Registered, Typed, NEW w \in WSs, NEW X, Good(w, X), NEW o \in Objects, Loose(w, o, X)
  PROVE  /\ Good(Put(w, o), X) /\ Put(w, o) \in WSs
         /\ \A q \in Objects : q # o => Put(w, o)[q] = w[q]
<1> DEFINE x == Written(w, o)
           y == Notified(x, o)
<1>1. x \in WSs /\ y \in WSs /\ Put(w, o) \in WSs
  BY MutatorsTyped
<1>2. Good(x, X) /\ Loose(x, o, X) /\ \A q \in Objects : q # o => x[q] = w[q]
  BY WrittenGood
<1>3. Good(y, X) /\ Loose(y, o, X) /\ \A q \in Objects : q # o => y[q] = x[q]
  BY <1>1, <1>2, NotifiedGood
<1>4. Good(Released(y, o), X) /\ \A q \in Objects : q # o => Released(y, o)[q] = y[q]
  BY <1>1, <1>3, ReleasedGood, ReleasedFields
<1> QED BY <1>1, <1>2, <1>3, <1>4 DEF Put

----------------------------------------------------------------------------
(* The rest of a step of the coroutine of t, from value w of ws.           *)

\* The coroutine of t runs and holds its own lock.
Mid(t, w) ==
  /\ w \in WSs /\ Good(w, {t}) /\ Live(t) /\ conn[t].producer # "begin"
  /\ entry[Own(t)] \in Objects /\ w[entry[Own(t)]].owner = Main(t)

LEMMA MidFacts ==
  ASSUME Typed, Registered, NEW t \in Conns, NEW w, Mid(t, w)
  PROVE  Loose(w, entry[Own(t)], {t})
BY TaskNames DEF Mid, Loose, Live

LEMMA Served1 ==
  Registered => \A t, u \in Conns : Live(t) /\ Live(u) /\ Own(u) = Own(t) => u = t
BY DEF Registered

LEMMA SuspendSound ==
  ASSUME Typed, Typed', Registered, Labels, NEW t \in Conns, NEW w \in WSs, Good(w, {t}), Live(t),
         NEW x, NEW at, Suspend(t, x, at),
         \/ x = w
         \/ \E o \in Objects :
              /\ x = Queued(w, o, Main(t)) /\ at \in LockWaits
              /\ t \in PlantConns /\ at = "forward" => entry["clients"] = o,
         at \in Over \/ entry[Own(t)] # 0, t \in PlantConns => at \notin Over,
         at \notin {"off", "send"}, Fits(t, at, conn[t].producer),
         at \in HoldsOwn => w[entry[Own(t)]].owner = Main(t),
         \/ conn[t].producer \notin {"enter", "reenter", "condition"}
         \/ at \in Over => w[entry[Own(t)]].owner = Main(t)
  PROVE  Sound'
<1>1. /\ conn' = [conn EXCEPT ![t].at = at] /\ ws' = x /\ UNCHANGED entry
      /\ conn' \in Connections
  BY DEF Suspend, Typed
<1>2. /\ conn'[t].at = at /\ conn'[t].producer = conn[t].producer
      /\ \A u \in Conns : u # t => conn'[u] = conn[u]
  BY <1>1 DEF Typed, Connections
<1>3. Ends(t, w)
  BY <1>1, <1>2 DEF Ends
<1>4. conn[t].at \notin Over /\ \A u \in Conns : Own(u) = Own(t) /\ Live(u) => u = t
  BY Served1 DEF Live
<1> QED BY <1>1, <1>2, <1>3, <1>4, Moves

LEMMA CrashSound ==
  ASSUME Typed, Typed', Registered, Labels, NEW t \in Conns \ PlantConns, NEW w \in WSs,
         Good(w, {t}), Live(t), Crash(t, w), conn[t].producer # "begin",
         \/ conn[t].producer \notin {"enter", "reenter", "condition"}
         \/ w[entry[Own(t)]].owner = Main(t)
  PROVE  Sound'
<1>1. "crashed" \in Over /\ Fits(t, "crashed", conn[t].producer)
  BY DEF Over, Fits
<1> QED BY <1>1, SuspendSound DEF Crash, HoldsOwn

LEMMA JoinProducerSound ==
  ASSUME Typed, Typed', Registered, Labels, NEW t \in Conns, NEW w, Mid(t, w),
         NEW at \in {"join", "leave", "bye"}, JoinProducer(t, w, at)
  PROVE  Sound'
<1> DEFINE o == entry[Own(t)]
           y == Notified(w, o)
           x == Released(y, o)
           pc == IF conn[t].producer = "done" THEN "ended" ELSE conn[t].producer
<1>1. /\ w \in WSs /\ o \in Objects /\ Loose(w, o, {t}) /\ Good(w, {t}) /\ Live(t)
      /\ conn[t].producer # "begin" /\ w[o].owner = Main(t)
  BY MidFacts DEF Mid
<1>2. Holding(t, w)
  BY <1>1, Sides, TaskNames DEF Holding, Locked
<1>3. ws' = x /\ UNCHANGED entry /\ conn' = [conn EXCEPT ![t].at = at, ![t].producer = pc]
  BY <1>2 DEF JoinProducer, Typed, Connections
<1>4. y \in WSs /\ Good(y, {t}) /\ Loose(y, o, {t})
  BY <1>1, NotifiedGood, MutatorsTyped
<1>5. x \in WSs /\ Good(x, {t})
  BY <1>1, <1>4, ReleasedGood, MutatorsTyped
<1> HIDE DEF x, y, pc
<1>6. /\ conn'[t].at = at /\ conn'[t].producer = pc
      /\ \A u \in Conns : u # t => conn'[u] = conn[u]
  BY <1>3 DEF Typed, Connections
<1>7. Fits(t, at, pc)
  BY <1>1 DEF pc, Fits, Labels, Live
<1>8. Ends(t, x)
  BY <1>3 DEF Ends
<1>9. conn[t].at \notin Over /\ \A u \in Conns : Own(u) = Own(t) /\ Live(u) => u = t
  BY <1>1, Served1 DEF Live
<1>10. \/ conn[t].producer \notin {"enter", "reenter", "condition"}
       \/ pc = conn[t].producer
  BY DEF pc
<1>11. at \notin Over \cup HoldsOwn \cup {"off", "send"} /\ entry'[Own(t)] # 0
  BY <1>1, <1>3, Sides DEF Over, HoldsOwn
<1>12. conn' \in Connections
  BY DEF Typed
<1> HIDE DEF o
<1> QED BY <1>1, <1>3, <1>5, <1>6, <1>7, <1>8, <1>9, <1>10, <1>11, <1>12, Moves

LEMMA LoopSound ==
  ASSUME Typed, Typed', Registered, Labels, NEW t \in Conns, NEW w \in WSs, Good(w, {t}), Live(t),
         entry[Own(t)] # 0, conn[t].producer \in {"none", "done"}, Loop(t, w)
  PROVE  Sound'
<1>1. /\ ws' = w /\ UNCHANGED entry /\ conn' \in Connections
      /\ conn' = [conn EXCEPT ![t] = [at |-> "wait", producer |-> "begin", text |-> 0]]
  BY DEF Loop, Typed
<1>2. /\ conn'[t].at = "wait" /\ conn'[t].producer = "begin"
      /\ \A u \in Conns : u # t => conn'[u] = conn[u]
  BY <1>1 DEF Typed, Connections
<1>3. Ends(t, w)
  BY <1>1 DEF Ends
<1>4. conn[t].at \notin Over /\ \A u \in Conns : Own(u) = Own(t) /\ Live(u) => u = t
  BY Served1 DEF Live
<1>5. Fits(t, "wait", "begin") /\ "wait" \notin Over \cup HoldsOwn \cup {"off", "send"}
  BY DEF Fits, Over, HoldsOwn
<1> QED BY <1>1, <1>2, <1>3, <1>4, <1>5, Moves

LEMMA FlushSound ==
  ASSUME Typed, Typed', Registered, Labels, NEW t \in Conns, NEW w, Mid(t, w),
         conn[t].producer = "done", Flush(t, w)
  PROVE  Sound'
<1> DEFINE o == entry[Own(t)]
<1>1. /\ w \in WSs /\ o \in Objects /\ Loose(w, o, {t}) /\ Good(w, {t}) /\ Live(t)
      /\ w[o].owner = Main(t) /\ o # 0 /\ Locked(w, o)
  BY MidFacts, Sides, TaskNames DEF Mid, Locked
<1>2. CASE w[o].new
  <2>1. /\ ws' = w /\ UNCHANGED entry /\ conn' \in Connections
        /\ conn' = [conn EXCEPT ![t].at = "send", ![t].text = w[o].pending]
    BY <1>1, <1>2 DEF Flush, Typed
  <2>2. /\ conn'[t].at = "send" /\ conn'[t].producer = conn[t].producer
        /\ conn'[t].text = w[o].pending
        /\ \A u \in Conns : u # t => conn'[u] = conn[u]
    BY <2>1 DEF Typed, Connections
  <2>3. Ends(t, w)
    BY <2>1 DEF Ends
  <2>4. conn[t].at \notin Over /\ \A u \in Conns : Own(u) = Own(t) /\ Live(u) => u = t
    BY <1>1, Served1 DEF Live
  <2>5. Fits(t, "send", conn[t].producer) /\ "send" \notin Over \cup {"off"}
    BY DEF Fits, Over
  <2> QED BY <1>1, <2>1, <2>2, <2>3, <2>4, <2>5, Moves
<1>3. CASE ~w[o].new
  <2>1. Loop(t, Released(w, o))
    BY <1>1, <1>3 DEF Flush
  <2>2. Good(Released(w, o), {t}) /\ Released(w, o) \in WSs
    BY <1>1, ReleasedGood, MutatorsTyped
  <2> HIDE DEF o
  <2> QED BY <1>1, <2>1, <2>2, LoopSound DEF o
<1> QED BY <1>2, <1>3

\* A message is written to the other side, whose lock the coroutine holds as well.
LEMMA ForwardSound ==
  ASSUME Typed, Typed', Registered, Labels, NEW t \in Conns, NEW w, Mid(t, w),
         entry[Other(t)] \in Objects, w[entry[Other(t)]].owner = Main(t), Forward(t, w)
  PROVE  Sound'
<1> DEFINE p == entry[Other(t)]
<1>1. /\ w \in WSs /\ Good(w, {t}) /\ p # 0 /\ Locked(w, p) /\ p # entry[Own(t)]
      /\ Loose(w, p, {t}) /\ Live(t)
  BY Sides, TaskNames DEF Mid, Locked, Registered, Loose, Live, Objects
<1>2. Join(t, Put(w, p))
  BY <1>1 DEF Forward, Send
<1>3. /\ Good(Put(w, p), {t}) /\ Put(w, p) \in WSs
      /\ \A q \in Objects : q # p => Put(w, p)[q] = w[q]
  BY <1>1, PutGood
<1> HIDE DEF p
<1>4. Mid(t, Put(w, p))
  BY <1>1, <1>3 DEF Mid
<1> QED BY <1>2, <1>4, JoinProducerSound DEF Join

LEMMA RelayedSound ==
  ASSUME Typed, Typed', Registered, Labels, NEW t \in Conns, NEW w, Mid(t, w), Relayed(t, w)
  PROVE  Sound'
<1> DEFINE p == entry[Other(t)]
<1>1. /\ w \in WSs /\ Good(w, {t}) /\ Live(t) /\ entry[Own(t)] # 0 /\ conn[t].producer # "begin"
      /\ w[entry[Own(t)]].owner = Main(t) /\ p # entry[Own(t)]
  BY Sides DEF Mid, Registered, Objects
<1>2. p # 0 => p \in Objects
  BY EntryTyped, Sides
<1>3. t \in PlantConns => p = entry["clients"]
  BY Sides
<1>4. CASE p # 0 /\ Free(w, p)
  <2> DEFINE v == Taken(w, p, Main(t))
  <2>1. Forward(t, v)
    BY <1>4 DEF Relayed, Acquire
  <2>2. w[p].owner = None
    BY <1>4 DEF Free, Locked
  <2>3. Good(v, {t}) /\ v \in WSs /\ v[p].owner = Main(t) /\ \A q \in Objects : q # p => v[q] = w[q]
    BY <1>1, <1>2, <1>4, <2>2, TakenGood, TakenFields, TaskNames
  <2>4. Mid(t, v)
    BY <1>1, <1>4, <2>3 DEF Mid
  <2> HIDE DEF v
  <2> QED BY <1>2, <1>4, <2>1, <2>3, <2>4, ForwardSound
<1>5. CASE p # 0 /\ ~Free(w, p)
  <2>1. Suspend(t, Queued(w, p, Main(t)), "forward")
    BY <1>5 DEF Relayed, Acquire
  <2>2. /\ Fits(t, "forward", conn[t].producer) /\ "forward" \in LockWaits
        /\ "forward" \notin Over \cup {"off", "send"}
    BY <1>1 DEF Fits, LockWaits, Over, Labels, Live
  <2> HIDE DEF p
  <2> QED BY <1>1, <1>2, <1>3, <1>5, <2>1, <2>2, SuspendSound
<1>6. CASE p = 0
  <2> DEFINE at == IF t \in PlantConns THEN "noclient" ELSE "lost"
  <2>1. Suspend(t, w, at)
    BY <1>6 DEF Relayed
  <2>2. Fits(t, at, conn[t].producer) /\ at \notin Over \cup {"off", "send"}
    BY <1>1 DEF Fits, Over, Labels, Live
  <2> HIDE DEF p, at
  <2> QED BY <1>1, <2>1, <2>2, SuspendSound
<1> QED BY <1>4, <1>5, <1>6

\* No plant waits to forward a message to the object of t.
Unasked(t) == t \notin PlantConns => \A u \in PlantConns : conn[u].at # "forward"

\* A coroutine that unregisters leaves its lock locked, or nobody waits for it but to find
\* the register empty.
LEMMA UnregisterSound ==
  ASSUME Typed, Typed', Registered, Labels, NEW t \in Conns, NEW w \in WSs, Good(w, {t}), Live(t),
         conn[t].producer # "begin", entry[Own(t)] \in Objects,
         \/ w[entry[Own(t)]].owner = Main(t)
         \/ conn[t].producer \in {"none", "done"} /\ Unasked(t),
         Unregister(t, w)
  PROVE  Sound'
<1> DEFINE o == entry[Own(t)]
           v == Emptied(w, o)
<1>1. o \in Objects /\ o # 0 /\ t \in Conns /\ Own(t) \in Registers
  BY Sides
<1>2. /\ entry' = [entry EXCEPT ![Own(t)] = 0] /\ ws' = v
      /\ conn' = [conn EXCEPT ![t].at = "end"]
  BY <1>1 DEF Unregister
<1>3. /\ conn'[t].at = "end" /\ conn'[t].producer = conn[t].producer
      /\ \A u \in Conns : u # t => conn'[u] = conn[u]
  BY <1>2 DEF Typed, Connections
<1>4. /\ entry'[Own(t)] = 0
      /\ \A u \in Conns : Own(u) # Own(t) => entry'[Own(u)] = entry[Own(u)]
  BY <1>2, Sides DEF Typed
<1>5. \A u \in Conns : Live(u) /\ Own(u) = Own(t) => u = t
  BY Served1
<1>6. \A u \in Conns \ {t} : conn[u].at = "send" => entry[Own(u)] # o
  <2> SUFFICES ASSUME NEW u \in Conns \ {t}, conn[u].at = "send" PROVE entry[Own(u)] # o
    OBVIOUS
  <2>1. Live(u)
    BY DEF Live, Over
  <2>2. Own(u) # Own(t)
    BY <1>5, <2>1
  <2> QED BY <1>1, <2>2, Sides DEF Registered
<1>7. Good(v, {t}) /\ \A q \in Objects : v[q].owner = w[q].owner
  BY <1>1, <1>6, EmptiedGood
<1> HIDE DEF v
<1>8. \A u \in Conns : Live(u)' <=> Live(u) /\ u # t
  BY <1>3 DEF Live, Over
<1>9. Registered'
  <2>1. entry'["plants"] \in PlantConns \cup {0} /\ entry'["clients"] \in ClientConns \cup {0}
    BY <1>2, Sides DEF Registered, Typed, Registers
  <2>2. \A u, x \in Conns : Own(u) = Own(x) /\ Live(u)' /\ Live(x)' => u = x
    BY <1>8, Served1
  <2>3. \A u \in Conns : Live(u)' /\ conn'[u].at # "refused" => entry'[Own(u)] # 0
    BY <1>3, <1>4, <1>5, <1>8 DEF Registered
  <2>4. entry'["plants"] # 0 => \E u \in PlantConns : Live(u)'
    <3> SUFFICES ASSUME entry'["plants"] # 0 PROVE \E u \in PlantConns : Live(u)'
      OBVIOUS
    <3>1. t \notin PlantConns /\ entry["plants"] # 0
      BY <1>2, <1>4, Sides DEF Typed, Registers
    <3>2. PICK u \in PlantConns : Live(u)
      BY <3>1 DEF Registered
    <3> QED BY <1>8, <3>1, <3>2 DEF Conns
  <2> QED BY <2>1, <2>2, <2>3, <2>4 DEF Registered, Own
<1>10. Labels'
  <2>1. Fits(t, "end", conn[t].producer)
    BY DEF Fits, Over
  <2> QED BY <1>3, <2>1 DEF Labels, Fits
<1>11. ASSUME NEW q \in Objects, Shut(v, q)
       PROVE  \E u \in Conns : v[q].owner = Main(u) /\ conn'[u].at \in Over
  <2>1. PICK u \in Conns : v[q].owner = Main(u) /\ conn[u].at \in Over
    BY <1>11 DEF Shut
  <2> QED BY <1>3, <2>1 DEF Live
<1>12. w[o].owner = Main(t) => \E u \in Conns : v[o].owner = Main(u) /\ conn'[u].at \in Over
  BY <1>1, <1>3, <1>7 DEF Over
<1>13. ASSUME NEW q \in Objects, NEW u \in Conns, Served(u, q) \/ Shut(v, q),
              conn[u].producer \in {"enter", "reenter", "condition"}
       PROVE  /\ conn'[u].producer = conn[u].producer
              /\ \/ conn'[u].at \notin Over \cup {"off"} /\ entry'[Own(u)] = q
                 \/ \E x \in Conns : v[q].owner = Main(x) /\ conn'[x].at \in Over
  <2>1. conn'[u].producer = conn[u].producer
    BY <1>3
  <2>2. CASE Shut(v, q)
    BY <1>11, <2>1, <2>2
  <2>3. CASE Served(u, q) /\ u = t
    BY <1>12, <1>13, <2>1, <2>3 DEF Served
  <2>4. CASE Served(u, q) /\ u # t
    <3>1. Live(u) /\ entry[Own(u)] = q
      BY <2>4 DEF Served
    <3>2. entry'[Own(u)] = q
      BY <1>4, <1>5, <2>4, <3>1
    <3> QED BY <1>3, <2>1, <2>4, <3>1, <3>2 DEF Live
  <2> QED BY <1>13, <2>2, <2>3, <2>4
<1>14. Queues(ws, {})'
  <2>1. ASSUME NEW q \in Objects, NEW u \in Conns, InQueue(v, q, Main(u))
        PROVE  conn'[u].at \in LockWaits
    BY <1>3, <1>7, <2>1 DEF Good, Queues
  <2>2. ASSUME NEW q \in Objects, NEW u \in Conns, InQueue(v, q, Producer(u))
        PROVE  /\ conn'[u].producer \in {"enter", "reenter"}
               /\ \/ conn'[u].at \notin Over \cup {"off"} /\ entry'[Own(u)] = q
                  \/ \E x \in Conns : v[q].owner = Main(x) /\ conn'[x].at \in Over
    <3>1. conn[u].producer \in {"enter", "reenter"} /\ (Served(u, q) \/ Shut(v, q))
      BY <1>7, <2>2 DEF Good, Queues
    <3> QED BY <1>13, <3>1
  <2>3. ASSUME NEW q \in Objects, NEW u \in PlantConns,
               conn'[u].at = "forward", InQueue(v, q, Main(u))
        PROVE  \/ entry'["clients"] = q
               \/ \E x \in Conns : v[q].owner = Main(x) /\ conn'[x].at \in Over
    <3>1. u \in Conns /\ u # t /\ conn[u].at = "forward"
      BY <1>3, <2>3 DEF Conns
    <3>2. entry["clients"] = q \/ Shut(v, q)
      BY <1>7, <2>3, <3>1 DEF Good, Queues
    <3>3. CASE Shut(v, q)
      BY <1>11, <3>3
    <3>4. CASE entry["clients"] = q /\ t \in PlantConns
      BY <1>2, <3>4, Sides DEF Typed, Registers
    <3>5. CASE entry["clients"] = q /\ t \notin PlantConns
      <4>1. q = o /\ ~Unasked(t)
        BY <3>1, <3>5, Sides DEF Unasked
      <4> QED BY <1>12, <4>1
    <3> QED BY <3>2, <3>3, <3>4, <3>5
  <2>4. /\ \A q \in Objects : Once(v, q)
        /\ \A q, m \in Objects, k \in Tasks : InQueue(v, q, k) /\ InQueue(v, m, k) => q = m
    BY <1>7 DEF Good, Queues
  <2> QED BY <1>2, <2>1, <2>2, <2>3, <2>4 DEF Queues, Shut, Served, Live, InQueue, Once, Own
<1>15. ASSUME NEW u \in Conns, conn'[u].at \in HoldsOwn
       PROVE  /\ entry'[Own(u)] = entry[Own(u)] /\ entry[Own(u)] \in Objects /\ u # t
              /\ v[entry[Own(u)]].owner = Main(u)
              /\ conn'[u].at = "send" => v[entry[Own(u)]].pending = conn'[u].text
  <2>1. u # t /\ conn'[u] = conn[u] /\ Live(u)
    BY <1>3, <1>15 DEF HoldsOwn, Live, Over
  <2>2. Own(u) # Own(t)
    BY <1>5, <2>1
  <2>3. entry'[Own(u)] = entry[Own(u)] /\ entry[Own(u)] # 0
    BY <1>4, <1>15, <2>1, <2>2 DEF Registered, HoldsOwn
  <2> QED BY <1>7, <1>15, <2>1, <2>3, EntryTyped, Sides DEF Good, Owners, Texts
<1>16. Owners(ws, {})'
  BY <1>2, <1>15 DEF Owners, Own
<1>17. Texts(ws, {})'
  BY <1>2, <1>15 DEF Texts, Own, HoldsOwn
<1>18. Waiters(ws)'
  <2>1. ASSUME NEW q \in Objects, NEW u \in Conns, Member(v, q, u)
        PROVE  /\ conn'[u].producer = "condition"
               /\ \/ conn'[u].at \notin Over \cup {"off"} /\ entry'[Own(u)] = q
                  \/ \E x \in Conns : v[q].owner = Main(x) /\ conn'[x].at \in Over
    <3>1. conn[u].producer = "condition" /\ (Served(u, q) \/ Shut(v, q))
      BY <1>7, <2>1 DEF Good, Waiters
    <3> QED BY <1>13, <3>1
  <2>2. /\ \A q \in Objects : Alone(v, q)
        /\ \A q, m \in Objects, u \in Conns : Member(v, q, u) /\ Member(v, m, u) => q = m
    BY <1>7 DEF Good, Waiters
  <2> QED BY <1>2, <2>1, <2>2 DEF Waiters, Shut, Served, Live, Member, Alone, Own
<1> QED BY <1>9, <1>10, <1>14, <1>16, <1>17, <1>18 DEF Sound, Good

\* A client that takes the lock of the plant finds no plant that forwards a message: it would
\* hold this lock.
LEMMA PlantFree ==
  ASSUME Registered, NEW t \in Conns \ PlantConns, NEW w, Good(w, {t}) \/ Good(w, {}),
         entry["plants"] # 0, w[entry["plants"]].owner = None
  PROVE  Unasked(t)
<1> SUFFICES ASSUME NEW u \in PlantConns, conn[u].at = "forward" PROVE FALSE
  BY DEF Unasked
<1>1. u \in Conns \ {t} /\ Own(u) = "plants"
  BY Sides DEF Conns
<1>2. w[entry["plants"]].owner = Main(u)
  BY <1>1 DEF Good, Owners, HoldsOwn
<1> QED BY <1>1, <1>2, TaskNames

LEMMA GoodbyeSound ==
  ASSUME Typed, Typed', Registered, Labels, NEW t \in Conns \ PlantConns, NEW w \in WSs,
         Good(w, {t}), Live(t), conn[t].producer \in {"none", "done"}, entry[Own(t)] \in Objects,
         entry["plants"] \in Objects, w[entry["plants"]].owner = Main(t), Unasked(t),
         Goodbye(t, w)
  PROVE  Sound'
<1> DEFINE p == entry["plants"]
<1>1. p # 0 /\ Locked(w, p) /\ Loose(w, p, {t})
  BY Sides, TaskNames DEF Locked, Loose, Live
<1>2. Unregister(t, Put(w, p))
  BY <1>1 DEF Goodbye, Send
<1>3. Good(Put(w, p), {t}) /\ Put(w, p) \in WSs
  BY <1>1, PutGood
<1> HIDE DEF p
<1> QED BY <1>2, <1>3, UnregisterSound

LEMMA LeaveSound ==
  ASSUME Typed, Typed', Registered, Labels, NEW t \in Conns, NEW w \in WSs, Good(w, {t}), Live(t),
         conn[t].producer \in {"none", "done"}, entry[Own(t)] \in Objects, Leave(t, w)
  PROVE  Sound'
<1> DEFINE p == entry["plants"]
<1>1. p # 0 => p \in Objects
  BY EntryTyped DEF Registers
<1>2. CASE t \in PlantConns
  BY <1>2, UnregisterSound DEF Leave, Unasked
<1>3. CASE t \notin PlantConns /\ p = 0
  BY <1>3, CrashSound DEF Leave
<1>4. CASE t \notin PlantConns /\ p # 0 /\ Free(w, p)
  <2> DEFINE v == Taken(w, p, Main(t))
  <2>1. Goodbye(t, v)
    BY <1>4 DEF Leave, Acquire
  <2>2. w[p].owner = None
    BY <1>4 DEF Free, Locked
  <2>3. Good(v, {t}) /\ v \in WSs /\ v[p].owner = Main(t)
    BY <1>1, <1>4, <2>2, TakenGood, TaskNames
  <2>4. Unasked(t)
    BY <1>4, <2>2, PlantFree
  <2> HIDE DEF v
  <2> QED BY <1>1, <1>4, <2>1, <2>3, <2>4, GoodbyeSound
<1>5. CASE t \notin PlantConns /\ p # 0 /\ ~Free(w, p)
  <2>1. Suspend(t, Queued(w, p, Main(t)), "goodbye")
    BY <1>5 DEF Leave, Acquire
  <2>2. /\ Fits(t, "goodbye", conn[t].producer) /\ "goodbye" \in LockWaits
        /\ "goodbye" \notin Over \cup HoldsOwn \cup {"off", "send"}
    BY <1>5 DEF Fits, LockWaits, Over, HoldsOwn
  <2>3. entry[Own(t)] # 0
    BY Sides
  <2> HIDE DEF p
  <2> QED BY <1>1, <1>5, <2>1, <2>2, <2>3, SuspendSound
<1> QED BY <1>2, <1>3, <1>4, <1>5

LEMMA ClosingSound ==
  ASSUME Typed, Typed', Registered, Labels, NEW t \in Conns, NEW w \in WSs, Good(w, {t}), Live(t),
         entry[Own(t)] \in Objects, conn[t].producer = "none" \/ Mid(t, w), Closing(t, w)
  PROVE  Sound'
<1>1. CASE conn[t].producer = "none"
  BY <1>1, LeaveSound DEF Closing
<1>2. CASE conn[t].producer # "none"
  BY <1>2, JoinProducerSound DEF Closing
<1> QED BY <1>1, <1>2

LEMMA ClosedSound ==
  ASSUME Typed, Typed', Registered, Labels, NEW t \in Conns, NEW w \in WSs, Good(w, {t}), Live(t),
         conn[t].producer = "none" \/ Mid(t, w), Closed(t, w)
  PROVE  Sound'
<1> DEFINE o == entry[Own(t)]
<1>1. o # 0 => o \in Objects
  BY EntryTyped, Sides
<1>2. CASE o = 0
  <2>1. t \notin PlantConns
    BY <1>2 DEF Registered, Labels, Fits
  <2>2. conn[t].producer = "none"
    BY <1>2, Sides DEF Mid
  <2> QED BY <1>2, <2>1, <2>2, CrashSound DEF Closed
<1>3. CASE o # 0 /\ Locked(w, o)
  BY <1>1, <1>3, ClosingSound DEF Closed
<1>4. CASE o # 0 /\ ~Locked(w, o) /\ Free(w, o)
  <2> DEFINE v == Taken(w, o, Main(t))
  <2>1. Closing(t, v)
    BY <1>4 DEF Closed, Acquire
  <2>2. w[o].owner = None
    BY <1>4 DEF Locked
  <2>3. Good(v, {t}) /\ v \in WSs
    BY <1>1, <1>4, <2>2, TakenGood, TaskNames
  <2>4. conn[t].producer = "none"
    BY <2>2, TaskNames DEF Mid
  <2> HIDE DEF v
  <2> QED BY <1>1, <1>4, <2>1, <2>3, <2>4, ClosingSound
<1>5. CASE o # 0 /\ ~Locked(w, o) /\ ~Free(w, o)
  <2>1. Suspend(t, Queued(w, o, Main(t)), "closing")
    BY <1>5 DEF Closed, Acquire
  <2>2. conn[t].producer = "none"
    BY <1>5, TaskNames DEF Mid, Locked
  <2>3. t \notin PlantConns
    BY <2>2 DEF Labels, Fits, Live
  <2>4. /\ Fits(t, "closing", conn[t].producer) /\ "closing" \in LockWaits
        /\ "closing" \notin Over \cup HoldsOwn \cup {"off", "send"}
    BY <2>2, <2>3 DEF Fits, LockWaits, Over, HoldsOwn
  <2>5. \E q \in Objects : Queued(w, o, Main(t)) = Queued(w, q, Main(t))
    BY <1>1, <1>5
  <2> HIDE DEF o
  <2> QED BY <1>1, <1>5, <2>1, <2>2, <2>3, <2>4, SuspendSound DEF o
<1> QED BY <1>2, <1>3, <1>4, <1>5

LEMMA TopSound ==
  ASSUME Typed, Typed', Registered, Labels, NEW t \in Conns, NEW w, Mid(t, w),
         NEW got \in {"closed", "answer", "other", "timeout", "nothing"},
         got = "nothing" => conn[t].producer = "done", Top(t, w, got)
  PROVE  Sound'
<1>1. w \in WSs /\ Good(w, {t}) /\ Live(t) /\ entry[Own(t)] # 0
  BY Sides DEF Mid
<1>2. CASE got = "closed"
  BY <1>1, <1>2, ClosedSound DEF Top
<1>3. CASE got = "answer"
  <2>1. Suspend(t, w, "reply")
    BY <1>3 DEF Top
  <2>2. Fits(t, "reply", conn[t].producer) /\ "reply" \notin Over \cup {"off", "send"}
    BY DEF Fits, Over, Labels, Live, Mid
  <2> QED BY <1>1, <2>1, <2>2, SuspendSound DEF Mid
<1>4. CASE got = "other"
  BY <1>4, RelayedSound DEF Top
<1>5. CASE got = "timeout"
  BY <1>5, JoinProducerSound DEF Top
<1>6. CASE got = "nothing"
  BY <1>6, FlushSound DEF Top
<1> QED BY <1>2, <1>3, <1>4, <1>5, <1>6

----------------------------------------------------------------------------
(* The actions.                                                            *)

LEMMA StartGood ==
  ASSUME Sound, NEW t \in Conns, conn[t].at \notin LockWaits
  PROVE  Good(ws, {t})
<1>1. \A o \in Objects, u \in Conns : InQueue(ws, o, Main(u)) => u # t
  BY DEF Sound, Good, Queues
<1> QED BY <1>1 DEF Sound, Good, Queues, Owners, Texts

LEMMA DequeuedGood ==
  ASSUME Typed, Sound, NEW o \in Objects, NEW k \in Tasks, Granted(o, k)
  PROVE  LET w == Dequeued(o, k) IN
         /\ w \in WSs /\ Good(w, {}) /\ w[o].owner = k /\ ws[o].owner = None
         /\ InQueue(ws, o, k) /\ \A q \in Objects : ~InQueue(w, q, k)
         /\ \A q \in Objects : q # o => w[q] = ws[q]
<1> DEFINE w == Dequeued(o, k)
<1>1. /\ w \in WSs
      /\ \A q \in Objects : q # o => w[q] = ws[q]
      /\ w[o].owner = k /\ ws[o].owner = None
      /\ w[o].waiting = ws[o].waiting /\ w[o].notified = ws[o].notified
      /\ InQueue(ws, o, k)
      /\ \A j : InQueue(w, o, j) => InQueue(ws, o, j)
      /\ Once(ws, o) => Once(w, o) /\ ~InQueue(w, o, k)
  BY DequeuedFields DEF Typed
<1> HIDE DEF w
<1>2. Once(ws, o) /\ Alone(ws, o) /\ Good(ws, {}) /\ Registered
  BY DEF Sound, Good, Queues, Waiters
<1>3. Alone(w, o) /\ \A u : Member(w, o, u) => Member(ws, o, u)
  BY <1>1, <1>2 DEF Alone, Member
<1>4. Loose(ws, o, {})
  BY <1>1, TaskNames DEF Loose
<1>5. Good(w, {})
  BY <1>1, <1>2, <1>3, <1>4, Kept
<1>6. ASSUME NEW q \in Objects PROVE ~InQueue(w, q, k)
  <2>1. CASE q = o
    BY <1>1, <1>2, <2>1
  <2>2. CASE q # o
    BY <1>1, <1>2, <2>2 DEF InQueue, Good, Queues
  <2> QED BY <2>1, <2>2
<1> QED BY <1>1, <1>5, <1>6 DEF w

\* The object of a coroutine that is not refused.
LEMMA OwnTyped ==
  ASSUME Typed, Registered, NEW t \in Conns, Live(t), conn[t].at # "refused"
  PROVE  entry[Own(t)] \in Objects
BY EntryTyped, Sides DEF Registered

LEMMA ConnectSound ==
  ASSUME Typed, Typed', Sound, NEW t \in Conns, Connect(t)
  PROVE  Sound'
<1> DEFINE r == Own(t)
           plant == entry["plants"]
<1>1. /\ conn[t].at = "off" /\ \A u \in Conns : Own(u) = r => ~Live(u)
      /\ Registered /\ Labels /\ ws \in WSs
  BY DEF Connect, Sound, Typed
<1>2. Good(ws, {t}) /\ conn[t].producer = "none"
  BY <1>1, StartGood DEF LockWaits, Labels, Fits
<1>3. /\ \A u \in Conns : Own(u) = Own(t) /\ Live(u) => u = t
      /\ conn[t].at \notin Over /\ conn' \in Connections
  BY <1>1 DEF Over, Typed
<1>4. CASE t \in ClientConns /\ plant = 0
  <2>1. conn' = [conn EXCEPT ![t].at = "refused"] /\ ws' = ws /\ UNCHANGED entry
    BY <1>4 DEF Connect, Suspend
  <2>2. /\ conn'[t].at = "refused" /\ conn'[t].producer = "none"
        /\ \A u \in Conns : u # t => conn'[u] = conn[u]
    BY <1>2, <2>1 DEF Typed, Connections
  <2>3. Ends(t, ws)
    BY <2>1 DEF Ends
  <2>4. Fits(t, "refused", "none") /\ "refused" \notin HoldsOwn \cup {"off", "send"}
    BY <1>4, Sides DEF Fits, Over, HoldsOwn
  <2>5. t \notin PlantConns
    BY <1>4, Sides
  <2> QED BY <1>1, <1>2, <1>3, <2>1, <2>2, <2>3, <2>4, <2>5, Moves
<1>5. CASE ~(t \in ClientConns /\ plant = 0)
  <2>1. /\ entry' = [entry EXCEPT ![r] = IF @ = 0 THEN t ELSE @]
        /\ IF t \in PlantConns
           THEN conn' = [conn EXCEPT ![t].at = "wait", ![t].producer = "begin"] /\ ws' = ws
           ELSE IF Free(ws, plant)
           THEN conn' = [conn EXCEPT ![t].at = "greet"] /\ ws' = Put(ws, plant)
           ELSE conn' = [conn EXCEPT ![t].at = "hello"] /\ ws' = Queued(ws, plant, Main(t))
    BY <1>5 DEF Connect
  <2>2. \/ UNCHANGED entry
        \/ entry[Own(t)] = 0 /\ entry' = [entry EXCEPT ![Own(t)] = t]
    BY <2>1 DEF Typed
  <2>3. entry'[Own(t)] # 0
    BY <2>1, Sides DEF Typed
  <2>4. CASE t \in PlantConns
    <3>1. conn' = [conn EXCEPT ![t].at = "wait", ![t].producer = "begin"] /\ ws' = ws
      BY <2>1, <2>4
    <3>2. /\ conn'[t].at = "wait" /\ conn'[t].producer = "begin"
          /\ \A u \in Conns : u # t => conn'[u] = conn[u]
      BY <3>1 DEF Typed, Connections
    <3>3. Ends(t, ws)
      BY <3>1 DEF Ends
    <3>4. Fits(t, "wait", "begin") /\ "wait" \notin Over \cup HoldsOwn \cup {"off", "send"}
      BY DEF Fits, Over, HoldsOwn
    <3> QED BY <1>1, <1>2, <1>3, <2>2, <2>3, <3>2, <3>3, <3>4, Moves
  <2>5. CASE t \notin PlantConns
    <3>1. plant \in Objects
      BY <1>5, <2>5, EntryTyped, Sides DEF Registers
    <3>2. CASE Free(ws, plant)
      <4> DEFINE v == Put(ws, plant)
      <4>1. conn' = [conn EXCEPT ![t].at = "greet"] /\ ws' = v
        BY <2>1, <2>5, <3>2
      <4>2. /\ conn'[t].at = "greet" /\ conn'[t].producer = "none"
            /\ \A u \in Conns : u # t => conn'[u] = conn[u]
        BY <1>2, <4>1 DEF Typed, Connections
      <4>3. Loose(ws, plant, {t})
        BY <3>2, TaskNames DEF Free, Locked, Loose
      <4>4. Good(v, {t}) /\ v \in WSs
        BY <1>1, <1>2, <3>1, <4>3, PutGood
      <4> HIDE DEF v
      <4>5. Ends(t, v)
        BY <4>1 DEF Ends
      <4>6. Fits(t, "greet", "none") /\ "greet" \notin Over \cup HoldsOwn \cup {"off", "send"}
        BY <2>5 DEF Fits, Over, HoldsOwn
      <4> QED BY <1>1, <1>2, <1>3, <2>2, <2>3, <2>5, <4>2, <4>4, <4>5, <4>6, Moves
    <3>3. CASE ~Free(ws, plant)
      <4>1. conn' = [conn EXCEPT ![t].at = "hello"] /\ ws' = Queued(ws, plant, Main(t))
        BY <2>1, <2>5, <3>3
      <4>2. /\ conn'[t].at = "hello" /\ conn'[t].producer = "none"
            /\ \A u \in Conns : u # t => conn'[u] = conn[u]
        BY <1>2, <4>1 DEF Typed, Connections
      <4>3. Ends(t, ws)
        BY <3>1, <4>1, <4>2 DEF Ends, LockWaits
      <4>4. Fits(t, "hello", "none") /\ "hello" \notin Over \cup HoldsOwn \cup {"off", "send"}
        BY <2>5 DEF Fits, Over, HoldsOwn
      <4> QED BY <1>1, <1>2, <1>3, <2>2, <2>3, <2>5, <4>2, <4>3, <4>4, Moves
    <3> QED BY <3>2, <3>3
  <2> QED BY <2>4, <2>5
<1> QED BY <1>4, <1>5

LEMMA WaitSound ==
  ASSUME Typed, Typed', Sound, NEW t \in Conns, Wait(t)
  PROVE  Sound'
<1> DEFINE o == entry[Own(t)]
<1>1. /\ conn[t].at = "wait" /\ conn[t].producer # "begin" /\ Live(t)
      /\ Registered /\ Labels /\ ws \in WSs
  BY DEF Wait, Sound, Typed, Live, Over
<1>2. Good(ws, {t}) /\ o \in Objects /\ o # 0
  BY <1>1, StartGood, OwnTyped, Sides DEF LockWaits
<1>3. PICK got \in Outcomes(t) : Acquire(t, ws, o, got, LAMBDA u, w : Top(u, w, got))
  BY <1>2 DEF Wait
<1>4. /\ got \in {"closed", "answer", "other", "timeout", "nothing"}
      /\ got = "nothing" => conn[t].producer = "done"
  BY DEF Outcomes
<1>5. CASE Free(ws, o)
  <2> DEFINE v == Taken(ws, o, Main(t))
  <2>1. Top(t, v, got)
    BY <1>3, <1>5 DEF Acquire
  <2>2. ws[o].owner = None
    BY <1>5 DEF Free, Locked
  <2>3. Good(v, {t}) /\ v \in WSs /\ v[o].owner = Main(t)
    BY <1>1, <1>2, <2>2, TakenGood, TaskNames
  <2> HIDE DEF v
  <2>4. Mid(t, v)
    BY <1>1, <1>2, <2>3 DEF Mid
  <2> QED BY <1>1, <1>4, <2>1, <2>4, TopSound
<1>6. CASE ~Free(ws, o)
  <2>1. Suspend(t, Queued(ws, o, Main(t)), got)
    BY <1>3, <1>6 DEF Acquire
  <2>2. /\ Fits(t, got, conn[t].producer) /\ got \in LockWaits /\ got # "forward"
        /\ got \notin Over \cup HoldsOwn \cup {"off", "send"}
    BY <1>1, <1>4 DEF Fits, LockWaits, Over, HoldsOwn, Labels
  <2>3. \E q \in Objects : Queued(ws, o, Main(t)) = Queued(ws, q, Main(t))
    BY <1>2
  <2> QED BY <1>1, <1>2, <2>1, <2>2, <2>3, SuspendSound
<1> QED BY <1>5, <1>6

LEMMA ResumeSound ==
  ASSUME Typed, Typed', Sound, NEW t \in Conns, Resume(t), ~Strays(Main(t))
  PROVE  Sound'
<1>1. PICK o \in Objects :
        LET w == Dequeued(o, Main(t)) IN
        /\ Granted(o, Main(t))
        /\ \/ conn[t].at = "hello" /\ Send(t, w, "plants", LAMBDA u, w1 : Suspend(u, w1, "greet"))
           \/ conn[t].at = "forward" /\ Forward(t, w)
           \/ conn[t].at = "again" /\ Flush(t, w)
           \/ conn[t].at = "closing" /\ Closing(t, w)
           \/ conn[t].at = "goodbye" /\ Goodbye(t, w)
           \/ conn[t].at \in {"closed", "answer", "other", "timeout", "nothing"} /\ Top(t, w, conn[t].at)
  BY DEF Resume
<1> DEFINE w == Dequeued(o, Main(t))
<1>2. /\ w \in WSs /\ Good(w, {}) /\ w[o].owner = Main(t) /\ ws[o].owner = None
      /\ InQueue(ws, o, Main(t)) /\ \A q \in Objects : ~InQueue(w, q, Main(t))
      /\ \A q \in Objects : q # o => w[q] = ws[q]
  BY <1>1, DequeuedGood, TaskNames
<1>3. conn[t].at = "hello" => Send(t, w, "plants", LAMBDA u, w1 : Suspend(u, w1, "greet"))
  BY <1>1
<1>4. /\ conn[t].at = "forward" => Forward(t, w)
      /\ conn[t].at = "again" => Flush(t, w)
      /\ conn[t].at = "closing" => Closing(t, w)
      /\ conn[t].at = "goodbye" => Goodbye(t, w)
      /\ conn[t].at \notin {"hello", "forward", "again", "closing", "goodbye"} =>
           Top(t, w, conn[t].at)
  BY <1>1
<1> HIDE DEF w
<1>5. Registered /\ Labels /\ Good(ws, {}) /\ conn[t].at \in LockWaits
  BY <1>2 DEF Sound, Good, Queues
<1>6. Live(t) /\ conn[t].producer # "begin" /\ conn[t].at # "refused"
  BY <1>5 DEF Live, LockWaits, Over, Labels, Fits
<1>7. Good(w, {t})
  BY <1>2 DEF Good, Queues, Owners, Texts
<1>8. /\ entry[Asked(Main(t))] \in {0, o} /\ Main(t)[2] = "main" /\ Main(t)[1] = t
  BY <1>1 DEF Strays, Main
<1>9. entry[Own(t)] \in Objects
  BY <1>5, <1>6, OwnTyped
<1>10. CASE conn[t].at \notin {"hello", "goodbye", "forward"}
  <2>1. entry[Own(t)] = o
    BY <1>8, <1>9, <1>10, Sides DEF Asked
  <2>2. Mid(t, w)
    BY <1>2, <1>6, <1>7, <1>9, <2>1 DEF Mid
  <2>3. CASE conn[t].at = "again"
    BY <1>4, <1>5, <2>2, <2>3, FlushSound DEF Labels, Fits
  <2>4. CASE conn[t].at = "closing"
    BY <1>2, <1>4, <1>5, <1>6, <1>7, <1>9, <2>2, <2>4, ClosingSound
  <2>5. CASE conn[t].at \notin {"again", "closing"}
    <3>1. conn[t].at \in {"closed", "answer", "other", "timeout", "nothing"}
      BY <1>5, <1>10, <2>5 DEF LockWaits
    <3>2. conn[t].at = "nothing" => conn[t].producer = "done"
      BY <1>5 DEF Labels, Fits
    <3> QED BY <1>4, <1>5, <2>2, <3>1, <3>2, TopSound
  <2> QED BY <2>3, <2>4, <2>5
<1>11. CASE conn[t].at \in {"hello", "goodbye"}
  <2>1. entry["plants"] \in {0, o}
    BY <1>8, <1>11 DEF Asked
  <2>2. t \notin PlantConns /\ conn[t].producer \in {"none", "done"}
    BY <1>5, <1>11 DEF Labels, Fits
  <2>3. CASE entry["plants"] = 0
    <3>1. Crash(t, w)
      BY <1>3, <1>4, <1>11, <2>3 DEF Goodbye, Send
    <3> QED BY <1>2, <1>5, <1>6, <1>7, <2>2, <3>1, CrashSound
  <2>4. CASE entry["plants"] = o
    <3>1. /\ o # 0 /\ Locked(w, o) /\ Loose(w, o, {t}) /\ Unasked(t)
      BY <1>2, <1>5, <1>6, <2>2, <2>4, Sides, TaskNames, PlantFree DEF Locked, Loose, Live
    <3>2. CASE conn[t].at = "hello"
      <4>1. Suspend(t, Put(w, o), "greet")
        BY <1>3, <2>4, <3>1, <3>2 DEF Send
      <4>2. Good(Put(w, o), {t}) /\ Put(w, o) \in WSs
        BY <1>2, <1>5, <1>7, <3>1, PutGood
      <4>3. /\ Fits(t, "greet", conn[t].producer)
            /\ "greet" \notin Over \cup HoldsOwn \cup {"off", "send"}
        BY <1>5, <2>2, <3>2 DEF Fits, Over, HoldsOwn, Labels
      <4>4. entry[Own(t)] # 0
        BY <1>9, Sides
      <4> QED BY <1>5, <1>6, <2>2, <4>1, <4>2, <4>3, <4>4, SuspendSound
    <3>3. CASE conn[t].at = "goodbye"
      BY <1>2, <1>4, <1>5, <1>6, <1>7, <1>9, <2>2, <2>4, <3>1, <3>3, GoodbyeSound
    <3> QED BY <1>11, <3>2, <3>3
  <2> QED BY <2>1, <2>3, <2>4
<1>12. CASE conn[t].at = "forward"
  <2>1. entry[Other(t)] \in {0, o}
    BY <1>8, <1>12 DEF Asked
  <2>2. ws[entry[Own(t)]].owner = Main(t)
    BY <1>5, <1>12 DEF Good, Owners, HoldsOwn
  <2>3. w[entry[Own(t)]].owner = Main(t)
    BY <1>2, <1>9, <2>2
  <2>4. Mid(t, w)
    BY <1>2, <1>6, <1>7, <1>9, <2>3 DEF Mid
  <2>5. CASE entry[Other(t)] = o
    BY <1>2, <1>4, <1>5, <1>12, <2>4, <2>5, ForwardSound
  <2>6. CASE entry[Other(t)] = 0
    <3>1. t \notin PlantConns
      <4> SUFFICES ASSUME t \in PlantConns PROVE FALSE
        OBVIOUS
      <4>1. entry["clients"] = 0 /\ ~Shut(ws, o)
        BY <1>2, <2>6, Sides, TaskNames DEF Shut
      <4> QED BY <1>2, <1>5, <1>12, <4>1, Sides DEF Good, Queues
    <3>2. Crash(t, w)
      BY <1>4, <1>12, <2>6 DEF Forward, Send
    <3> QED BY <1>2, <1>5, <1>6, <1>7, <2>3, <3>1, <3>2, CrashSound
  <2> QED BY <2>1, <2>5, <2>6
<1> QED BY <1>10, <1>11, <1>12

LEMMA SendDoneSound ==
  ASSUME Typed, Typed', Sound, NEW t \in Conns, SendDone(t)
  PROVE  Sound'
<1> DEFINE o == entry[Own(t)]
<1>1. /\ conn[t].at \in Sending /\ Live(t) /\ conn[t].producer # "begin"
      /\ Registered /\ Labels /\ ws \in WSs /\ Good(ws, {})
  BY DEF SendDone, Sound, Typed, Live, Over, Sending, Labels, Fits
<1>2. Good(ws, {t})
  BY <1>1, StartGood DEF LockWaits, Sending
<1>3. conn[t].at # "refused" => o \in Objects /\ o # 0
  BY <1>1, OwnTyped, Sides
<1>4. conn[t].at \in HoldsOwn => Mid(t, ws)
  BY <1>1, <1>2, <1>3 DEF Mid, Good, Owners, HoldsOwn
<1>5. conn[t].at \in {"refused", "greet"} => conn[t].producer = "none" /\ t \notin PlantConns
  BY <1>1 DEF Labels, Fits
<1>6. CASE Closed(t, ws)
  <2>1. conn[t].producer = "none" \/ Mid(t, ws)
    BY <1>1, <1>4, <1>5 DEF Sending, HoldsOwn
  <2> QED BY <1>1, <1>2, <1>6, <2>1, ClosedSound
<1>7. CASE Sent(t) /\ conn[t].at = "refused"
  <2>1. Suspend(t, ws, "end")
    BY <1>7 DEF Sent
  <2>2. Fits(t, "end", conn[t].producer) /\ "end" \in Over
        /\ "end" \notin HoldsOwn \cup {"off", "send"}
    BY <1>5, <1>7 DEF Fits, Over, HoldsOwn
  <2> QED BY <1>1, <1>2, <1>5, <1>7, <2>1, <2>2, SuspendSound
<1>8. CASE Sent(t) /\ conn[t].at = "greet"
  BY <1>1, <1>2, <1>3, <1>5, <1>8, LoopSound DEF Sent
<1>9. CASE Sent(t) /\ conn[t].at = "reply"
  BY <1>1, <1>4, <1>9, RelayedSound DEF Sent, HoldsOwn
<1>10. CASE Sent(t) /\ conn[t].at = "noclient"
  BY <1>1, <1>4, <1>10, JoinProducerSound DEF Sent, HoldsOwn, Join
<1>11. CASE Sent(t) /\ conn[t].at = "lost"
  <2>1. Unregister(t, ws) /\ Mid(t, ws)
    BY <1>4, <1>11 DEF Sent, HoldsOwn
  <2> QED BY <1>1, <2>1, UnregisterSound DEF Mid
<1>12. CASE Sent(t) /\ conn[t].at = "send"
  <2>1. Mid(t, ws) /\ conn[t].producer = "done" /\ Loose(ws, o, {t}) /\ o \in Objects
    BY <1>1, <1>3, <1>4, <1>12, MidFacts DEF HoldsOwn, Labels, Fits
  <2>2. Holding(t, ws)
    BY <1>3, <1>12, <2>1, TaskNames DEF Holding, Locked, Mid
  <2> DEFINE v == Emptied(ws, o)
  <2>3. Loop(t, Released(v, o))
    BY <1>12, <2>2 DEF Sent
  <2>4. Good(v, {t}) /\ v \in WSs /\ Loose(v, o, {t})
    BY <1>1, <1>2, <2>1, EmptiedGood, LooseQuiet, MutatorsTyped DEF Loose
  <2>5. Good(Released(v, o), {t}) /\ Released(v, o) \in WSs
    BY <1>1, <2>1, <2>4, ReleasedGood, MutatorsTyped
  <2> HIDE DEF v, o
  <2> QED BY <1>1, <1>3, <1>12, <2>1, <2>3, <2>5, LoopSound DEF o
<1> QED BY <1>1, <1>6, <1>7, <1>8, <1>9, <1>10, <1>11, <1>12 DEF SendDone, Sending

LEMMA JoinedSound ==
  ASSUME Typed, Typed', Sound, NEW t \in Conns, Joined(t)
  PROVE  Sound'
<1> DEFINE o == entry[Own(t)]
<1>1. /\ conn[t].at \in {"join", "leave", "bye"} /\ Live(t) /\ conn[t].producer = "done"
      /\ Registered /\ Labels /\ ws \in WSs
  BY DEF Joined, Sound, Typed, Live, Over
<1>2. Good(ws, {t}) /\ o \in Objects /\ o # 0
  BY <1>1, StartGood, OwnTyped, Sides DEF LockWaits
<1>3. CASE Leave(t, ws)
  BY <1>1, <1>2, <1>3, LeaveSound
<1>4. CASE Acquire(t, ws, o, "again", Flush) /\ Free(ws, o)
  <2> DEFINE v == Taken(ws, o, Main(t))
  <2>1. Flush(t, v)
    BY <1>4 DEF Acquire
  <2>2. ws[o].owner = None
    BY <1>4 DEF Free, Locked
  <2>3. Good(v, {t}) /\ v \in WSs /\ v[o].owner = Main(t)
    BY <1>1, <1>2, <2>2, TakenGood, TaskNames
  <2> HIDE DEF v
  <2>4. Mid(t, v)
    BY <1>1, <1>2, <2>3 DEF Mid
  <2> QED BY <1>1, <2>1, <2>4, FlushSound
<1>5. CASE Acquire(t, ws, o, "again", Flush) /\ ~Free(ws, o)
  <2>1. Suspend(t, Queued(ws, o, Main(t)), "again")
    BY <1>5 DEF Acquire
  <2>2. /\ Fits(t, "again", conn[t].producer) /\ "again" \in LockWaits
        /\ "again" \notin Over \cup HoldsOwn \cup {"off", "send"}
    BY <1>1 DEF Fits, LockWaits, Over, HoldsOwn, Labels
  <2>3. \E q \in Objects : Queued(ws, o, Main(t)) = Queued(ws, q, Main(t))
    BY <1>2
  <2> QED BY <1>1, <1>2, <2>1, <2>2, <2>3, SuspendSound
<1> QED BY <1>2, <1>3, <1>4, <1>5 DEF Joined

\* The end of a step of the producer task of t, that waits nowhere in w.
LEMMA ProducerAtSound ==
  ASSUME Typed, Typed', Registered, Labels, NEW t \in Conns, NEW w \in WSs, Good(w, {}),
         NEW o \in Objects, NEW x, NEW pc, ProducerAt(t, x, pc),
         \A q \in Objects : ~Member(w, q, t) /\ ~InQueue(w, q, Producer(t)),
         conn[t].producer \notin {"none", "done"}, pc \notin {"none", "begin"},
         \/ x = w
         \/ /\ x = Queued(w, o, Producer(t)) /\ pc \in {"enter", "reenter"}
            /\ Served(t, o) \/ Shut(w, o)
         \/ /\ x = Sleep(w, o, t) /\ pc = "condition" /\ Served(t, o) /\ Loose(w, o, {})
            /\ \A u \in Conns : ~Member(w, o, u)
  PROVE  Sound'
<1>1. /\ conn' = [conn EXCEPT ![t].producer = pc] /\ ws' = x /\ UNCHANGED entry
      /\ ws' \in WSs
  BY DEF ProducerAt, Typed
<1>2. /\ conn'[t].producer = pc
      /\ \A u \in Conns : /\ conn'[u].at = conn[u].at /\ conn'[u].text = conn[u].text
                          /\ u # t => conn'[u].producer = conn[u].producer
  BY <1>1 DEF Typed, Connections
<1>3. Registered'
  BY <1>1, <1>2 DEF Registered, Live, Own
<1>4. Labels'
  <2>1. Fits(t, conn[t].at, pc)
    BY DEF Fits, Labels
  <2> QED BY <1>2, <2>1 DEF Labels, Fits
<1>5. \A q \in Objects :
        /\ Once(w, q) /\ Alone(w, q)
        /\ \A u \in Conns : InQueue(w, q, Main(u)) => conn[u].at \in LockWaits
        /\ \A u \in Conns : InQueue(w, q, Producer(u)) =>
             u # t /\ conn[u].producer \in {"enter", "reenter"} /\ (Served(u, q) \/ Shut(w, q))
        /\ \A u \in Conns : Member(w, q, u) =>
             u # t /\ conn[u].producer = "condition" /\ (Served(u, q) \/ Shut(w, q))
  BY DEF Good, Queues, Waiters
<1>6. \A q \in Objects :
           /\ ws'[q].owner = w[q].owner \/ (ws'[q].owner = None /\ Loose(w, q, {}))
           /\ ws'[q].pending = w[q].pending
           /\ Once(ws', q) /\ Alone(ws', q)
           /\ \A k : InQueue(ws', q, k) =>
                \/ InQueue(w, q, k)
                \/ /\ k = Producer(t) /\ q = o /\ pc \in {"enter", "reenter"}
                   /\ Served(t, q) \/ Shut(w, q)
           /\ \A u : Member(ws', q, u) =>
                Member(w, q, u) \/ (u = t /\ q = o /\ pc = "condition" /\ Served(t, q))
  <2>1. CASE x = w
    BY <1>1, <1>5, <2>1
  <2>2. CASE /\ x = Queued(w, o, Producer(t)) /\ pc \in {"enter", "reenter"}
             /\ Served(t, o) \/ Shut(w, o)
    <3>1. /\ \A q \in Objects : q # o => ws'[q] = w[q]
          /\ ws'[o].owner = w[o].owner /\ ws'[o].pending = w[o].pending
          /\ ws'[o].waiting = w[o].waiting /\ ws'[o].notified = w[o].notified
          /\ \A j : InQueue(ws', o, j) <=> j = Producer(t) \/ InQueue(w, o, j)
          /\ Once(ws', o)
      BY <1>1, <1>5, <2>2, QueuedFields, TaskNames
    <3>2. \A q \in Objects : q # o =>
            /\ \A j : InQueue(ws', q, j) => InQueue(w, q, j)
            /\ Once(ws', q) /\ Alone(ws', q)
            /\ \A u : Member(ws', q, u) => Member(w, q, u)
      BY <1>5, <3>1 DEF InQueue, Once, Alone, Member
    <3>3. Alone(ws', o) /\ \A u : Member(ws', o, u) => Member(w, o, u)
      BY <1>5, <3>1 DEF Alone, Member
    <3> QED BY <2>2, <3>1, <3>2, <3>3
  <2>3. CASE /\ x = Sleep(w, o, t) /\ pc = "condition" /\ Served(t, o) /\ Loose(w, o, {})
             /\ \A u \in Conns : ~Member(w, o, u)
    <3>1. /\ \A q \in Objects : q # o => ws'[q] = w[q]
          /\ ws'[o].owner = None /\ ws'[o].queue = w[o].queue /\ ws'[o].pending = w[o].pending
          /\ ws'[o].notified = w[o].notified /\ ws'[o].waiting = Append(w[o].waiting, t)
      BY <1>1, <2>3, SleepFields
    <3>2. \A q \in Objects : q # o =>
            /\ \A j : InQueue(ws', q, j) => InQueue(w, q, j)
            /\ Once(ws', q) /\ Alone(ws', q)
            /\ \A u : Member(ws', q, u) => Member(w, q, u)
      BY <1>5, <3>1 DEF InQueue, Once, Alone, Member
    <3>3. w[o].waiting = <<>> /\ w[o].notified = {}
      <4>1. w[o].waiting \in Seq(Conns) /\ w[o].notified \in SUBSET Conns
        BY DEF WSs, WS
      <4>2. w[o].notified = {}
        BY <2>3, <4>1 DEF Member
      <4>3. ASSUME NEW u \in Conns, w[o].waiting = <<u>> PROVE FALSE
        BY <2>3, <4>3 DEF Member
      <4> QED BY <1>5, <4>2, <4>3 DEF Alone
    <3>4. ws'[o].waiting = <<t>> /\ ws'[o].notified = {}
      BY <3>1, <3>3
    <3>5. Alone(ws', o) /\ \A u : Member(ws', o, u) => u = t
      BY <3>4 DEF Alone, Member
    <3>6. Once(ws', o) /\ \A j : InQueue(ws', o, j) => InQueue(w, o, j)
      BY <1>5, <3>1 DEF Once, InQueue
    <3> QED BY <2>3, <3>1, <3>2, <3>5, <3>6
  <2> QED BY <2>1, <2>2, <2>3
<1>7. ASSUME NEW q \in Objects, Shut(w, q)
      PROVE  \E u \in Conns : ws'[q].owner = Main(u) /\ conn'[u].at \in Over
  <2>1. PICK u \in Conns : w[q].owner = Main(u) /\ conn[u].at \in Over
    BY <1>7 DEF Shut
  <2> QED BY <1>2, <1>6, <2>1 DEF Loose
<1>8. \A q \in Objects, u \in Conns :
        Served(u, q) => conn'[u].at \notin Over \cup {"off"} /\ entry'[Own(u)] = q
  BY <1>1, <1>2 DEF Served, Live
<1>9. Queues(ws, {})'
  <2>1. ASSUME NEW q \in Objects, NEW m \in Objects, NEW k \in Tasks,
               InQueue(ws', q, k), InQueue(ws', m, k)
        PROVE  q = m
    BY <1>6, <2>1 DEF Good, Queues
  <2>2. ASSUME NEW q \in Objects, NEW u \in Conns, InQueue(ws', q, Main(u))
        PROVE  InQueue(w, q, Main(u)) /\ conn'[u].at \in LockWaits
    BY <1>2, <1>5, <1>6, <2>2, TaskNames
  <2>3. ASSUME NEW q \in Objects, NEW u \in Conns, InQueue(ws', q, Producer(u))
        PROVE  /\ conn'[u].producer \in {"enter", "reenter"}
               /\ \/ conn'[u].at \notin Over \cup {"off"} /\ entry'[Own(u)] = q
                  \/ \E z \in Conns : ws'[q].owner = Main(z) /\ conn'[z].at \in Over
    <3>1. conn'[u].producer \in {"enter", "reenter"} /\ (Served(u, q) \/ Shut(w, q))
      BY <1>2, <1>5, <1>6, <2>3, TaskNames
    <3> QED BY <1>7, <1>8, <3>1
  <2>4. ASSUME NEW q \in Objects, NEW u \in PlantConns,
               conn'[u].at = "forward", InQueue(ws', q, Main(u))
        PROVE  \/ entry'["clients"] = q
               \/ \E z \in Conns : ws'[q].owner = Main(z) /\ conn'[z].at \in Over
    <3>1. u \in Conns
      BY DEF Conns
    <3>2. entry["clients"] = q \/ Shut(w, q)
      BY <1>2, <2>2, <2>4, <3>1 DEF Good, Queues
    <3> QED BY <1>1, <1>7, <3>2
  <2> QED BY <1>6, <2>1, <2>2, <2>3, <2>4 DEF Queues, Shut, Served, Live, InQueue, Once, Own
<1>10. ASSUME NEW u \in Conns, conn'[u].at \in HoldsOwn
       PROVE  /\ ws'[entry'[Own(u)]].owner = Main(u)
              /\ conn'[u].at = "send" => ws'[entry'[Own(u)]].pending = conn'[u].text
  <2>1. entry[Own(u)] \in Objects
    BY <1>2, <1>10, OwnTyped DEF HoldsOwn, Live, Over
  <2>2. /\ w[entry[Own(u)]].owner = Main(u)
        /\ conn[u].at = "send" => w[entry[Own(u)]].pending = conn[u].text
    BY <1>2, <1>10 DEF Good, Owners, Texts
  <2> QED BY <1>1, <1>2, <1>6, <2>1, <2>2 DEF Loose
<1>11. Owners(ws, {})' /\ Texts(ws, {})'
  BY <1>10 DEF Owners, Texts, Own, HoldsOwn
<1>12. Waiters(ws)'
  <2>1. ASSUME NEW q \in Objects, NEW u \in Conns, Member(ws', q, u)
        PROVE  /\ conn'[u].producer = "condition"
               /\ \/ conn'[u].at \notin Over \cup {"off"} /\ entry'[Own(u)] = q
                  \/ \E z \in Conns : ws'[q].owner = Main(z) /\ conn'[z].at \in Over
    <3>1. conn'[u].producer = "condition" /\ (Served(u, q) \/ Shut(w, q))
      BY <1>2, <1>5, <1>6, <2>1
    <3> QED BY <1>7, <1>8, <3>1
  <2>2. ASSUME NEW q \in Objects, NEW m \in Objects, NEW u \in Conns,
               Member(ws', q, u), Member(ws', m, u)
        PROVE  q = m
    BY <1>6, <2>2 DEF Good, Waiters
  <2> QED BY <1>6, <2>1, <2>2 DEF Waiters, Shut, Served, Live, Member, Alone, Own
<1> QED BY <1>3, <1>4, <1>9, <1>11, <1>12 DEF Sound, Good

\* Nobody waits for the condition of an object whose lock is loose but the producer task of
\* the connection that is served with it.
LEMMA NoOther ==
  ASSUME Registered, NEW w, Good(w, {}), NEW t \in Conns, NEW o \in Objects, Served(t, o),
         w[o].owner = None \/ w[o].owner = Producer(t), conn[t].producer # "condition"
  PROVE  Loose(w, o, {}) /\ \A u \in Conns : ~Member(w, o, u)
<1>1. ~Shut(w, o) /\ Loose(w, o, {})
  BY TaskNames DEF Shut, Loose
<1>2. ASSUME NEW u \in Conns, Member(w, o, u) PROVE FALSE
  <2>1. conn[u].producer = "condition" /\ Served(u, o)
    BY <1>1, <1>2 DEF Good, Waiters
  <2>2. Own(u) = Own(t)
    BY <2>1, Sides DEF Served, Registered, Objects
  <2>3. u = t
    BY <2>1, <2>2, Served1 DEF Served
  <2> QED BY <2>1, <2>3
<1> QED BY <1>1, <1>2

\* A producer task that is in no queue, and waits for no condition.
LEMMA Absent ==
  ASSUME NEW w, NEW X, Good(w, X), NEW t \in Conns,
         conn[t].producer \notin {"enter", "reenter", "condition"}
  PROVE  \A q \in Objects : ~Member(w, q, t) /\ ~InQueue(w, q, Producer(t))
BY DEF Good, Queues, Waiters

LEMMA ForgottenGood ==
  ASSUME Registered, Typed, NEW w \in WSs, Good(w, {}), NEW o \in Objects, NEW t \in Conns,
         t \in w[o].notified, NEW v, v = Forgotten(w, o, t)
  PROVE  /\ Good(v, {}) /\ v \in WSs /\ v[o].owner = w[o].owner
         /\ \A q \in Objects : ~Member(v, q, t) /\ ~InQueue(v, q, Producer(t))
<1>1. /\ v \in WSs
      /\ \A q \in Objects : q # o => v[q] = w[q]
      /\ v[o].owner = w[o].owner /\ v[o].queue = w[o].queue /\ v[o].pending = w[o].pending
      /\ v[o].notified = w[o].notified \ {t} /\ v[o].waiting = w[o].waiting
  BY ForgottenFields
<1>2. \A q \in Objects :
        /\ v[q].owner = w[q].owner /\ v[q].queue = w[q].queue /\ v[q].pending = w[q].pending
        /\ v[q].waiting = w[q].waiting /\ v[q].notified \subseteq w[q].notified
  BY <1>1
<1>3. \A q \in Objects :
        /\ \A k : InQueue(v, q, k) <=> InQueue(w, q, k)
        /\ Once(w, q) => Once(v, q)
        /\ Shut(w, q) <=> Shut(v, q)
        /\ \A u : Member(v, q, u) => Member(w, q, u)
  BY <1>2 DEF InQueue, Once, Shut, Member
<1>4. \A q \in Objects : Alone(w, q) => Alone(v, q)
  BY <1>2 DEF Alone
<1>5. Queues(v, {}) /\ Waiters(v)
  BY <1>3, <1>4 DEF Good, Queues, Waiters
<1>6. ASSUME NEW u \in Conns, conn[u].at \in HoldsOwn PROVE entry[Own(u)] \in Objects
  BY <1>6, OwnTyped DEF Live, HoldsOwn, Over
<1>7. Owners(v, {}) /\ Texts(v, {})
  BY <1>2, <1>6 DEF Good, Owners, Texts, HoldsOwn
<1>8. Member(w, o, t) /\ conn[t].producer = "condition"
  BY DEF Member, Good, Waiters
<1>9. ASSUME NEW q \in Objects PROVE ~Member(v, q, t) /\ ~InQueue(v, q, Producer(t))
  <2>1. ~InQueue(v, q, Producer(t))
    BY <1>3, <1>8 DEF Good, Queues
  <2>2. CASE q # o
    BY <1>3, <1>8, <2>1, <2>2 DEF Good, Waiters
  <2>3. CASE q = o
    <3>1. ~\E i \in DOMAIN w[o].waiting : w[o].waiting[i] = t
      BY DEF Good, Waiters, Alone
    <3> QED BY <1>1, <2>1, <2>3, <3>1 DEF Member
  <2> QED BY <2>2, <2>3
<1> QED BY <1>1, <1>5, <1>7, <1>9 DEF Good

LEMMA ProducerSound ==
  ASSUME Typed, Typed', Sound, NEW t \in Conns, ~Strays(Producer(t)),
         ProducerBegin(t) \/ ProducerNotified(t) \/ ProducerGranted(t) \/ ProducerEnded(t)
  PROVE  Sound'
<1> DEFINE p == entry[Own(t)]
<1>1. Registered /\ Labels /\ Good(ws, {}) /\ ws \in WSs
  BY DEF Sound, Typed
<1>2. CASE ProducerBegin(t)
  <2>1. conn[t].producer = "begin" /\ Live(t) /\ conn[t].at # "refused"
    BY <1>1, <1>2 DEF ProducerBegin, Labels, Fits, Live, Over
  <2>2. p \in Objects /\ p # 0 /\ Served(t, p)
    BY <1>1, <2>1, OwnTyped, Sides DEF Served
  <2>3. \A q \in Objects : ~Member(ws, q, t) /\ ~InQueue(ws, q, Producer(t))
    BY <1>1, <2>1, Absent
  <2>4. CASE Free(ws, p)
    <3>1. ProducerAt(t, Sleep(ws, p, t), "condition")
      BY <1>2, <2>2, <2>4 DEF ProducerBegin
    <3>2. Loose(ws, p, {}) /\ \A u \in Conns : ~Member(ws, p, u)
      BY <1>1, <2>1, <2>2, <2>4, NoOther DEF Free, Locked
    <3> HIDE DEF p
    <3> QED BY <1>1, <2>1, <2>2, <2>3, <3>1, <3>2, ProducerAtSound
  <2>5. CASE ~Free(ws, p)
    <3>1. ProducerAt(t, Queued(ws, p, Producer(t)), "enter")
      BY <1>2, <2>2, <2>5 DEF ProducerBegin
    <3> HIDE DEF p
    <3> QED BY <1>1, <2>1, <2>2, <2>3, <3>1, ProducerAtSound
  <2> QED BY <2>4, <2>5
<1>3. CASE ProducerNotified(t)
  <2>1. PICK o \in Objects :
          /\ t \in ws[o].notified
          /\ \/ ProducerAt(t, Forgotten(ws, o, t), "ended")
             \/ ProducerAt(t, Queued(Forgotten(ws, o, t), o, Producer(t)), "reenter")
    BY <1>3 DEF ProducerNotified, Forgotten
  <2> DEFINE w == Forgotten(ws, o, t)
  <2>2. ProducerAt(t, w, "ended") \/ ProducerAt(t, Queued(w, o, Producer(t)), "reenter")
    BY <2>1
  <2>3. /\ Good(w, {}) /\ w \in WSs /\ w[o].owner = ws[o].owner
        /\ \A q \in Objects : ~Member(w, q, t) /\ ~InQueue(w, q, Producer(t))
    BY <1>1, <2>1, ForgottenGood
  <2>4. conn[t].producer = "condition" /\ (Served(t, o) \/ Shut(ws, o))
    BY <1>1, <2>1 DEF Member, Good, Waiters
  <2> HIDE DEF w
  <2>5. Served(t, o) \/ Shut(w, o)
    BY <2>3, <2>4 DEF Shut
  <2> QED BY <1>1, <2>2, <2>3, <2>4, <2>5, ProducerAtSound
<1>4. CASE ProducerGranted(t)
  <2>1. PICK o \in Objects :
          LET w == Dequeued(o, Producer(t)) IN
          /\ Granted(o, Producer(t))
          /\ IF p = 0 \/ ~Locked(w, p) THEN ProducerAt(t, w, "ended")
             ELSE IF conn[t].producer = "enter" THEN ProducerAt(t, Sleep(w, p, t), "condition")
             ELSE ProducerAt(t, Released(w, p), "ended")
    BY <1>4 DEF ProducerGranted
  <2> DEFINE w == Dequeued(o, Producer(t))
  <2>2. /\ w \in WSs /\ Good(w, {}) /\ w[o].owner = Producer(t) /\ ws[o].owner = None
        /\ InQueue(ws, o, Producer(t)) /\ \A q \in Objects : ~InQueue(w, q, Producer(t))
    BY <2>1, DequeuedGood, TaskNames
  <2>3. \/ ProducerAt(t, w, "ended")
        \/ ProducerAt(t, Sleep(w, p, t), "condition")
        \/ ProducerAt(t, Released(w, p), "ended")
    BY <2>1
  <2>4. conn[t].producer \in {"enter", "reenter"} /\ Served(t, o)
    BY <1>1, <2>2, TaskNames DEF Good, Queues, Shut
  <2>5. p = o /\ \A q \in Objects : ~Member(w, q, t)
    BY <2>2, <2>4 DEF Served, Good, Waiters
  <2> HIDE DEF w
  <2>6. Loose(w, o, {}) /\ \A u \in Conns : ~Member(w, o, u)
    BY <1>1, <2>2, <2>4, NoOther
  <2>7. CASE ProducerAt(t, w, "ended")
    BY <1>1, <2>2, <2>4, <2>5, <2>7, ProducerAtSound
  <2>8. CASE ProducerAt(t, Sleep(w, p, t), "condition")
    BY <1>1, <2>2, <2>4, <2>5, <2>6, <2>8, ProducerAtSound
  <2>9. CASE ProducerAt(t, Released(w, p), "ended")
    <3> DEFINE v == Released(w, o)
    <3>1. Good(v, {}) /\ v \in WSs
      BY <1>1, <2>2, <2>6, ReleasedGood, MutatorsTyped
    <3>2. /\ \A q \in Objects : q # o => v[q] = w[q]
          /\ v[o].queue = w[o].queue /\ v[o].waiting = w[o].waiting
          /\ v[o].notified = w[o].notified
      BY <2>2, ReleasedFields
    <3> HIDE DEF v
    <3>3. \A q \in Objects : ~Member(v, q, t) /\ ~InQueue(v, q, Producer(t))
      BY <2>2, <2>5, <3>2 DEF Member, InQueue
    <3>4. ProducerAt(t, v, "ended")
      BY <2>5, <2>9 DEF v
    <3> QED BY <1>1, <2>4, <3>1, <3>3, <3>4, ProducerAtSound
  <2> QED BY <2>3, <2>7, <2>8, <2>9
<1>5. CASE ProducerEnded(t)
  <2>1. conn[t].producer = "ended" /\ ProducerAt(t, ws, "done")
    BY <1>5 DEF ProducerEnded
  <2>2. \A q \in Objects : ~Member(ws, q, t) /\ ~InQueue(ws, q, Producer(t))
    BY <1>1, <2>1, Absent
  <2> QED BY <1>1, <2>1, <2>2, Sides, ProducerAtSound
<1> QED BY <1>2, <1>3, <1>4, <1>5

LEMMA ViewSound ==
  ASSUME Typed, Typed', Sound, NEW v \in Views, ~Strays(View(v)), ViewSends(v) \/ ViewGranted(v)
  PROVE  Sound'
<1> DEFINE p == entry["plants"]
<1>1. /\ Registered /\ Labels /\ Good(ws, {}) /\ ws \in WSs /\ View(v) \in Tasks
      /\ p # 0 => p \in Objects
  BY TaskNames, EntryTyped DEF Sound, Typed, Registers
<1>2. UNCHANGED <<entry, conn>>
  BY DEF ViewSends, ViewGranted
<1>3. ASSUME Good(ws', {}) PROVE Sound'
  <2>1. Registered' /\ Labels'
    BY <1>1, <1>2 DEF Registered, Labels, Live, Own
  <2>2. Good(ws, {})'
    BY <1>2, <1>3 DEF Good, Queues, Owners, Texts, Waiters, Shut, Served, Live, InQueue, Once,
                      Member, Alone, Own
  <2> QED BY <2>1, <2>2 DEF Sound
<1>4. CASE ViewSends(v)
  <2>1. /\ p # 0 /\ ws' = IF Free(ws, p) THEN Put(ws, p) ELSE Queued(ws, p, View(v))
        /\ \A q \in Objects : ~InQueue(ws, q, View(v))
    BY <1>4 DEF ViewSends, InQueue
  <2>2. CASE Free(ws, p)
    <3>1. Loose(ws, p, {})
      BY <2>2, TaskNames DEF Free, Locked, Loose
    <3> QED BY <1>1, <1>3, <2>1, <2>2, <3>1, PutGood DEF Typed
  <2>3. CASE ~Free(ws, p)
    <3>1. /\ \A q \in Objects : q # p => ws'[q] = ws[q]
          /\ ws'[p].owner = ws[p].owner /\ ws'[p].pending = ws[p].pending
          /\ ws'[p].waiting = ws[p].waiting /\ ws'[p].notified = ws[p].notified
          /\ \A j : InQueue(ws', p, j) <=> j = View(v) \/ InQueue(ws, p, j)
          /\ Once(ws, p) /\ ~InQueue(ws, p, View(v)) => Once(ws', p)
      BY <1>1, <2>1, <2>3, QueuedFields
    <3>2. \A q \in Objects :
            /\ ws'[q].owner = ws[q].owner /\ ws'[q].pending = ws[q].pending
            /\ ws'[q].waiting = ws[q].waiting /\ ws'[q].notified = ws[q].notified
            /\ \A k : InQueue(ws', q, k) =>
                 InQueue(ws, q, k) \/ (k = View(v) /\ q = p)
            /\ Once(ws', q)
      <4> SUFFICES ASSUME NEW q \in Objects
                   PROVE  /\ ws'[q].owner = ws[q].owner /\ ws'[q].pending = ws[q].pending
                          /\ ws'[q].waiting = ws[q].waiting /\ ws'[q].notified = ws[q].notified
                          /\ \A k : InQueue(ws', q, k) =>
                               InQueue(ws, q, k) \/ (k = View(v) /\ q = p)
                          /\ Once(ws', q)
        OBVIOUS
      <4>1. Once(ws, q)
        BY <1>1 DEF Good, Queues
      <4>2. CASE q = p
        BY <2>1, <3>1, <4>1, <4>2
      <4>3. CASE q # p
        BY <3>1, <4>1, <4>3 DEF InQueue, Once
      <4> QED BY <4>2, <4>3
    <3>3. \A q \in Objects :
            /\ Shut(ws, q) <=> Shut(ws', q)
            /\ Alone(ws, q) <=> Alone(ws', q)
            /\ \A u : Member(ws', q, u) <=> Member(ws, q, u)
            /\ \A u : InQueue(ws', q, Main(u)) => InQueue(ws, q, Main(u))
            /\ \A u : InQueue(ws', q, Producer(u)) => InQueue(ws, q, Producer(u))
      <4> SUFFICES ASSUME NEW q \in Objects
                   PROVE  /\ Shut(ws, q) <=> Shut(ws', q)
                          /\ Alone(ws, q) <=> Alone(ws', q)
                          /\ \A u : Member(ws', q, u) <=> Member(ws, q, u)
                          /\ \A u : InQueue(ws', q, Main(u)) => InQueue(ws, q, Main(u))
                          /\ \A u : InQueue(ws', q, Producer(u)) => InQueue(ws, q, Producer(u))
        OBVIOUS
      <4>1. /\ ws'[q].owner = ws[q].owner /\ ws'[q].waiting = ws[q].waiting
            /\ ws'[q].notified = ws[q].notified
        BY <3>2
      <4>2. \A k : InQueue(ws', q, k) /\ k # View(v) => InQueue(ws, q, k)
        BY <3>2
      <4>3. Shut(ws, q) <=> Shut(ws', q)
        BY <4>1 DEF Shut
      <4>4. (Alone(ws, q) <=> Alone(ws', q)) /\ \A u : Member(ws', q, u) <=> Member(ws, q, u)
        BY <4>1 DEF Alone, Member
      <4>5. \A u : Main(u) # View(v) /\ Producer(u) # View(v)
        BY TaskNames
      <4> QED BY <4>2, <4>3, <4>4, <4>5
    <3>4. Waiters(ws')
      BY <1>1, <3>3 DEF Good, Waiters
    <3>5. \A q, m \in Objects, k \in Tasks : InQueue(ws', q, k) /\ InQueue(ws', m, k) => q = m
      BY <1>1, <2>1, <3>2 DEF Good, Queues
    <3>6. Queues(ws', {})
      BY <1>1, <3>2, <3>3, <3>5 DEF Good, Queues
    <3>7. ASSUME NEW u \in Conns, conn[u].at \in HoldsOwn PROVE entry[Own(u)] \in Objects
      BY <1>1, <3>7, OwnTyped DEF Live, HoldsOwn, Over
    <3>8. Owners(ws', {}) /\ Texts(ws', {})
      BY <1>1, <3>2, <3>7 DEF Good, Owners, Texts, HoldsOwn
    <3> QED BY <1>3, <3>4, <3>6, <3>8 DEF Good
  <2> QED BY <2>2, <2>3
<1>5. CASE ViewGranted(v)
  <2>1. PICK o \in Objects :
          /\ Granted(o, View(v))
          /\ ws' = IF p = 0 THEN Dequeued(o, View(v))
                   ELSE IF Locked(Dequeued(o, View(v)), p) THEN Put(Dequeued(o, View(v)), p)
                   ELSE Written(Dequeued(o, View(v)), p)
    BY <1>5 DEF ViewGranted
  <2> DEFINE w == Dequeued(o, View(v))
  <2>2. w \in WSs /\ Good(w, {}) /\ w[o].owner = View(v)
    BY <1>1, <2>1, DequeuedGood
  <2>3. p \in {0, o}
    BY <2>1 DEF Strays, Asked, View
  <2>4. ws' = IF p = 0 THEN w ELSE IF Locked(w, p) THEN Put(w, p) ELSE Written(w, p)
    BY <2>1
  <2> HIDE DEF w
  <2>5. CASE p = 0
    BY <1>3, <2>2, <2>4, <2>5
  <2>6. CASE p = o
    <3>1. Locked(w, o) /\ Loose(w, o, {}) /\ o # 0
      BY <2>2, TaskNames, Sides DEF Locked, Loose
    <3>2. ws' = Put(w, o)
      BY <2>4, <2>6, <3>1
    <3> QED BY <1>1, <1>3, <2>2, <3>1, <3>2, PutGood
  <2> QED BY <2>3, <2>5, <2>6
<1> QED BY <1>4, <1>5

----------------------------------------------------------------------------
(* The theorems.                                                           *)

LEMMA InitIInv == Init => IInv
<1> SUFFICES ASSUME Init PROVE IInv
  OBVIOUS
<1>1. 0 \in 0..MaxPending /\ ~(0 > 0)
  BY PendingAssumption
<1>2. NewWS \in WS
  BY <1>1 DEF NewWS, WS
<1>3. ws \in WSs /\ \A o \in Objects : ws[o] = NewWS
  BY <1>1, <1>2 DEF Init, WSs, NewWS
<1>4. "off" \in Ats /\ "none" \in Producings
  BY DEF Ats, Producings
<1>5. /\ conn \in Connections
      /\ \A t \in Conns : conn[t].at = "off" /\ conn[t].producer = "none"
  BY <1>1, <1>4 DEF Init, Connections
<1>6. entry \in [Registers -> Objects \cup {0}] /\ entry["plants"] = 0 /\ entry["clients"] = 0
  BY DEF Init, Registers
<1>7. TypeOK
  BY <1>3, <1>5, <1>6, TypeSplit DEF Typed, Init
<1>8. Registered
  BY <1>5, <1>6 DEF Registered, Live
<1>9. Labels
  BY <1>5 DEF Labels, Fits
<1>10. \A o \in Objects :
         /\ ws[o].queue = <<>> /\ ws[o].waiting = <<>> /\ ws[o].notified = {}
         /\ \A k : ~InQueue(ws, o, k) /\ ~Member(ws, o, k)
         /\ Once(ws, o)
  BY <1>3 DEF NewWS, InQueue, Member, Once
<1>11. Queues(ws, {}) /\ Owners(ws, {}) /\ Texts(ws, {})
  BY <1>5, <1>10 DEF Queues, Owners, Texts, HoldsOwn
<1>12. Waiters(ws)
  BY <1>10 DEF Waiters, Alone, Objects
<1> QED BY <1>7, <1>8, <1>9, <1>11, <1>12 DEF IInv, Sound, Good

LEMMA StepIInv ==
  ASSUME IInv, Typed', Sound /\ ~strayed' => Sound', due' \subseteq Ready',
         NEW s \in BOOLEAN, strayed' = (strayed \/ s)
  PROVE  IInv'
<1>1. Ready' \subseteq Tasks /\ strayed \in BOOLEAN
  BY TaskNames DEF Ready, IInv, TypeOK
<1>2. TypeOK'
  <2>1. Ats = Over \cup Waiting \cup Sending \cup
                {"off", "hello", "closed", "answer", "other", "timeout", "nothing", "forward",
                 "again", "closing", "goodbye"}
    BY DEF Ats, LockWaits
  <2>2. ws' \in [Objects -> WS] /\ \A o \in Objects : ws'[o].new <=> ws'[o].pending > 0
    BY DEF Typed, WSs
  <2>3. entry' \in [Registers -> Objects \cup {0}] /\ conn' \in Connections
    BY DEF Typed
  <2>4. due' \subseteq Tasks /\ strayed' \in BOOLEAN
    BY <1>1
  <2> QED BY <2>1, <2>2, <2>3, <2>4, Zenon DEF TypeOK, WS, Connections, Producings
<1>3. ~strayed' => Sound'
  BY <1>1 DEF IInv
<1> QED BY <1>2, <1>3 DEF IInv

LEMMA MainStepIInv ==
  ASSUME IInv, NEW t \in Conns, MainStep(t)
  PROVE  IInv'
<1>1. Typed
  BY TypeSplit DEF IInv
<1>2. /\ Connect(t) \/ Wait(t) \/ Resume(t) \/ SendDone(t) \/ Joined(t)
      /\ due' \subseteq Ready' /\ strayed' = (strayed \/ Strays(Main(t)))
  BY DEF MainStep, Turn
<1>3. Typed'
  BY <1>1, <1>2, ConnectTyped, WaitTyped, ResumeTyped, SendDoneTyped, JoinedTyped
<1>4. ASSUME Sound, ~strayed' PROVE Sound'
  <2>1. ~Strays(Main(t))
    BY <1>2, <1>4
  <2> QED BY <1>1, <1>2, <1>3, <1>4, <2>1, ConnectSound, WaitSound, ResumeSound, SendDoneSound,
             JoinedSound
<1>5. Strays(Main(t)) \in BOOLEAN
  BY DEF Strays
<1> QED BY <1>2, <1>3, <1>4, <1>5, StepIInv

LEMMA ProducerStepIInv ==
  ASSUME IInv, NEW t \in Conns, ProducerStep(t)
  PROVE  IInv'
<1>1. Typed
  BY TypeSplit DEF IInv
<1>2. /\ ProducerBegin(t) \/ ProducerNotified(t) \/ ProducerGranted(t) \/ ProducerEnded(t)
      /\ due' \subseteq Ready' /\ strayed' = (strayed \/ Strays(Producer(t)))
  BY DEF ProducerStep, Turn
<1>3. Typed'
  BY <1>1, <1>2, ProducerTyped
<1>4. ASSUME Sound, ~strayed' PROVE Sound'
  <2>1. ~Strays(Producer(t))
    BY <1>2, <1>4
  <2> QED BY <1>1, <1>2, <1>3, <1>4, <2>1, ProducerSound
<1>5. Strays(Producer(t)) \in BOOLEAN
  BY DEF Strays
<1> QED BY <1>2, <1>3, <1>4, <1>5, StepIInv

LEMMA ViewStepIInv ==
  ASSUME IInv, NEW v \in Views, ViewStep(v)
  PROVE  IInv'
<1>1. Typed
  BY TypeSplit DEF IInv
<1>2. /\ ViewSends(v) \/ ViewGranted(v)
      /\ due' \subseteq Ready' /\ strayed' = (strayed \/ Strays(View(v)))
  BY DEF ViewStep, Turn
<1>3. Typed'
  BY <1>1, <1>2, ViewTyped
<1>4. ASSUME Sound, ~strayed' PROVE Sound'
  <2>1. ~Strays(View(v))
    BY <1>2, <1>4
  <2> QED BY <1>1, <1>2, <1>3, <1>4, <2>1, ViewSound
<1>5. Strays(View(v)) \in BOOLEAN
  BY DEF Strays
<1> QED BY <1>2, <1>3, <1>4, <1>5, StepIInv

LEMMA StutterIInv ==
  ASSUME IInv, UNCHANGED vars
  PROVE  IInv'
<1>1. /\ entry' = entry /\ ws' = ws /\ conn' = conn /\ due' = due /\ strayed' = strayed
  BY DEF vars
<1>2. TypeOK'
  BY <1>1 DEF IInv, TypeOK
<1>3. Sound => Registered' /\ Labels'
  BY <1>1 DEF Sound, Registered, Labels, Live
<1>4. Sound => Good(ws, {})'
  BY <1>1 DEF Sound, Good, Queues, Owners, Texts, Waiters, Shut, Served, Live, InQueue, Once,
              Member, Alone
<1> QED BY <1>1, <1>2, <1>3, <1>4 DEF IInv, Sound

\* The server keeps the registers, the queues of the locks and the coroutines in order: what
\* the other theorems follow from (websockets.py, websocket_register.py).
THEOREM RelayInvariant == Spec => []IInv
<1>1. Init => IInv
  BY InitIInv
<1>2. IInv /\ [Next]_vars => IInv'
  BY MainStepIInv, ProducerStepIInv, ViewStepIInv, StutterIInv DEF Next
<1> QED BY <1>1, <1>2, PTL DEF Spec

\* Every variable keeps its type, and an object has something new exactly when its message is
\* not empty, even after a task has strayed (websocket_register.py:26-56).
THEOREM RelayTypeOK == Spec => []TypeOK
<1>1. IInv => TypeOK
  BY DEF IInv
<1> QED BY <1>1, RelayInvariant, PTL

\* As long as no task has strayed, the message that is emptied after ws.send is the one that
\* was sent (websockets.py:214-217, 287-290): nothing is added while it is sent.
THEOREM RelaySendingKept == Spec => []SendingKept
<1>1. IInv => SendingKept
  BY DEF IInv, Sound, Good, Texts, SendingKept
<1> QED BY <1>1, RelayInvariant, PTL

\* As long as no task has strayed, one producer task at most waits for the condition of an
\* object or is notified by it (websockets.py:194, 273).
THEOREM RelayOneWaiter == Spec => []OneWaiter
<1>1. IInv => OneWaiter
  <2> SUFFICES ASSUME IInv, ~strayed, NEW o \in Objects
               PROVE  Len(ws[o].waiting) + Cardinality(ws[o].notified) <= 1
    BY DEF OneWaiter
  <2>1. Alone(ws, o)
    BY DEF IInv, Sound, Good, Waiters
  <2>2. CASE ws[o].waiting = <<>> /\ \E t \in Conns : ws[o].notified \subseteq {t}
    <3>1. PICK t \in Conns : ws[o].notified = {} \/ ws[o].notified = {t}
      BY <2>2
    <3>2. Cardinality(ws[o].notified) \in {0, 1}
      BY <3>1, FS_EmptySet, FS_Singleton
    <3>3. Len(ws[o].waiting) = 0
      BY <2>2
    <3> QED BY <3>2, <3>3
  <2>3. CASE ws[o].notified = {} /\ \E t \in Conns : ws[o].waiting = <<t>>
    <3>1. Len(ws[o].waiting) = 1
      BY <2>3
    <3>2. Cardinality(ws[o].notified) = 0
      BY <2>3, FS_EmptySet
    <3> QED BY <3>1, <3>2
  <2> QED BY <2>1, <2>2, <2>3 DEF Alone
<1> QED BY <1>1, RelayInvariant, PTL

\* As long as no task has strayed, the plant is registered exactly while a coroutine serves
\* it, and a client while it is served (websockets.py:145-150, 217-249, 293-310).
THEOREM RelayServedIffRegistered == Spec => []ServedIffRegistered
<1>1. IInv => ServedIffRegistered
  <2> SUFFICES ASSUME IInv, ~strayed
               PROVE  /\ entry["plants"] # 0 <=> \E t \in PlantConns : Live(t)
                      /\ \A t \in ClientConns :
                           Live(t) /\ conn[t].at # "refused" => entry["clients"] # 0
    BY DEF ServedIffRegistered
  <2>1. Registered /\ Labels
    BY DEF IInv, Sound
  <2>2. \A t \in PlantConns : t \in Conns /\ Own(t) = "plants" /\ conn[t].at # "refused"
    BY <2>1, Sides DEF Labels, Fits, Conns
  <2>3. \A t \in ClientConns : t \in Conns /\ Own(t) = "clients"
    BY Sides DEF Conns
  <2> QED BY <2>1, <2>2, <2>3 DEF Registered
<1> QED BY <1>1, RelayInvariant, PTL

=============================================================================
