--------------------------------- MODULE Relay ---------------------------------
(***************************************************************************)
(* The server's relay (websockets.py, websocket_register.py): a coroutine  *)
(* per connection of the plant and of its clients, their producer tasks,   *)
(* and the views that send to the plant, for one plant identifier.         *)
(*                                                                         *)
(* An action is the code a coroutine runs between two suspensions of the   *)
(* event loop: asyncio (Python 3.5) suspends at ws.send, asyncio.wait,     *)
(* Condition.wait, and acquire() of a lock that is locked or has waiters.  *)
(***************************************************************************)
EXTENDS Integers, Sequences, FiniteSets

CONSTANTS PlantConns, ClientConns, \* the connections of the plant and of its clients: numbers,
                                   \* in the order in which they are opened
          Views, \* the views of views.py and timer.py that send to the plant
          None,  \* no owner
          MaxPending \* bound: the messages of an entry are counted up to MaxPending

Conns == PlantConns \cup ClientConns
Registers == {"plants", "clients"}
Objects == Conns \* a WS object is named after the connection that has made it

Main(t) == <<t, "main">>
Producer(t) == <<t, "producer">>
View(v) == <<v, "view">>
Tasks == {Main(t) : t \in Conns} \cup {Producer(t) : t \in Conns} \cup {View(v) : v \in Views}

ASSUME ConnAssumption ==
  Conns \subseteq Nat \ {0} /\ PlantConns \cap ClientConns = {} /\ None \notin Tasks
ASSUME PendingAssumption == MaxPending \in Nat \ {0}

VARIABLES
  entry, \* the dictionaries of the two registers: the object of the identifier, or 0
  ws,    \* each object: its lock (owner, queue of waiters), the producers that wait for its
         \* condition and those notified, new, and the number of messages in its message
  conn,  \* each connection: where its coroutine is suspended, its producer_task, and how
         \* many messages the text in ws.send holds
  due,   \* the tasks that were ready when this turn of the event loop began, and have not run
  strayed \* history: a task had waited for the lock of an object, and found another registered

vars == <<entry, ws, conn, due, strayed>>

NewWS == [owner |-> None, queue |-> <<>>, waiting |-> <<>>, notified |-> {}, new |-> FALSE, pending |-> 0]

Init ==
  /\ entry = [r \in Registers |-> 0]
  /\ ws = [o \in Objects |-> NewWS]
  /\ conn = [t \in Conns |-> [at |-> "off", producer |-> "none", text |-> 0]]
  /\ due = {} /\ strayed = FALSE

Own(t) == IF t \in PlantConns THEN "plants" ELSE "clients"
Other(t) == IF t \in PlantConns THEN "clients" ELSE "plants"

Over == {"end", "crashed"}
Live(t) == conn[t].at \notin Over \cup {"off"}

----------------------------------------------------------------------------
(* asyncio.Condition and its lock; w is the value of ws so far in a step.  *)

Locked(w, o) == w[o].owner # None

\* A lock that has been released with waiters goes to the first of them.
Granted(o, k) == ~Locked(ws, o) /\ ws[o].queue # <<>> /\ Head(ws[o].queue) = k

\* Mutant of Free: nobody waits for a lock.
FreeAnyway(w, o) == TRUE

\* acquire() does not suspend.
Free(w, o) == ~Locked(w, o) /\ w[o].queue = <<>>

Taken(w, o, k) == [w EXCEPT ![o].owner = k]
Dequeued(o, k) == [ws EXCEPT ![o].owner = k, ![o].queue = Tail(@)]
Queued(w, o, k) == [w EXCEPT ![o].queue = Append(@, k)]
Released(w, o) == [w EXCEPT ![o].owner = None]

\* Mutant of Notified: nobody is notified.
NotifiedNobody(w, o) == w

Notified(w, o) ==
  IF w[o].waiting = <<>> THEN w
  ELSE [w EXCEPT ![o].waiting = Tail(@), ![o].notified = @ \cup {Head(w[o].waiting)}]

\* The body of send_to_socket, on an object whose lock is held.
Written(w, o) ==
  [w EXCEPT ![o].new = TRUE, ![o].pending = IF @ < MaxPending THEN @ + 1 ELSE @]
Put(w, o) == Released(Notified(Written(w, o), o), o)

\* Mutant of Emptied: the message is not reset.
EmptiedHalf(w, o) == [w EXCEPT ![o].new = FALSE]

Emptied(w, o) == [w EXCEPT ![o].new = FALSE, ![o].pending = 0]

----------------------------------------------------------------------------
(* The coroutines plant and client.  Suspend, and the operators that use   *)
(* it, take the value w of ws so far and say how the step ends.            *)

Suspend(t, w, at) ==
  /\ ws' = w /\ conn' = [conn EXCEPT ![t].at = at]
  /\ UNCHANGED entry

\* A KeyError or RuntimeError nobody catches.
Crash(t, w) == Suspend(t, w, "crashed")

\* acquire() on object o, then the rest of the step.
Acquire(t, w, o, at, Then(_, _)) ==
  IF Free(w, o) THEN Then(t, Taken(w, o, Main(t))) ELSE Suspend(t, Queued(w, o, Main(t)), at)

\* The register is asked again for the object after each suspension; notify() and release()
\* raise RuntimeError when its lock is not locked.
Holding(t, w) == entry[Own(t)] # 0 /\ Locked(w, entry[Own(t)])

\* notify() and release(), then a suspension until the producer task is done; the callback
\* that tells it is scheduled even if it is done already.
JoinProducer(t, w, at) ==
  LET o == entry[Own(t)] IN
  IF ~Holding(t, w) THEN Crash(t, w)
  ELSE /\ ws' = Released(Notified(w, o), o)
       /\ conn' = [conn EXCEPT ![t].at = at, ![t].producer = IF @ = "done" THEN "ended" ELSE @]
       /\ UNCHANGED entry

\* The top of the loop: two tasks are created and waited for.
Loop(t, w) ==
  /\ ws' = w
  /\ conn' = [conn EXCEPT ![t] = [at |-> "wait", producer |-> "begin", text |-> 0]]
  /\ UNCHANGED entry

\* Mutant of Unregister: the entry stays.
UnregisterNot(t, w) == Suspend(t, w, "end")

\* Nobody can reach the message of the object any more.
Unregister(t, w) ==
  /\ entry' = [entry EXCEPT ![Own(t)] = 0]
  /\ ws' = IF entry[Own(t)] = 0 THEN w ELSE Emptied(w, entry[Own(t)])
  /\ conn' = [conn EXCEPT ![t].at = "end"]

\* What is left of send_to_socket once its lock is held: the register is asked again for the
\* object, and may have none or another by now; notify() needs its lock to be locked.
Send(t, w, r, Then(_, _)) ==
  LET p == entry[r] IN
  IF p = 0 THEN Crash(t, w)
  ELSE IF Locked(w, p) THEN Then(t, Put(w, p))
  ELSE Crash(t, Written(w, p))

\* The end of the loop: the messages that have come are sent.
Flush(t, w) ==
  LET o == entry[Own(t)] IN
  IF o = 0 THEN Crash(t, w)
  ELSE IF w[o].new
  THEN /\ ws' = w /\ conn' = [conn EXCEPT ![t].at = "send", ![t].text = w[o].pending]
       /\ UNCHANGED entry
  ELSE IF Locked(w, o) THEN Loop(t, Released(w, o))
  ELSE Crash(t, w)

\* Mutant of Join: the producer task is not finished.
JoinSkipped(t, w) == Flush(t, w)

\* A message has been handled: the producer task is finished before the loop goes on.
Join(t, w) == JoinProducer(t, w, "join")
Forward(t, w) == Send(t, w, Other(t), Join)

\* A message is forwarded to the other side, if it is there.
Relayed(t, w) ==
  IF entry[Other(t)] # 0 THEN Acquire(t, w, entry[Other(t)], "forward", Forward)
  ELSE Suspend(t, w, IF t \in PlantConns THEN "noclient" ELSE "lost")

\* The end of the handlers of ConnectionClosed.
Goodbye(t, w) == Send(t, w, "plants", Unregister)
Leave(t, w) ==
  IF t \in PlantConns THEN Unregister(t, w)
  ELSE IF entry["plants"] = 0 THEN Crash(t, w)
  ELSE Acquire(t, w, entry["plants"], "goodbye", Goodbye)

Closing(t, w) ==
  IF conn[t].producer = "none" THEN Leave(t, w) ELSE JoinProducer(t, w, "bye")

\* except ConnectionClosed
Closed(t, w) ==
  LET o == entry[Own(t)] IN
  IF o = 0 THEN Crash(t, w)
  ELSE IF Locked(w, o) THEN Closing(t, w) ELSE Acquire(t, w, o, "closing", Closing)

\* What asyncio.wait returns: recv has raised ConnectionClosed, or has a message the plant
\* answers ("sync", "music") or not, the plant is silent for 15 s, or only the producer task
\* is done.
Outcomes(t) ==
  {"closed", "other"}
  \cup (IF t \in PlantConns THEN {"answer"} ELSE {})
  \cup (IF t \in PlantConns /\ conn[t].producer \notin {"ended", "done"} THEN {"timeout"} ELSE {})
  \cup (IF conn[t].producer = "done" THEN {"nothing"} ELSE {})

\* The own lock is held after asyncio.wait has returned got.
Top(t, w, got) ==
  CASE got = "closed"  -> Closed(t, w)
    [] got = "answer"  -> Suspend(t, w, "reply")
    [] got = "other"   -> Relayed(t, w)
    [] got = "timeout" -> JoinProducer(t, w, "leave")
    [] got = "nothing" -> Flush(t, w)

\* A connection is opened.  A client without plant is told so; the others are registered,
\* and the client says Hello to the plant.  The coroutine of the connection before it is over.
Connect(t) ==
  LET r == Own(t)
      plant == entry["plants"]
  IN
  /\ conn[t].at = "off" /\ \A u \in Conns : Own(u) = r /\ u < t => conn[u].at # "off"
  /\ \A u \in Conns : Own(u) = r => ~Live(u)
  /\ IF t \in ClientConns /\ plant = 0
     THEN Suspend(t, ws, "refused")
     ELSE /\ entry' = [entry EXCEPT ![r] = IF @ = 0 THEN t ELSE @]
          /\ IF t \in PlantConns
             THEN conn' = [conn EXCEPT ![t].at = "wait", ![t].producer = "begin"] /\ ws' = ws
             ELSE IF Free(ws, plant)
             THEN conn' = [conn EXCEPT ![t].at = "greet"] /\ ws' = Put(ws, plant)
             ELSE conn' = [conn EXCEPT ![t].at = "hello"] /\ ws' = Queued(ws, plant, Main(t))

\* asyncio.wait returns, after both tasks have begun.
Wait(t) ==
  /\ conn[t].at = "wait" /\ conn[t].producer # "begin"
  /\ \E got \in Outcomes(t) :
       IF entry[Own(t)] = 0 THEN Crash(t, ws)
       ELSE Acquire(t, ws, entry[Own(t)], got, LAMBDA u, w : Top(u, w, got))

\* The lock the coroutine waits for is granted to it.
Resume(t) ==
  \E o \in Objects :
    LET w == Dequeued(o, Main(t)) IN
    /\ Granted(o, Main(t))
    /\ \/ conn[t].at = "hello" /\ Send(t, w, "plants", LAMBDA u, w1 : Suspend(u, w1, "greet"))
       \/ conn[t].at = "forward" /\ Forward(t, w)
       \/ conn[t].at = "again" /\ Flush(t, w)
       \/ conn[t].at = "closing" /\ Closing(t, w)
       \/ conn[t].at = "goodbye" /\ Goodbye(t, w)
       \/ conn[t].at \in {"closed", "answer", "other", "timeout", "nothing"} /\ Top(t, w, conn[t].at)

\* ws.send returns: what follows it.
Sent(t) ==
  LET o == entry[Own(t)] IN
  CASE conn[t].at = "refused"  -> Suspend(t, ws, "end")
    [] conn[t].at = "greet"    -> Loop(t, ws)
    [] conn[t].at = "reply"    -> Relayed(t, ws)
    [] conn[t].at = "noclient" -> Join(t, ws)
    [] conn[t].at = "lost"     -> Unregister(t, ws)
    [] conn[t].at = "send"     ->
         IF Holding(t, ws) THEN Loop(t, Released(Emptied(ws, o), o)) ELSE Crash(t, ws)

\* Where a coroutine is suspended in asyncio.wait, and in ws.send.
Waiting == {"wait", "join", "leave", "bye"}
Sending == {"refused", "greet", "reply", "noclient", "lost", "send"}

\* ws.send returns, or raises ConnectionClosed.
SendDone(t) == conn[t].at \in Sending /\ (Sent(t) \/ Closed(t, ws))

\* The producer task a coroutine waits for is done.
Joined(t) ==
  /\ conn[t].producer = "done"
  /\ \/ /\ conn[t].at = "join"
        /\ IF entry[Own(t)] = 0 THEN Crash(t, ws)
           ELSE Acquire(t, ws, entry[Own(t)], "again", Flush)
     \/ conn[t].at \in {"leave", "bye"} /\ Leave(t, ws)

----------------------------------------------------------------------------
(* wait_producer                                                           *)

ProducerAt(t, w, pc) ==
  /\ ws' = w /\ conn' = [conn EXCEPT ![t].producer = pc]
  /\ UNCHANGED entry

\* Condition.wait, on an object whose lock is held.
Sleep(w, o, t) == [Released(w, o) EXCEPT ![o].waiting = Append(@, t)]

ProducerBegin(t) ==
  LET o == entry[Own(t)] IN
  /\ conn[t].producer = "begin"
  /\ IF o = 0 THEN ProducerAt(t, ws, "ended")
     ELSE IF Free(ws, o) THEN ProducerAt(t, Sleep(ws, o, t), "condition")
     ELSE ProducerAt(t, Queued(ws, o, Producer(t)), "enter")

\* Condition.wait takes the lock again once it has been notified.
ProducerNotified(t) ==
  \E o \in Objects :
    /\ t \in ws[o].notified
    /\ LET w == [ws EXCEPT ![o].notified = @ \ {t}] IN
       IF Free(w, o) THEN ProducerAt(t, w, "ended")
       ELSE ProducerAt(t, Queued(w, o, Producer(t)), "reenter")

\* The register is asked again for the object; when it has none, or one whose lock is not
\* locked, the task ends by an error and leaves its own lock locked.
ProducerGranted(t) ==
  \E o \in Objects :
    LET w == Dequeued(o, Producer(t))
        p == entry[Own(t)] IN
    /\ Granted(o, Producer(t))
    /\ IF p = 0 \/ ~Locked(w, p) THEN ProducerAt(t, w, "ended")
       ELSE IF conn[t].producer = "enter" THEN ProducerAt(t, Sleep(w, p, t), "condition")
       ELSE ProducerAt(t, Released(w, p), "ended")

\* The callback of the asyncio.wait of the coroutine.
ProducerEnded(t) ==
  /\ conn[t].producer = "ended" /\ conn[t].at \in Waiting
  /\ ProducerAt(t, ws, "done")

----------------------------------------------------------------------------
(* The views: send_to_socket(plants, ...), whose KeyError they catch.      *)

ViewSends(v) ==
  LET p == entry["plants"] IN
  /\ p # 0 /\ \A o \in Objects : \A i \in DOMAIN ws[o].queue : ws[o].queue[i] # View(v)
  /\ ws' = IF Free(ws, p) THEN Put(ws, p) ELSE Queued(ws, p, View(v))
  /\ UNCHANGED <<entry, conn>>

ViewGranted(v) ==
  \E o \in Objects :
    LET w == Dequeued(o, View(v))
        p == entry["plants"] IN
    /\ Granted(o, View(v))
    /\ ws' = IF p = 0 THEN w ELSE IF Locked(w, p) THEN Put(w, p) ELSE Written(w, p)
    /\ UNCHANGED <<entry, conn>>

----------------------------------------------------------------------------
(* The event loop                                                          *)

\* The tasks that can run without the network: their lock is granted, they are notified,
\* just created, or the task they wait for is done.
Ready ==
  {k \in Tasks : \E o \in Objects : Granted(o, k)}
  \cup {Producer(t) : t \in {u \in Conns :
         \/ conn[u].producer = "begin" \/ \E o \in Objects : u \in ws[o].notified
         \/ conn[u].producer = "ended" /\ conn[u].at \in Waiting}}
  \cup {Main(t) : t \in {u \in Conns : conn[u].at \in Waiting /\ conn[u].producer = "done"}}

\* A turn of the loop runs the tasks that were ready at its beginning; those that become
\* ready in it wait for the next one.  What the network brings may come at any moment.
MayRun(k) == k \in Ready => k \in due \/ due = {}

\* The register a task asks again for the object whose lock it has waited for.
Asked(k) ==
  CASE k[2] = "view" -> "plants"
    [] k[2] = "producer" -> Own(k[1])
    [] k[2] = "main" -> IF conn[k[1]].at \in {"hello", "goodbye"} THEN "plants"
                        ELSE IF conn[k[1]].at = "forward" THEN Other(k[1]) ELSE Own(k[1])

\* Task k gets the lock of an object, and finds another one registered: it writes to this
\* one, and releases its lock, which another task may hold.
Strays(k) == \E o \in Objects : Granted(o, k) /\ entry[Asked(k)] \notin {0, o}

\* Task k takes a step.
Turn(k) ==
  /\ due' = Ready' \cap ((IF due = {} THEN Ready ELSE due) \ {k})
  /\ strayed' = (strayed \/ Strays(k))

MainStep(t) ==
  /\ MayRun(Main(t))
  /\ Connect(t) \/ Wait(t) \/ Resume(t) \/ SendDone(t) \/ Joined(t)
  /\ Turn(Main(t))

ProducerStep(t) ==
  /\ MayRun(Producer(t))
  /\ ProducerBegin(t) \/ ProducerNotified(t) \/ ProducerGranted(t) \/ ProducerEnded(t)
  /\ Turn(Producer(t))

ViewStep(v) == MayRun(View(v)) /\ (ViewSends(v) \/ ViewGranted(v)) /\ Turn(View(v))

Next == \/ \E t \in Conns : MainStep(t) \/ ProducerStep(t)
        \/ \E v \in Views : ViewStep(v)

\* The event loop runs what is ready, ws.send returns or raises, and the recv of a plant
\* returns, raises or times out.  A client may say nothing for ever.
Fairness ==
  /\ \A t \in Conns :
       /\ WF_vars(MainStep(t) /\ (conn[t].at \in Sending \/ Main(t) \in Ready))
       /\ WF_vars(ProducerStep(t))
  /\ \A t \in PlantConns : WF_vars(MainStep(t) /\ conn[t].at = "wait")
  /\ \A v \in Views : WF_vars(ViewStep(v) /\ View(v) \in Ready)

Spec == Init /\ [][Next]_vars /\ Fairness

----------------------------------------------------------------------------

\* The type invariant; an object has something new exactly when its message is not empty.
TypeOK ==
  /\ entry \in [Registers -> Objects \cup {0}]
  /\ ws \in [Objects ->
       [owner : Tasks \cup {None}, queue : Seq(Tasks), waiting : Seq(Conns),
        notified : SUBSET Conns, new : BOOLEAN, pending : 0..MaxPending]]
  /\ \A o \in Objects : ws[o].new <=> ws[o].pending > 0
  /\ conn \in [Conns ->
       [at : Over \cup Waiting \cup Sending \cup
          {"off", "hello", "closed", "answer", "other", "timeout", "nothing", "forward", "again",
           "closing", "goodbye"},
        producer : {"none", "begin", "enter", "condition", "reenter", "ended", "done"},
        text : 0..MaxPending]]
  /\ due \subseteq Tasks /\ strayed \in BOOLEAN

\* No message is lost in the suspension of ws.send: what send_to_socket adds waits for the
\* lock, so that the message that is emptied afterwards is the one that was sent
\* (websockets.py:214-217, 287-290), as long as no task has strayed.
SendingKept ==
  ~strayed =>
    \A t \in Conns :
      conn[t].at = "send" /\ entry[Own(t)] # 0 => ws[entry[Own(t)]].pending = conn[t].text

\* "Finishing the producer_task to avoid problems with the condition when the task is
\* recreated" (websockets.py:194, 273): no two producers ever wait for one condition, where
\* notify() could wake the one nobody listens to, as long as no task has strayed.
OneWaiter ==
  ~strayed => \A o \in Objects : Len(ws[o].waiting) + Cardinality(ws[o].notified) <= 1

\* The plant is registered exactly while a coroutine serves it, whatever ends that
\* coroutine, and a client is registered while it is served, as long as no task has strayed.
ServedIffRegistered ==
  ~strayed =>
    /\ entry["plants"] # 0 <=> \E t \in PlantConns : Live(t)
    /\ \A t \in ClientConns : Live(t) /\ conn[t].at # "refused" => entry["clients"] # 0

Dead(k) == k[2] # "main" \/ conn[k[1]].at \in Over
WaitsFor(t, o) == \E i \in DOMAIN ws[o].queue : ws[o].queue[i] = Main(t)

\* A coroutine waits for a lock left locked by one that is over, or for the lock of one that
\* waits for its own.
Blocked ==
  \E t \in Conns, o \in Objects :
    /\ WaitsFor(t, o) /\ Locked(ws, o)
    /\ \/ Dead(ws[o].owner)
       \/ \E q \in Objects : WaitsFor(ws[o].owner[1], q) /\ ws[q].owner = Main(t)

PlantNew == entry["plants"] # 0 /\ ws[entry["plants"]].new

\* What is sent to the plant leaves, or the plant is unregistered: nothing else than the two
\* kinds of blocked locks keeps a message for ever (websockets.py:15, 43).
Flushed == PlantNew ~> (~PlantNew \/ Blocked)

\* "Coroutine to send a message from a websocket" (websockets.py:15): it comes to its end.
SendEnds == \A t \in Conns : conn[t].at = "forward" ~> conn[t].at # "forward"

=============================================================================
