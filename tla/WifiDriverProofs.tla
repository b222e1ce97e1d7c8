--------------------------- MODULE WifiDriverProofs ---------------------------
(***************************************************************************)
(* Proofs about the driver of the Wi-Fi module, for any set of threads and *)
(* any limit on empty responses: types, mutual exclusion, what happens     *)
(* after a failed read_music, and that the driver stays in step with the   *)
(* module as long as no read times out.                                    *)
(***************************************************************************)
EXTENDS WifiDriver, TLAPS

----------------------------------------------------------------------------
(* Types.                                                                  *)

PCs == {"out", "lock", "send", "header", "body"}
Result == [code : Codes, empty : BOOLEAN, head : Nat, body : Nat]

\* A call that returns a well-formed response leaves well-formed threads.
LEMMA ReturnType ==
  ASSUME TypeOK, NEW t \in Threads, NEW r \in Result, Return(t, r)
  PROVE  /\ ret' \in [Threads -> Result]
         /\ pc' \in [Threads -> PCs]
         /\ owner' \in Threads \cup {None}
  BY DEF TypeOK, Return, Result, PCs

LEMMA NoResponseType == ASSUME NEW c \in Codes PROVE NoResponse(c) \in Result
  BY DEF NoResponse, Result

\* The pieces of a header and of a body have the types their reader expects.
LEMMA HeadType ==
  ASSUME NEW S, NEW s \in Seq(S), s # <<>>
  PROVE  Head(s) \in S /\ Tail(s) \in Seq(S)
  OBVIOUS

\* While a body is read its header is kept.
HeaderKept == \A t \in Threads : pc[t] = "body" => got # <<>>

LEMMA TypeInit == Init => TypeOK /\ HeaderKept
<1> SUFFICES ASSUME Init PROVE TypeOK /\ HeaderKept
  OBVIOUS
<1>1. NoResponse("NO_ERROR") \in [code : Codes, empty : BOOLEAN, head : Nat, body : Nat]
  BY NoResponseType DEF Codes, Result
<1>2. ret \in [Threads -> [code : Codes, empty : BOOLEAN, head : Nat, body : Nat]]
  BY <1>1 DEF Init
<1>3. pc \in [Threads -> PCs] /\ kind \in [Threads -> Kinds] /\ number \in [Threads -> Nat]
  BY DEF Init, PCs, Kinds
<1>4. got \in Seq(Part) /\ leaving \in Seq(Part) /\ line \in Seq(Part) /\ requests \in Seq(Nat)
  BY DEF Init
<1>5. Len(got) <= 1
  BY DEF Init
<1>6. HeaderKept
  BY DEF Init, HeaderKept
<1>7. owner \in Threads \cup {None} /\ end \in Nat /\ body \in Nat /\ sent \in Nat
  BY DEF Init
<1>8. late \in BOOLEAN
  BY Zenon DEF Init
<1> QED
  BY <1>2, <1>3, <1>4, <1>5, <1>6, <1>7, <1>8 DEF TypeOK, PCs

LEMMA ResponseType ==
  ASSUME NEW n \in Nat, NEW c \in {"NO_ERROR", "COMMAND_FAILED", "SAFEMODE"},
         NEW e \in BOOLEAN
  PROVE  /\ Response(n, c, e) \in Seq(Part)
         /\ Response(n, c, e) # <<>>
<1> DEFINE p(what) == [of |-> n, part |-> what, code |-> c, empty |-> e]
<1>1. p("head1") \in Part /\ p("head2") \in Part /\ p("body") \in Part
  BY DEF Part
<1> HIDE DEF p
<1>2. /\ <<p("head1"), p("head2")>> \in Seq(Part) /\ <<p("head1"), p("head2")>> # <<>>
      /\ <<p("head1"), p("head2"), p("body")>> \in Seq(Part)
      /\ <<p("head1"), p("head2"), p("body")>> # <<>>
  BY <1>1
<1>3. Response(n, c, e) \in {<<p("head1"), p("head2")>>, <<p("head1"), p("head2"), p("body")>>}
  BY DEF Response, p
<1> QED
  BY <1>2, <1>3

LEMMA TypeNext == TypeOK /\ HeaderKept /\ [Next]_vars => TypeOK'
<1> SUFFICES ASSUME TypeOK, HeaderKept, [Next]_vars PROVE TypeOK'
  OBVIOUS
<1>1. ASSUME NEW t \in Threads, NEW k \in Kinds, Enter(t, k) PROVE TypeOK'
  BY <1>1 DEF TypeOK, Enter, modvars
<1>2. ASSUME NEW t \in Threads, Send(t) PROVE TypeOK'
  <2>1. requests' \in Seq(Nat) /\ sent' \in Nat /\ number' \in [Threads -> Nat]
    BY <1>2 DEF TypeOK, Send
  <2>2. got' \in Seq(Part) /\ Len(got') <= 1
    BY <1>2 DEF TypeOK, Send
  <2> QED
    BY <1>2, <2>1, <2>2 DEF TypeOK, Send
<1>3. ASSUME NEW t \in Threads, ReadHeader(t) PROVE TypeOK'
  <2>1. Head(line) \in Part /\ line' \in Seq(Part)
    BY <1>3, HeadType DEF TypeOK, ReadHeader
  <2>2. got' \in Seq(Part) /\ Len(got') <= 1
    BY <1>3, <2>1 DEF ReadHeader
  <2> QED
    BY <1>3, <2>1, <2>2 DEF TypeOK, ReadHeader
<1>4. ASSUME NEW t \in Threads, HeaderTimeout(t) PROVE TypeOK'
  BY <1>4, ReturnType, NoResponseType DEF TypeOK, HeaderTimeout, Codes, Result, PCs, modvars
<1>5. ASSUME NEW t \in Threads, HeaderRead(t) PROVE line' \in Seq(Part) /\ got[1] \in Part
  BY <1>5, HeadType DEF TypeOK, HeaderRead
<1>6. ASSUME NEW t \in Threads, BadHeader(t) PROVE TypeOK'
  BY <1>5, <1>6, ReturnType, NoResponseType
  DEF TypeOK, BadHeader, HeaderRead, Codes, Result, PCs
<1>7. ASSUME NEW t \in Threads, GoodHeader(t) PROVE TypeOK'
  BY <1>5, <1>7 DEF TypeOK, GoodHeader, HeaderRead
<1>8. ASSUME NEW t \in Threads, EmptyHeader(t) PROVE TypeOK'
  <2> DEFINE r == [code |-> IF end < NoDataLimit THEN got[1].code ELSE "NO_DATA",
                   empty |-> TRUE, head |-> got[1].of, body |-> got[1].of]
  <2>1. line' \in Seq(Part) /\ got[1] \in Part
    BY <1>5, <1>8 DEF EmptyHeader
  <2>2. r \in Result
    BY <2>1 DEF Result, Part, Codes
  <2>3. Return(t, r)
    BY <1>8 DEF EmptyHeader
  <2>4. end' \in Nat /\ body' \in Nat
    BY <1>8, <2>1 DEF EmptyHeader, TypeOK, Part
  <2> HIDE DEF r
  <2> QED
    BY <1>8, <2>1, <2>2, <2>3, <2>4, ReturnType
    DEF TypeOK, EmptyHeader, HeaderRead, Result, PCs
<1>9. ASSUME NEW t \in Threads, pc[t] = "body" PROVE got[1] \in Part
  BY <1>9 DEF TypeOK, HeaderKept
<1>10. ASSUME NEW t \in Threads, ReadBody(t) PROVE TypeOK'
  <2> DEFINE r == [code |-> got[1].code, empty |-> FALSE, head |-> got[1].of,
                   body |-> Head(line).of]
  <2>1. line' \in Seq(Part) /\ Head(line) \in Part
    BY <1>10, HeadType DEF TypeOK, ReadBody
  <2>2. got[1] \in Part
    BY <1>9, <1>10 DEF ReadBody
  <2>3. r \in Result
    BY <2>1, <2>2 DEF Result, Part, Codes
  <2>4. Return(t, r)
    BY <1>10 DEF ReadBody
  <2>5. body' \in Nat
    BY <1>10, <2>1 DEF ReadBody, TypeOK, Part
  <2> HIDE DEF r
  <2> QED
    BY <1>10, <2>1, <2>3, <2>4, <2>5, ReturnType DEF TypeOK, ReadBody, Result, PCs
<1>11. ASSUME NEW t \in Threads, BodyTimeout(t) PROVE TypeOK'
  <2> DEFINE r == [code |-> got[1].code, empty |-> FALSE, head |-> got[1].of, body |-> 0]
  <2>1. got[1] \in Part
    BY <1>9, <1>11 DEF BodyTimeout
  <2>2. r \in Result
    BY <2>1 DEF Result, Part, Codes
  <2>3. Return(t, r)
    BY <1>11 DEF BodyTimeout
  <2> HIDE DEF r
  <2> QED
    BY <1>11, <2>2, <2>3, ReturnType DEF TypeOK, BodyTimeout, Result, PCs, modvars
<1>12. ASSUME Answer PROVE TypeOK'
  <2>1. PICK c \in {"NO_ERROR", "COMMAND_FAILED", "SAFEMODE"}, e \in BOOLEAN :
          /\ line' = Append(line, Head(Response(Head(requests), c, e)))
          /\ leaving' = Tail(Response(Head(requests), c, e))
    BY <1>12 DEF Answer
  <2>2. Head(requests) \in Nat /\ requests' \in Seq(Nat)
    BY <1>12 DEF Answer, TypeOK
  <2>3. /\ Head(Response(Head(requests), c, e)) \in Part
        /\ Tail(Response(Head(requests), c, e)) \in Seq(Part)
    BY <2>2, ResponseType, HeadType
  <2>4. line' \in Seq(Part) /\ leaving' \in Seq(Part)
    BY <2>1, <2>3 DEF TypeOK
  <2> QED
    BY <1>12, <2>2, <2>4 DEF TypeOK, Answer
<1>13. ASSUME Emit PROVE TypeOK'
  BY <1>13, HeadType DEF TypeOK, Emit
<1>14. ASSUME UNCHANGED vars PROVE TypeOK'
  BY <1>14 DEF TypeOK, vars
<1> QED
  BY <1>1, <1>2, <1>3, <1>4, <1>6, <1>7, <1>8, <1>10, <1>11, <1>12, <1>13, <1>14
  DEF Next, Run, Module

----------------------------------------------------------------------------
(* Mutual exclusion.                                                       *)

LEMMA ExclusiveInit == Init => Exclusive /\ HeaderKept
<1> SUFFICES ASSUME Init, NEW t \in Threads PROVE pc[t] = "out" /\ owner # t
  BY DEF Exclusive, HeaderKept
<1> QED
  BY ThreadsAssumption DEF Init

\* A call that is in progress returns: its thread had the mutex.
LEMMA ReturnExclusive ==
  ASSUME TypeOK, Exclusive, NEW t \in Threads, NEW r \in Result, Return(t, r),
         pc[t] \in {"header", "body"}, kind' = kind
  PROVE  /\ Exclusive'
         /\ \A u \in Threads : pc'[u] \notin {"header", "body"}
<1>1. owner = t /\ pc'[t] = "out" /\ ret'[t] = r
  BY DEF Exclusive, TypeOK, Return
<1>2. \A u \in Threads \ {t} : ret'[u] = ret[u] /\ pc[u] \in {"out", "lock"}
  BY <1>1 DEF Exclusive, TypeOK, Return
<1>3. \A u \in Threads \ {t} : \/ pc'[u] = pc[u] /\ owner' # u
                               \/ pc'[u] = "send" /\ owner' = u
  BY <1>1, <1>2, ThreadsAssumption DEF TypeOK, Return
<1>4. owner' = t => kind[t] = "http" /\ r.code # "NO_ERROR"
  BY <1>1, <1>2, ThreadsAssumption DEF TypeOK, Return
<1> QED
  BY <1>1, <1>2, <1>3, <1>4 DEF Exclusive

\* A step of thread t within a call, from one stage to another, the mutex kept.
LEMMA StageExclusive ==
  ASSUME TypeOK, Exclusive, NEW t \in Threads, pc[t] \in {"send", "header"},
         NEW stage \in {"header", "body"}, pc' = [pc EXCEPT ![t] = stage],
         owner' = owner, kind' = kind, ret' = ret
  PROVE  Exclusive' /\ \A u \in Threads \ {t} : pc'[u] \in {"out", "lock"}
  BY DEF TypeOK, Exclusive

LEMMA ExclusiveNext == TypeOK /\ HeaderKept /\ Exclusive /\ [Next]_vars => Exclusive' /\ HeaderKept'
<1> SUFFICES ASSUME TypeOK, HeaderKept, Exclusive, [Next]_vars PROVE Exclusive' /\ HeaderKept'
  OBVIOUS
<1>1. ASSUME NEW t \in Threads, NEW k \in Kinds, Enter(t, k) PROVE Exclusive' /\ HeaderKept'
  BY <1>1, ThreadsAssumption DEF TypeOK, Exclusive, HeaderKept, Enter
<1>2. ASSUME NEW t \in Threads, Send(t) PROVE Exclusive' /\ HeaderKept'
  <2>1. Exclusive' /\ \A u \in Threads \ {t} : pc'[u] \in {"out", "lock"}
    BY <1>2, StageExclusive DEF Send
  <2>2. pc'[t] = "header"
    BY <1>2 DEF Send, TypeOK
  <2> QED
    BY <2>1, <2>2 DEF HeaderKept
<1>3. ASSUME NEW t \in Threads, ReadHeader(t) PROVE Exclusive' /\ HeaderKept'
  <2>1. got' # <<>>
    BY <1>3 DEF ReadHeader
  <2> QED
    BY <1>3, <2>1 DEF ReadHeader, Exclusive, HeaderKept
<1>4. ASSUME NEW t \in Threads, HeaderTimeout(t) PROVE Exclusive' /\ HeaderKept'
  BY <1>4, NoResponseType, ReturnExclusive DEF HeaderTimeout, Codes, HeaderKept
<1>5. ASSUME NEW t \in Threads, BadHeader(t) PROVE Exclusive' /\ HeaderKept'
  BY <1>5, NoResponseType, ReturnExclusive DEF BadHeader, HeaderRead, Codes, HeaderKept
<1>6. ASSUME NEW t \in Threads, GoodHeader(t) PROVE Exclusive' /\ HeaderKept'
  <2>1. Exclusive'
    BY <1>6, StageExclusive DEF GoodHeader, HeaderRead
  <2>2. got' # <<>>
    BY <1>6 DEF GoodHeader, HeaderRead
  <2> QED
    BY <2>1, <2>2 DEF HeaderKept
<1>7. ASSUME NEW t \in Threads, EmptyHeader(t) PROVE Exclusive' /\ HeaderKept'
  <2> DEFINE r == [code |-> IF end < NoDataLimit THEN got[1].code ELSE "NO_DATA",
                   empty |-> TRUE, head |-> got[1].of, body |-> got[1].of]
  <2>1. got[1] \in Part
    BY <1>7 DEF TypeOK, EmptyHeader, HeaderRead
  <2>2. r \in Result
    BY <2>1 DEF Result, Part, Codes
  <2>3. Return(t, r)
    BY <1>7 DEF EmptyHeader
  <2> HIDE DEF r
  <2> QED
    BY <1>7, <2>2, <2>3, ReturnExclusive DEF EmptyHeader, HeaderRead, HeaderKept
<1>8. ASSUME NEW t \in Threads, ReadBody(t) PROVE Exclusive' /\ HeaderKept'
  <2> DEFINE r == [code |-> got[1].code, empty |-> FALSE, head |-> got[1].of,
                   body |-> Head(line).of]
  <2>1. Head(line) \in Part /\ got[1] \in Part
    BY <1>8, HeadType DEF TypeOK, ReadBody, HeaderKept
  <2>2. r \in Result
    BY <2>1 DEF Result, Part, Codes
  <2>3. Return(t, r)
    BY <1>8 DEF ReadBody
  <2> HIDE DEF r
  <2> QED
    BY <1>8, <2>2, <2>3, ReturnExclusive DEF ReadBody, HeaderKept
<1>9. ASSUME NEW t \in Threads, BodyTimeout(t) PROVE Exclusive' /\ HeaderKept'
  <2> DEFINE r == [code |-> got[1].code, empty |-> FALSE, head |-> got[1].of, body |-> 0]
  <2>1. got[1] \in Part
    BY <1>9 DEF TypeOK, BodyTimeout, HeaderKept
  <2>2. r \in Result
    BY <2>1 DEF Result, Part, Codes
  <2>3. Return(t, r)
    BY <1>9 DEF BodyTimeout
  <2> HIDE DEF r
  <2> QED
    BY <1>9, <2>2, <2>3, ReturnExclusive DEF BodyTimeout, HeaderKept
<1>10. ASSUME Module \/ UNCHANGED vars PROVE Exclusive' /\ HeaderKept'
  BY <1>10 DEF Module, Answer, Emit, vars, Exclusive, HeaderKept
<1> QED
  BY <1>1, <1>2, <1>3, <1>4, <1>5, <1>6, <1>7, <1>8, <1>9, <1>10 DEF Next, Run

\* The types, mutual exclusion and the header kept, together an inductive invariant.
Safe == TypeOK /\ Exclusive /\ HeaderKept

LEMMA SafeAlways == Spec => []Safe
<1>1. Init => Safe
  BY TypeInit, ExclusiveInit DEF Safe
<1>2. Safe /\ [Next]_vars => Safe'
  BY TypeNext, ExclusiveNext DEF Safe
<1> QED
  BY <1>1, <1>2, PTL DEF Spec

\* Every variable of the driver keeps its type, whatever the threads and the module do.
THEOREM TypeCorrect == Spec => []TypeOK
<1>1. Safe => TypeOK
  BY DEF Safe
<1> QED
  BY <1>1, SafeAlways, PTL

\* One thread at a time talks to the module, from its command to the end of the
\* response, and only a failed read_music leaves wifi_mutex locked.
THEOREM MutualExclusion == Spec => []Exclusive
<1>1. Safe => Exclusive
  BY DEF Safe
<1> QED
  BY <1>1, SafeAlways, PTL

\* A read_music that fails shuts the driver: once the mutex is left locked it stays so,
\* and no command is sent any more.
THEOREM FailedDownloadShuts == Spec => ShutForGood
<1>1. Safe /\ [Next]_vars => [Leaked => Leaked' /\ sent' = sent]_vars
  <2> SUFFICES ASSUME Safe, Next, Leaked PROVE Leaked' /\ sent' = sent
    BY DEF vars, Leaked
  <2>1. owner \in Threads /\ \A t \in Threads : pc[t] \in {"out", "lock"}
    BY DEF Safe, TypeOK, Exclusive, Leaked
  <2>2. ASSUME NEW t \in Threads, NEW k \in Kinds, Enter(t, k) PROVE Leaked' /\ sent' = sent
    BY <2>1, <2>2 DEF Safe, TypeOK, Leaked, Enter
  <2>3. ASSUME NEW t \in Threads PROVE ~Run(t)
    BY <2>1 DEF Run, Send, ReadHeader, HeaderTimeout, BadHeader, GoodHeader, EmptyHeader,
                HeaderRead, ReadBody, BodyTimeout
  <2>4. ASSUME Module PROVE Leaked' /\ sent' = sent
    BY <2>4 DEF Module, Answer, Emit, Leaked
  <2> QED
    BY <2>2, <2>3, <2>4 DEF Next
<1> QED
  BY <1>1, SafeAlways, PTL DEF Spec, ShutForGood

----------------------------------------------------------------------------
(* The inductive invariant of InStep.                                      *)

RespCodes == {"NO_ERROR", "COMMAND_FAILED", "SAFEMODE"}

\* Part i of the response to command n.
PartOf(i, n, c, e) ==
  [of |-> n, part |-> IF i = 1 THEN "head1" ELSE IF i = 2 THEN "head2" ELSE "body",
   code |-> c, empty |-> e]

PartsNb(e) == IF e THEN 2 ELSE 3

\* What follows the first k parts of the response to command n is on the line or has
\* still to leave the module, and nothing else is.
Remaining(k, n, c, e) ==
  /\ requests = <<>>
  /\ k + Len(line) + Len(leaving) = PartsNb(e)
  /\ \A i \in 1..Len(line) : line[i] = PartOf(k + i, n, c, e)
  /\ \A i \in 1..Len(leaving) : leaving[i] = PartOf(k + Len(line) + i, n, c, e)

Quiet == requests = <<>> /\ leaving = <<>> /\ line = <<>>

\* Thread t reads a header: the module has not looked at its command, or the parts
\* of the response that have not been read follow.
InHeader(t) ==
  \/ requests = <<number[t]>> /\ leaving = <<>> /\ line = <<>> /\ got = <<>>
  \/ \E c \in RespCodes, e \in BOOLEAN :
       \/ got = <<>> /\ Remaining(0, number[t], c, e)
       \/ got = <<PartOf(1, number[t], c, e)>> /\ Remaining(1, number[t], c, e)

\* Thread t reads a body: only the body is left.
InBody(t) ==
  \E c \in RespCodes :
    got = <<PartOf(1, number[t], c, FALSE)>> /\ Remaining(2, number[t], c, FALSE)

StepInv ==
  ~late =>
    /\ (\A t \in Threads : pc[t] \notin {"header", "body"}) => Quiet
    /\ \A t \in Threads : OwnResponse(t)
    /\ \A t \in Threads : pc[t] = "header" => InHeader(t)
    /\ \A t \in Threads : pc[t] = "body" => InBody(t)

----------------------------------------------------------------------------
(* What the parts on their way become.                                     *)

\* The next part of the response is taken from the line.
LEMMA TakePart ==
  ASSUME TypeOK, NEW k \in {0, 1, 2}, NEW k1, k1 = k + 1,
         NEW n \in Nat, NEW c \in RespCodes, NEW e \in BOOLEAN,
         Remaining(k, n, c, e), line # <<>>,
         line' = Tail(line), leaving' = leaving, requests' = requests
  PROVE  Head(line) = PartOf(k1, n, c, e) /\ Remaining(k1, n, c, e)'
<1>1. line \in Seq(Part) /\ leaving \in Seq(Part) /\ Len(line) \in Nat \ {0}
  BY DEF TypeOK
<1>2. Head(line) = PartOf(k1, n, c, e)
  BY <1>1 DEF Remaining
<1>3. Len(line') = Len(line) - 1 /\ \A i \in 1..Len(line') : line'[i] = line[i + 1]
  BY <1>1
<1>4. \A i \in 1..Len(line') : line'[i] = PartOf(k1 + i, n, c, e)
  <2> SUFFICES ASSUME NEW i \in 1..Len(line') PROVE line'[i] = PartOf(k1 + i, n, c, e)
    OBVIOUS
  <2>1. i + 1 \in 1..Len(line) /\ line'[i] = line[i + 1]
    BY <1>1, <1>3
  <2>2. k + (i + 1) = k1 + i
    BY <1>1, <1>3
  <2> QED
    BY <2>1, <2>2 DEF Remaining
<1>5. k1 + Len(line') = k + Len(line)
  BY <1>1, <1>3
<1> QED
  BY <1>2, <1>4, <1>5 DEF Remaining

\* A part of the response leaves the module.
LEMMA EmitPart ==
  ASSUME TypeOK, NEW k \in {0, 1, 2}, NEW n \in Nat, NEW c \in RespCodes, NEW e \in BOOLEAN,
         Remaining(k, n, c, e), Emit
  PROVE  Remaining(k, n, c, e)'
<1>1. line \in Seq(Part) /\ leaving \in Seq(Part) /\ leaving # <<>>
  BY DEF TypeOK, Emit
<1>2. Head(leaving) = PartOf(k + Len(line) + 1, n, c, e)
  BY <1>1 DEF Remaining
<1>3. /\ Len(line') = Len(line) + 1
      /\ \A i \in 1..Len(line) : line'[i] = line[i]
      /\ line'[Len(line) + 1] = Head(leaving)
  BY <1>1 DEF Emit
<1>4. Len(leaving') = Len(leaving) - 1 /\ \A i \in 1..Len(leaving') : leaving'[i] = leaving[i + 1]
  BY <1>1 DEF Emit
<1>5. \A i \in 1..Len(line') : line'[i] = PartOf(k + i, n, c, e)
  <2> SUFFICES ASSUME NEW i \in 1..Len(line') PROVE line'[i] = PartOf(k + i, n, c, e)
    OBVIOUS
  <2>1. CASE i \in 1..Len(line)
    BY <2>1, <1>3 DEF Remaining
  <2>2. CASE i = Len(line) + 1
    <3>1. k + i = k + Len(line) + 1
      BY <2>2, <1>1
    <3> QED
      BY <3>1, <2>2, <1>2, <1>3
  <2> QED
    BY <1>1, <1>3, <2>1, <2>2
<1>6. \A i \in 1..Len(leaving') : leaving'[i] = PartOf(k + Len(line') + i, n, c, e)
  <2> SUFFICES ASSUME NEW i \in 1..Len(leaving')
               PROVE leaving'[i] = PartOf(k + Len(line') + i, n, c, e)
    OBVIOUS
  <2>1. i + 1 \in 1..Len(leaving) /\ leaving'[i] = leaving[i + 1]
    BY <1>1, <1>4
  <2>2. k + Len(line) + (i + 1) = k + Len(line') + i
    BY <1>1, <1>3, <1>4
  <2> QED
    BY <2>1, <2>2 DEF Remaining
<1>7. k + Len(line') + Len(leaving') = k + Len(line) + Len(leaving)
  BY <1>1, <1>3, <1>4
<1> QED
  BY <1>5, <1>6, <1>7 DEF Remaining, Emit

LEMMA Single == ASSUME NEW x PROVE Len(<<x>>) = 1 /\ <<x>>[1] = x
  OBVIOUS

LEMMA Pair ==
  ASSUME NEW s, NEW x, NEW y, s = <<x, y>>
  PROVE  Len(s) = 2 /\ s[1] = x /\ s[2] = y
  OBVIOUS

\* The module starts the response to command n.
LEMMA AnswerPart ==
  ASSUME NEW n \in Nat, NEW c \in RespCodes, NEW e \in BOOLEAN, line = <<>>,
         requests' = <<>>,
         line' = Append(line, Head(Response(n, c, e))), leaving' = Tail(Response(n, c, e))
  PROVE  Remaining(0, n, c, e)'
<1> DEFINE p(what) == [of |-> n, part |-> what, code |-> c, empty |-> e]
<1>1. Response(n, c, e) = IF e THEN <<p("head1"), p("head2")>>
                               ELSE <<p("head1"), p("head2"), p("body")>>
  BY DEF Response
<1>2. line' = <<p("head1")>>
  BY <1>1
<1>3. /\ e = TRUE => leaving' = <<p("head2")>>
      /\ e = FALSE => leaving' = <<p("head2"), p("body")>>
  BY <1>1
<1>4. /\ p("head1") = PartOf(1, n, c, e)
      /\ p("head2") = PartOf(2, n, c, e)
      /\ p("body") = PartOf(3, n, c, e)
  BY DEF PartOf
<1> HIDE DEF p
<1>5. Len(line') = 1 /\ \A i \in 1..Len(line') : line'[i] = PartOf(0 + i, n, c, e)
  BY <1>2, <1>4
<1>6. CASE e = TRUE
  <2>1. leaving' = <<p("head2")>>
    BY <1>3, <1>6, Zenon
  <2>2. Len(leaving') = 1 /\ leaving'[1] = PartOf(2, n, c, e)
    BY <2>1, <1>4, Single, Zenon
  <2>3. \A i \in 1..Len(leaving') : leaving'[i] = PartOf(0 + Len(line') + i, n, c, e)
    BY <2>2, <1>5
  <2>4. PartsNb(e) = 2
    BY <1>6, Zenon DEF PartsNb
  <2>5. 0 + Len(line') + Len(leaving') = PartsNb(e)
    BY <1>5, <2>2, <2>4
  <2> QED
    BY <1>5, <2>3, <2>5, Zenon DEF Remaining
<1>7. CASE e = FALSE
  <2>1. leaving' = <<p("head2"), p("body")>>
    BY <1>3, <1>7, Zenon
  <2>2. /\ Len(leaving') = 2
        /\ leaving'[1] = PartOf(2, n, c, e) /\ leaving'[2] = PartOf(3, n, c, e)
    BY <2>1, <1>4, Pair, Zenon
  <2>3. \A i \in 1..Len(leaving') : leaving'[i] = PartOf(0 + Len(line') + i, n, c, e)
    <3>1. ASSUME NEW i \in 1..Len(leaving') PROVE i = 1 \/ i = 2
      <4>1. i \in 1..2
        BY <2>2, Zenon
      <4> QED
        BY <4>1
    <3>2. 0 + Len(line') + 1 = 2 /\ 0 + Len(line') + 2 = 3
      BY <1>5
    <3> QED
      BY <2>2, <3>1, <3>2, Zenon
  <2>4. PartsNb(e) = 3
    BY <1>7, Zenon DEF PartsNb
  <2>5. 0 + Len(line') + Len(leaving') = PartsNb(e)
    BY <1>5, <2>2, <2>4
  <2> QED
    BY <1>5, <2>3, <2>5, Zenon DEF Remaining
<1> QED
  BY <1>6, <1>7
----------------------------------------------------------------------------
(* The driver in step.                                                     *)

\* A call that returns its own response, or a header it could not read, leaves every
\* call with its own response.
LEMMA ReturnOwn ==
  ASSUME TypeOK, NEW t \in Threads, NEW r \in Result, Return(t, r),
         pc[t] \in {"header", "body"}, number' = number,
         \A u \in Threads : OwnResponse(u),
         r.head = number[t] /\ r.body = number[t]
  PROVE  \A u \in Threads : OwnResponse(u)'
<1> SUFFICES ASSUME NEW u \in Threads PROVE OwnResponse(u)'
  OBVIOUS
<1>1. CASE u = t
  <2>1. ret'[t] = r
    BY DEF TypeOK, Return
  <2> QED
    BY <1>1, <2>1 DEF OwnResponse
<1>2. CASE u # t
  <2>1. ret'[u] = ret[u] /\ (pc'[u] = "out" => pc[u] = "out")
    BY <1>2 DEF TypeOK, Return
  <2> QED
    BY <2>1 DEF OwnResponse
<1> QED
  BY <1>1, <1>2

\* The last part of a response has been taken: nothing is left.
LEMMA AllTaken ==
  ASSUME TypeOK', NEW k \in {2, 3}, NEW n \in Nat, NEW c \in RespCodes, NEW e \in BOOLEAN,
         k = PartsNb(e), Remaining(k, n, c, e)'
  PROVE  Quiet'
<1>1. k + Len(line') + Len(leaving') = k /\ requests' = <<>>
  BY Zenon DEF Remaining
<1>2. line' \in Seq(Part) /\ leaving' \in Seq(Part)
  BY DEF TypeOK
<1>3. Len(line') = 0 /\ Len(leaving') = 0
  BY <1>1, <1>2
<1> QED
  BY <1>1, <1>2, <1>3 DEF Quiet

\* A step that touches neither the parts nor the numbers.
LEMMA SameParts ==
  ASSUME number' = number, got' = got, requests' = requests, leaving' = leaving, line' = line,
         NEW t \in Threads
  PROVE  (Quiet => Quiet') /\ (InHeader(t) => InHeader(t)') /\ (InBody(t) => InBody(t)')
<1>1. ASSUME NEW k, NEW n, NEW c, NEW e, Remaining(k, n, c, e) PROVE Remaining(k, n, c, e)'
  BY <1>1 DEF Remaining
<1>2. InHeader(t) => InHeader(t)'
  <2> SUFFICES ASSUME InHeader(t) PROVE InHeader(t)'
    OBVIOUS
  <2> QED
    BY <1>1 DEF InHeader
<1>3. InBody(t) => InBody(t)'
  BY <1>1 DEF InBody
<1> QED
  BY <1>2, <1>3 DEF Quiet

LEMMA StepInit == Init => StepInv
<1> SUFFICES ASSUME Init PROVE StepInv
  OBVIOUS
<1>1. Quiet
  BY DEF Init, Quiet
<1>2. ASSUME NEW t \in Threads
      PROVE  pc[t] = "out" /\ number[t] = 0 /\ ret[t] = NoResponse("NO_ERROR")
  BY DEF Init
<1>3. ASSUME NEW t \in Threads PROVE OwnResponse(t)
  BY <1>2 DEF OwnResponse, NoResponse
<1> QED
  BY <1>1, <1>2, <1>3 DEF StepInv

LEMMA StepNext == Safe /\ Safe' /\ StepInv /\ [Next]_vars => StepInv'
<1> SUFFICES ASSUME Safe, Safe', StepInv, [Next]_vars, late' = FALSE PROVE StepInv'
  BY DEF StepInv, Safe, TypeOK
<1>0. TypeOK /\ Exclusive /\ HeaderKept /\ TypeOK'
  BY DEF Safe
<1>1. ASSUME NEW t \in Threads, NEW k \in Kinds, Enter(t, k) PROVE StepInv'
  <2>1. late = FALSE /\ number' = number /\ ret' = ret /\ got' = got
        /\ requests' = requests /\ leaving' = leaving /\ line' = line
    BY <1>1 DEF Enter, modvars
  <2>2. \A u \in Threads : pc'[u] = pc[u] \/ (pc[u] = "out" /\ pc'[u] \in {"send", "lock"})
    BY <1>0, <1>1 DEF Enter, TypeOK
  <2> QED
    BY <2>1, <2>2, SameParts DEF StepInv, OwnResponse
<1>2. ASSUME NEW t \in Threads, Send(t) PROVE StepInv'
  <2>1. \A u \in Threads \ {t} : pc[u] \in {"out", "lock"} /\ pc'[u] = pc[u]
    BY <1>0, <1>2 DEF Send, TypeOK, Exclusive
  <2>2. Quiet /\ late = FALSE
    BY <1>2, <2>1 DEF StepInv, Send
  <2>3. pc'[t] = "header" /\ number'[t] = sent + 1
    BY <1>0, <1>2 DEF Send, TypeOK
  <2>4. requests' = <<sent + 1>> /\ leaving' = <<>> /\ line' = <<>> /\ got' = <<>>
    BY <1>2, <2>2 DEF Send, Quiet
  <2>5. InHeader(t)'
    BY <2>3, <2>4 DEF InHeader
  <2>6. \A u \in Threads : OwnResponse(u)'
    BY <1>0, <1>2, <2>1, <2>2, <2>3 DEF StepInv, OwnResponse, Send, TypeOK
  <2> QED
    BY <2>1, <2>3, <2>5, <2>6 DEF StepInv
<1>3. ASSUME NEW t \in Threads, ReadHeader(t) PROVE StepInv'
  <2>1. late = FALSE /\ number' = number /\ ret' = ret /\ pc' = pc /\ number[t] \in Nat
    BY <1>0, <1>3 DEF ReadHeader, TypeOK
  <2>2. \A u \in Threads \ {t} : pc[u] \in {"out", "lock"}
    BY <1>0, <1>3 DEF ReadHeader, Exclusive, TypeOK
  <2>3. PICK c \in RespCodes, e \in BOOLEAN : Remaining(0, number[t], c, e)
    BY <1>3, <2>1 DEF StepInv, InHeader, ReadHeader
  <2>4. Head(line) = PartOf(1, number[t], c, e) /\ Remaining(1, number[t], c, e)'
    BY <1>0, <1>3, <2>1, <2>3, TakePart DEF ReadHeader
  <2>5. got' = <<PartOf(1, number[t], c, e)>>
    BY <1>3, <2>4 DEF ReadHeader
  <2>6. InHeader(t)'
    BY <2>1, <2>4, <2>5 DEF InHeader
  <2>7. \A u \in Threads : OwnResponse(u)'
    BY <2>1 DEF StepInv, OwnResponse
  <2> QED
    BY <1>3, <2>1, <2>2, <2>6, <2>7 DEF StepInv, ReadHeader
<1>4. ASSUME NEW t \in Threads, HeaderTimeout(t) \/ BodyTimeout(t) PROVE FALSE
  BY <1>4 DEF HeaderTimeout, BodyTimeout
\* The second part of the header is that of the first one.
<1>5. ASSUME NEW t \in Threads, HeaderRead(t)
      PROVE  /\ late = FALSE /\ number' = number /\ number[t] \in Nat
             /\ \A u \in Threads \ {t} : pc[u] \in {"out", "lock", "send"}
             /\ \E c \in RespCodes, e \in BOOLEAN :
                  /\ got = <<PartOf(1, number[t], c, e)>>
                  /\ Head(line) = PartOf(2, number[t], c, e)
                  /\ Remaining(2, number[t], c, e)'
  <2>1. late = FALSE /\ number' = number /\ number[t] \in Nat /\ pc[t] = "header"
    BY <1>0, <1>5 DEF HeaderRead, TypeOK
  <2>2. \A u \in Threads \ {t} : pc[u] \in {"out", "lock", "send"}
    BY <1>0, <1>5 DEF HeaderRead, Exclusive, TypeOK
  <2>3. PICK c \in RespCodes, e \in BOOLEAN :
          got = <<PartOf(1, number[t], c, e)>> /\ Remaining(1, number[t], c, e)
    BY <1>5, <2>1 DEF StepInv, InHeader, HeaderRead
  <2>4. Head(line) = PartOf(2, number[t], c, e) /\ Remaining(2, number[t], c, e)'
    BY <1>0, <1>5, <2>1, <2>3, TakePart DEF HeaderRead
  <2> QED
    BY <2>1, <2>2, <2>3, <2>4
<1>6. ASSUME NEW t \in Threads, BadHeader(t) PROVE FALSE
  <2>1. PICK c \in RespCodes, e \in BOOLEAN :
          got = <<PartOf(1, number[t], c, e)>> /\ Head(line) = PartOf(2, number[t], c, e)
    BY <1>5, <1>6 DEF BadHeader
  <2>2. got[1].part = "head1" /\ got[1].of = number[t]
        /\ Head(line).part = "head2" /\ Head(line).of = number[t]
    BY <2>1 DEF PartOf
  <2> QED
    BY <1>6, <2>2 DEF BadHeader, Completes
<1>7. ASSUME NEW t \in Threads, GoodHeader(t) PROVE StepInv'
  <2>1. PICK c \in RespCodes, e \in BOOLEAN :
          /\ got = <<PartOf(1, number[t], c, e)>>
          /\ Remaining(2, number[t], c, e)'
    BY <1>5, <1>7 DEF GoodHeader
  <2>2. got[1].empty = e
    BY <2>1 DEF PartOf
  <2>3. e = FALSE
    BY <1>7, <2>2, Zenon DEF GoodHeader
  <2>4. late = FALSE /\ number' = number /\ ret' = ret /\ got' = got
        /\ \A u \in Threads \ {t} : pc[u] \in {"out", "lock", "send"} /\ pc'[u] = pc[u]
    BY <1>0, <1>5, <1>7 DEF GoodHeader, HeaderRead, TypeOK
  <2>5. pc'[t] = "body"
    BY <1>0, <1>7 DEF GoodHeader, TypeOK
  <2>6. InBody(t)'
    BY <2>1, <2>3, <2>4 DEF InBody
  <2>7. \A u \in Threads : OwnResponse(u)'
    BY <2>4, <2>5 DEF StepInv, OwnResponse
  <2> QED
    BY <2>4, <2>5, <2>6, <2>7 DEF StepInv
\* A call returns its own response, and nothing of it is left.
<1>8. ASSUME NEW t \in Threads, NEW r \in Result, Return(t, r),
             pc[t] \in {"header", "body"}, number' = number, late = FALSE, kind' = kind,
             r.head = number[t], r.body = number[t], Quiet'
      PROVE  StepInv'
  <2>1. \A u \in Threads : OwnResponse(u)'
    BY <1>0, <1>8, ReturnOwn DEF StepInv
  <2>2. \A u \in Threads : pc'[u] \notin {"header", "body"}
    BY <1>0, <1>8, ReturnExclusive
  <2> QED
    BY <1>8, <2>1, <2>2 DEF StepInv
<1>9. ASSUME NEW t \in Threads, EmptyHeader(t) PROVE StepInv'
  <2>1. PICK c \in RespCodes, e \in BOOLEAN :
          /\ got = <<PartOf(1, number[t], c, e)>>
          /\ Remaining(2, number[t], c, e)'
    BY <1>5, <1>9 DEF EmptyHeader
  <2>2. got[1].empty = e /\ got[1].of = number[t] /\ got[1].code = c
    BY <2>1 DEF PartOf
  <2>3. e = TRUE
    BY <1>9, <2>2, Zenon DEF EmptyHeader
  <2>4. 2 = PartsNb(e)
    BY <2>3, Zenon DEF PartsNb
  <2>5. Quiet'
    BY <1>0, <1>5, <1>9, <2>1, <2>4, AllTaken, Zenon DEF EmptyHeader
  <2> DEFINE r == [code |-> IF end < NoDataLimit THEN got[1].code ELSE "NO_DATA",
                   empty |-> TRUE, head |-> got[1].of, body |-> got[1].of]
  <2>6. r \in Result /\ r.head = number[t] /\ r.body = number[t]
    BY <1>5, <1>9, <2>2 DEF Result, Codes, RespCodes, EmptyHeader
  <2>7. Return(t, r)
    BY <1>9 DEF EmptyHeader
  <2> HIDE DEF r
  <2> QED
    BY <1>5, <1>8, <1>9, <2>5, <2>6, <2>7 DEF EmptyHeader, HeaderRead
<1>10. ASSUME NEW t \in Threads, ReadBody(t) PROVE StepInv'
  <2>1. late = FALSE /\ number' = number /\ number[t] \in Nat
    BY <1>0, <1>10 DEF ReadBody, TypeOK
  <2>2. PICK c \in RespCodes :
          got = <<PartOf(1, number[t], c, FALSE)>> /\ Remaining(2, number[t], c, FALSE)
    BY <1>10, <2>1 DEF StepInv, InBody, ReadBody
  <2>3. Head(line) = PartOf(3, number[t], c, FALSE) /\ Remaining(3, number[t], c, FALSE)'
    <3>1. line # <<>> /\ line' = Tail(line) /\ leaving' = leaving /\ requests' = requests
      BY <1>10 DEF ReadBody
    <3>2. 3 = 2 + 1
      OBVIOUS
    <3> QED
      BY <1>0, <2>1, <2>2, <3>1, <3>2, TakePart, Zenon
  <2>4. 3 = PartsNb(FALSE)
    BY DEF PartsNb
  <2>5. Quiet'
    BY <1>0, <2>1, <2>3, <2>4, AllTaken, Zenon
  <2> DEFINE r == [code |-> got[1].code, empty |-> FALSE, head |-> got[1].of,
                   body |-> Head(line).of]
  <2>6. got[1].of = number[t] /\ got[1].code = c /\ Head(line).of = number[t]
    BY <2>2, <2>3 DEF PartOf
  <2>7. r \in Result /\ r.head = number[t] /\ r.body = number[t]
    BY <2>1, <2>6 DEF Result, Codes, RespCodes
  <2>8. Return(t, r)
    BY <1>10 DEF ReadBody
  <2> HIDE DEF r
  <2> QED
    BY <1>8, <1>10, <2>1, <2>5, <2>7, <2>8 DEF ReadBody
<1>11. ASSUME Answer PROVE StepInv'
  <2>1. late = FALSE /\ pc' = pc /\ number' = number /\ ret' = ret /\ got' = got
    BY <1>11 DEF Answer
  <2>2. PICK t \in Threads : pc[t] \in {"header", "body"}
    BY <1>11, <2>1 DEF StepInv, Quiet, Answer
  <2>3. pc[t] = "header" /\ requests = <<number[t]>> /\ line = <<>> /\ got = <<>>
    BY <1>11, <2>1, <2>2 DEF StepInv, InHeader, InBody, Remaining, Answer
  <2>4. number[t] \in Nat /\ \A u \in Threads \ {t} : pc[u] \notin {"header", "body"}
    BY <1>0, <2>2 DEF TypeOK, Exclusive
  <2>5. Head(requests) = number[t] /\ requests' = <<>>
    BY <1>11, <2>3 DEF Answer
  <2>6. PICK c \in RespCodes, e \in BOOLEAN :
          /\ line' = Append(line, Head(Response(number[t], c, e)))
          /\ leaving' = Tail(Response(number[t], c, e))
    BY <1>11, <2>5 DEF Answer, RespCodes
  <2>7. Remaining(0, number[t], c, e)'
    <3>1. number[t] \in Nat /\ line = <<>> /\ requests' = <<>> /\ number' = number
      BY <2>1, <2>3, <2>4, <2>5
    <3> QED
      BY <2>6, <3>1, AnswerPart
  <2>8. InHeader(t)'
    BY <2>1, <2>3, <2>7 DEF InHeader
  <2>9. \A u \in Threads : OwnResponse(u)'
    BY <2>1 DEF StepInv, OwnResponse
  <2> QED
    BY <2>1, <2>3, <2>4, <2>8, <2>9 DEF StepInv
<1>12. ASSUME Emit PROVE StepInv'
  <2>1. late = FALSE /\ pc' = pc /\ number' = number /\ ret' = ret /\ got' = got
        /\ leaving # <<>>
    BY <1>12 DEF Emit
  <2>2. \A u \in Threads : OwnResponse(u)'
    BY <2>1 DEF StepInv, OwnResponse
  <2>3. ~ \A u \in Threads : pc[u] \notin {"header", "body"}
    BY <2>1 DEF StepInv, Quiet
  <2>4. ASSUME NEW t \in Threads, pc[t] = "header" PROVE InHeader(t)'
    <3>1. number[t] \in Nat
      BY <1>0 DEF TypeOK
    <3>2. PICK c \in RespCodes, e \in BOOLEAN :
            \/ got = <<>> /\ Remaining(0, number[t], c, e)
            \/ got = <<PartOf(1, number[t], c, e)>> /\ Remaining(1, number[t], c, e)
      BY <2>1, <2>4 DEF StepInv, InHeader
    <3>3. \/ got = <<>> /\ Remaining(0, number[t], c, e)'
          \/ got = <<PartOf(1, number[t], c, e)>> /\ Remaining(1, number[t], c, e)'
      BY <1>0, <1>12, <2>1, <3>1, <3>2, EmitPart
    <3> QED
      BY <2>1, <3>3 DEF InHeader
  <2>5. ASSUME NEW t \in Threads, pc[t] = "body" PROVE InBody(t)'
    <3>1. number[t] \in Nat
      BY <1>0 DEF TypeOK
    <3>2. PICK c \in RespCodes :
            got = <<PartOf(1, number[t], c, FALSE)>> /\ Remaining(2, number[t], c, FALSE)
      BY <2>1, <2>5 DEF StepInv, InBody
    <3>3. Remaining(2, number[t], c, FALSE)'
      BY <1>0, <1>12, <2>1, <3>1, <3>2, EmitPart
    <3> QED
      BY <2>1, <3>2, <3>3 DEF InBody
  <2> QED
    BY <2>1, <2>2, <2>3, <2>4, <2>5 DEF StepInv
<1>13. ASSUME UNCHANGED vars PROVE StepInv'
  <2>1. late = FALSE /\ pc' = pc /\ number' = number /\ ret' = ret /\ got' = got
        /\ requests' = requests /\ leaving' = leaving /\ line' = line
    BY <1>13 DEF vars
  <2>2. \A u \in Threads : OwnResponse(u)'
    BY <2>1 DEF StepInv, OwnResponse
  <2>3. Quiet => Quiet'
    BY <2>1 DEF Quiet
  <2> QED
    BY <2>1, <2>2, <2>3, SameParts DEF StepInv
<1> QED
  BY <1>1, <1>2, <1>3, <1>4, <1>6, <1>7, <1>9, <1>10, <1>11, <1>12, <1>13
  DEF Next, Run, Module

\* As long as no read times out, every call of the driver gets the response of its own
\* command, whatever the interleaving of the threads, and nothing of a response is left
\* for the next call.
THEOREM StaysInStep == Spec => []InStep
<1>1. Init => Safe /\ StepInv
  BY TypeInit, ExclusiveInit, StepInit DEF Safe
<1>2. Safe /\ StepInv /\ [Next]_vars => (Safe /\ StepInv)'
  BY TypeNext, ExclusiveNext, StepNext DEF Safe
<1>3. Safe /\ StepInv => InStep
  BY DEF StepInv, InStep, Quiet
<1> QED
  BY <1>1, <1>2, <1>3, PTL DEF Spec

=============================================================================
