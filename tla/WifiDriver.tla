------------------------------ MODULE WifiDriver ------------------------------
(***************************************************************************)
(* The driver of the Wi-Fi module (wifi.c): threads call it to send a      *)
(* command over the serial line and read its response, one at a time       *)
(* under wifi_mutex.                                                       *)
(*                                                                         *)
(* Every command gets a number.  A response is a sequence of three parts,  *)
(* each carrying the number of its command: two parts of a header and the  *)
(* body with its END OF FRAME characters; a response of length 0 has no    *)
(* body.  The module answers the commands in the order it receives them.   *)
(* The parts arrive one by one, so a read of the header can time out with  *)
(* a part of it consumed.  Texts of commands and bodies are left out.      *)
(***************************************************************************)
EXTENDS Integers, Sequences

CONSTANTS Threads,      \* the threads that call the driver
          None,         \* not a thread: the mutex has no owner
          NoDataLimit   \* empty responses in a row that are not yet an error (20)

ASSUME ThreadsAssumption == None \notin Threads
ASSUME LimitAssumption == NoDataLimit \in Nat

VARIABLES
  owner,    \* wifi_mutex: its owner
  pc,       \* where each thread is in the driver
  kind,     \* the function of the driver it has called
  number,   \* the number of the command it has sent
  ret,      \* the wifi_response_header it got, and whose header and body that was
            \* (0: none, or a header whose body has not come)
  got,      \* the first part of the header the owner of the mutex has read
  end,      \* the static counter of get_response
  body,     \* response_body: the number of the command its contents answer
  sent,     \* the number of commands sent so far
  requests, \* the commands the module has not looked at
  leaving,  \* what it has still to send of the current response
  line,     \* the parts in the input queue of the serial driver
  late      \* history: a read has timed out

vars == <<owner, pc, kind, number, ret, got, end, body, sent, requests, leaving, line, late>>
modvars == <<requests, leaving, line>>

\* read_buffer, wifi_read for the audio, read_music, send_cmd, and wifi_write
\* with and without timeouts.
Kinds == {"read", "audio", "http", "cmd", "write", "write_timed"}
Timed == {"read", "audio", "write_timed"}

\* Every response but that of an audio read goes to response_body.
ToBody(k) == k # "audio"

Codes == {"NO_ERROR", "COMMAND_FAILED", "SAFEMODE", "HEADER_ERROR", "HEADER_TIMEOUT", "NO_DATA"}
Part == [of : Nat, part : {"head1", "head2", "body"},
         code : {"NO_ERROR", "COMMAND_FAILED", "SAFEMODE"}, empty : BOOLEAN]

\* What the caller gets without a header.
NoResponse(code) == [code |-> code, empty |-> TRUE, head |-> 0, body |-> 0]

Init ==
  /\ owner = None
  /\ pc = [t \in Threads |-> "out"]
  /\ kind = [t \in Threads |-> "cmd"]
  /\ number = [t \in Threads |-> 0]
  /\ ret = [t \in Threads |-> NoResponse("NO_ERROR")]
  /\ got = <<>> /\ end = 0 /\ body = 0 /\ sent = 0
  /\ requests = <<>> /\ leaving = <<>> /\ line = <<>>
  /\ late = FALSE

----------------------------------------------------------------------------
(* The threads.                                                            *)

\* Mutants of Enter: without chMtxLock, and with a recursive mutex.
EnterUnlocked(t, k) ==
  /\ pc[t] = "out"
  /\ kind' = [kind EXCEPT ![t] = k]
  /\ owner' = t /\ pc' = [pc EXCEPT ![t] = "send"]
  /\ UNCHANGED <<number, ret, got, end, body, sent, modvars, late>>

EnterAgain(t, k) ==
  /\ pc[t] = "out"
  /\ kind' = [kind EXCEPT ![t] = k]
  /\ IF owner \in {None, t}
     THEN owner' = t /\ pc' = [pc EXCEPT ![t] = "send"]
     ELSE UNCHANGED owner /\ pc' = [pc EXCEPT ![t] = "lock"]
  /\ UNCHANGED <<number, ret, got, end, body, sent, modvars, late>>

\* Thread t calls function k, whose first step is chMtxLock.  The mutex is not
\* recursive: a thread that has kept it waits for itself.
Enter(t, k) ==
  /\ pc[t] = "out"
  /\ kind' = [kind EXCEPT ![t] = k]
  /\ IF owner = None
     THEN owner' = t /\ pc' = [pc EXCEPT ![t] = "send"]
     ELSE UNCHANGED owner /\ pc' = [pc EXCEPT ![t] = "lock"]
  /\ UNCHANGED <<number, ret, got, end, body, sent, modvars, late>>

Send(t) ==
  /\ pc[t] = "send"
  /\ pc' = [pc EXCEPT ![t] = "header"]
  /\ sent' = sent + 1
  /\ number' = [number EXCEPT ![t] = sent + 1]
  /\ requests' = Append(requests, sent + 1)
  /\ got' = <<>>
  /\ UNCHANGED <<owner, kind, ret, end, body, leaving, line, late>>

\* The call returns r.  chMtxUnlock hands the mutex over to a thread that waits for
\* it.  read_music returns without unlocking the mutex when the response is an error.
Return(t, r) ==
  /\ ret' = [ret EXCEPT ![t] = r]
  /\ \/ /\ kind[t] = "http" /\ r.code # "NO_ERROR"
        /\ pc' = [pc EXCEPT ![t] = "out"]
        /\ UNCHANGED owner
     \/ /\ ~(kind[t] = "http" /\ r.code # "NO_ERROR")
        /\ \A u \in Threads : pc[u] # "lock"
        /\ pc' = [pc EXCEPT ![t] = "out"]
        /\ owner' = None
     \/ /\ ~(kind[t] = "http" /\ r.code # "NO_ERROR")
        /\ \E u \in Threads :
             /\ pc[u] = "lock"
             /\ pc' = [pc EXCEPT ![t] = "out", ![u] = "send"]
             /\ owner' = u

\* Mutant of ReadHeader: it goes on reading after the end of the first part.
ReadHeaderOn(t) ==
  /\ pc[t] = "header" /\ line # <<>>
  /\ got' = Append(got, Head(line))
  /\ line' = Tail(line)
  /\ UNCHANGED <<owner, pc, kind, number, ret, end, body, sent, requests, leaving, late>>

\* The nine bytes of the header are read in two parts, whatever they are.
ReadHeader(t) ==
  /\ pc[t] = "header" /\ got = <<>> /\ line # <<>>
  /\ got' = <<Head(line)>>
  /\ line' = Tail(line)
  /\ UNCHANGED <<owner, pc, kind, number, ret, end, body, sent, requests, leaving, late>>

\* The header is not complete after 40 ms: what has been read of it is lost.
HeaderTimeout(t) ==
  /\ pc[t] = "header" /\ line = <<>>
  /\ kind[t] \in Timed
  /\ late' = TRUE
  /\ Return(t, NoResponse("HEADER_TIMEOUT"))
  /\ UNCHANGED <<kind, number, got, end, body, sent, modvars>>

\* The second part p completes the header.
Completes(p) == got[1].part = "head1" /\ p.part = "head2" /\ p.of = got[1].of

HeaderRead(t) ==
  /\ pc[t] = "header" /\ got # <<>> /\ line # <<>>
  /\ line' = Tail(line)
  /\ UNCHANGED <<kind, number, got, sent, requests, leaving, late>>

\* The bytes read do not start with R or S.
BadHeader(t) ==
  /\ HeaderRead(t) /\ ~Completes(Head(line))
  /\ Return(t, NoResponse("HEADER_ERROR"))
  /\ UNCHANGED <<end, body>>

\* Mutant of GoodHeader: a length of 0 is not looked at.
AnyHeader(t) ==
  /\ HeaderRead(t) /\ Completes(Head(line))
  /\ end' = 0
  /\ pc' = [pc EXCEPT ![t] = "body"]
  /\ UNCHANGED <<owner, ret, body>>

\* The header announces a body.
GoodHeader(t) ==
  /\ HeaderRead(t) /\ Completes(Head(line)) /\ ~got[1].empty
  /\ end' = 0
  /\ pc' = [pc EXCEPT ![t] = "body"]
  /\ UNCHANGED <<owner, ret, body>>

\* The header announces nothing: an error after NoDataLimit of them.  The string in
\* response_body becomes empty, the body of this response.
EmptyHeader(t) ==
  /\ HeaderRead(t) /\ Completes(Head(line)) /\ got[1].empty
  /\ end' = IF end < NoDataLimit THEN end + 1 ELSE end
  /\ body' = IF ToBody(kind[t]) THEN got[1].of ELSE body
  /\ Return(t, [code |-> IF end < NoDataLimit THEN got[1].code ELSE "NO_DATA",
                empty |-> TRUE, head |-> got[1].of, body |-> got[1].of])

\* Mutant of ReadBody: the body is left on the line.
ReadBodyNot(t) ==
  /\ pc[t] = "body" /\ line # <<>>
  /\ line' = line
  /\ body' = IF ToBody(kind[t]) THEN Head(line).of ELSE body
  /\ Return(t, [code |-> got[1].code, empty |-> FALSE,
                head |-> got[1].of, body |-> Head(line).of])
  /\ UNCHANGED <<kind, number, got, end, sent, requests, leaving, late>>

ReadBody(t) ==
  /\ pc[t] = "body" /\ line # <<>>
  /\ line' = Tail(line)
  /\ body' = IF ToBody(kind[t]) THEN Head(line).of ELSE body
  /\ Return(t, [code |-> got[1].code, empty |-> FALSE,
                head |-> got[1].of, body |-> Head(line).of])
  /\ UNCHANGED <<kind, number, got, end, sent, requests, leaving, late>>

\* The results of the two reads of the body are not looked at.
BodyTimeout(t) ==
  /\ pc[t] = "body" /\ line = <<>>
  /\ kind[t] \in Timed
  /\ late' = TRUE
  /\ body' = IF ToBody(kind[t]) THEN 0 ELSE body
  /\ Return(t, [code |-> got[1].code, empty |-> FALSE, head |-> got[1].of, body |-> 0])
  /\ UNCHANGED <<kind, number, got, end, sent, modvars>>

Run(t) ==
  \/ Send(t) \/ ReadHeader(t) \/ HeaderTimeout(t) \/ BadHeader(t)
  \/ GoodHeader(t) \/ EmptyHeader(t) \/ ReadBody(t) \/ BodyTimeout(t)

----------------------------------------------------------------------------
(* The module, external to the board.                                      *)

Response(n, c, empty) ==
  LET p(what) == [of |-> n, part |-> what, code |-> c, empty |-> empty]
  IN IF empty THEN <<p("head1"), p("head2")>> ELSE <<p("head1"), p("head2"), p("body")>>

\* The module starts to answer.  A failed command, or the safe mode, comes with a text.
Answer ==
  /\ leaving = <<>> /\ requests # <<>>
  /\ \E c \in {"NO_ERROR", "COMMAND_FAILED", "SAFEMODE"}, empty \in BOOLEAN :
       /\ empty => c = "NO_ERROR"
       /\ line' = Append(line, Head(Response(Head(requests), c, empty)))
       /\ leaving' = Tail(Response(Head(requests), c, empty))
  /\ requests' = Tail(requests)
  /\ UNCHANGED <<owner, pc, kind, number, ret, got, end, body, sent, late>>

Emit ==
  /\ leaving # <<>>
  /\ line' = Append(line, Head(leaving))
  /\ leaving' = Tail(leaving)
  /\ UNCHANGED <<owner, pc, kind, number, ret, got, end, body, sent, requests, late>>

Module == Answer \/ Emit

Next ==
  \/ \E t \in Threads : (\E k \in Kinds : Enter(t, k)) \/ Run(t)
  \/ Module

Spec == Init /\ [][Next]_vars

----------------------------------------------------------------------------

\* The type invariant.
TypeOK ==
  /\ owner \in Threads \cup {None}
  /\ pc \in [Threads -> {"out", "lock", "send", "header", "body"}]
  /\ kind \in [Threads -> Kinds]
  /\ number \in [Threads -> Nat]
  /\ ret \in [Threads -> [code : Codes, empty : BOOLEAN, head : Nat, body : Nat]]
  /\ got \in Seq(Part) /\ Len(got) <= 1
  /\ end \in Nat /\ body \in Nat /\ sent \in Nat
  /\ requests \in Seq(Nat) /\ leaving \in Seq(Part) /\ line \in Seq(Part)
  /\ late \in BOOLEAN

\* A read_music that failed has left the mutex locked.
Leaked == owner # None /\ pc[owner] \in {"out", "lock"}

\* One thread at a time talks to the module, from the command to the end of the
\* response, and no call but a read_music that failed leaves the mutex locked.
Exclusive ==
  \A t \in Threads :
    /\ pc[t] \in {"send", "header", "body"} => owner = t
    /\ owner = t /\ pc[t] \in {"out", "lock"} => ret[t].code # "NO_ERROR"
    /\ owner = t /\ pc[t] = "out" => kind[t] = "http"

\* Once the mutex is left locked no thread, not even the one that left it so, ever
\* sends a command again (wifi.c:227).
ShutForGood == [][Leaked => Leaked' /\ sent' = sent]_vars

\* The call thread t has just made got the header and the body of its own command.
OwnResponse(t) ==
  pc[t] = "out" /\ ret[t].code \in {"NO_ERROR", "COMMAND_FAILED", "SAFEMODE", "NO_DATA"} =>
    ret[t].head = number[t] /\ ret[t].body = number[t]

\* As long as no read times out, every call gets its own response, and when nobody
\* waits for a response nothing of one is left on the line.
InStep ==
  ~late =>
    /\ \A t \in Threads : OwnResponse(t)
    /\ (\A t \in Threads : pc[t] \notin {"header", "body"}) =>
         requests = <<>> /\ leaving = <<>> /\ line = <<>>

\* Every call ends: no read, not even an untimed one, waits for ever for a response,
\* even when timeouts have left parts of older responses on the line.
CallsReturn == []<>(\A t \in Threads : pc[t] \notin {"header", "body"})

----------------------------------------------------------------------------
(* What the driver promises: WifiService.                                  *)

\* A thread is served while it owns the mutex.
StageOf == [out |-> "out", lock |-> "waiting", send |-> "chosen",
            header |-> "asked", body |-> "asked"]
ClassOf(k) == IF k \in Timed THEN "timed" ELSE IF k = "http" THEN "download" ELSE "patient"

Service == INSTANCE WifiService WITH
  serving <- owner,
  stage <- [t \in Threads |-> StageOf[pc[t]]],
  call <- [t \in Threads |-> ClassOf(kind[t])],
  reply <- ret,
  asked <- sent,
  lossy <- late

\* The driver, with its mutex, its line and its two-part headers, serves its callers as
\* WifiService says: one at a time, each with its own response until a read times out, and
\* even then never with a response that was meant for a later call (wifi.c:77-225).
ImplementsService == Service!Spec

=============================================================================
