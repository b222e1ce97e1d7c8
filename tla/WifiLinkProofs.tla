---------------------------- MODULE WifiLinkProofs ----------------------------
(***************************************************************************)
(* Theorems about the threads that share the Wi-Fi driver: they use it as  *)
(* its specification says, so that the theorems of WifiDriverProofs hold   *)
(* of them, and the channel of the connection is read in time.             *)
(***************************************************************************)
EXTENDS WifiLink, WifiDriverProofs

\* What a thread calls is a function of the driver.
LEMMA CallKinds ==
  /\ \A p \in DOMAIN CallOf : CallOf[p] \in Kinds
  /\ \A p \in DOMAIN Writes : Writes[p] \in Kinds
  /\ \A p \in DOMAIN Reads : Reads[p] \in Kinds
<1>1. \A p \in DOMAIN CallOf : CallOf[p] = "cmd"
  BY DEF CallOf
<1>2. \A p \in DOMAIN Writes : Writes[p] \in {"write", "write_timed"}
  BY DEF Writes
<1>3. \A p \in DOMAIN Reads : Reads[p] \in {"read", "http", "audio"}
  BY DEF Reads
<1> QED
  BY <1>1, <1>2, <1>3 DEF Kinds

\* Every step of the threads is a step of the driver, or changes nothing of it.
LEMMA LinkStep == [LinkNext]_allvars => [Next]_vars
<1> SUFFICES ASSUME [LinkNext]_allvars PROVE [Next]_vars
  OBVIOUS
<1>1. CASE Call
  <2>1. PICK t \in Threads : \E k \in Kinds : Enter(t, k)
    BY <1>1, CallKinds DEF Call
  <2> QED
    BY <2>1 DEF Next
<1>2. CASE Driver
  BY <1>2 DEF Driver, Next
<1>3. CASE Wifi
  BY <1>3 DEF Wifi, Next
<1>4. CASE \/ Booted \/ ExitSafeMode \/ Recovery \/ Connect \/ Connected \/ KeepAlive
           \/ Interrupt \/ Triggered \/ Received \/ Parse \/ Executed \/ Download \/ Notify
  <2>1. vars' = vars
    BY <1>4, Zenon DEF Booted, ExitSafeMode, Recovery, Connect, Connected, KeepAlive, Interrupt,
       Triggered, Received, Parse, Executed, Download, Notify, Back, Goto
  <2> QED
    BY <2>1
<1>5. CASE UNCHANGED allvars
  BY <1>5 DEF allvars
<1> QED
  BY <1>1, <1>2, <1>3, <1>4, <1>5 DEF LinkNext

\* The threads of websocket.c and sound.c use the driver of wifi.c as its specification
\* says: the link implements the driver.
THEOREM LinkImplementsDriver == LinkSpec => Spec
<1>1. LinkInit => Init
  BY DEF LinkInit
<1> QED
  BY <1>1, LinkStep, PTL DEF LinkSpec, Spec

----------------------------------------------------------------------------
(* The theorems of the driver hold of its callers.                         *)

\* The threads of websocket.c, sound.c, alarm.c and fdc2214.c talk to the Wi-Fi module one
\* at a time (wifi_mutex).
COROLLARY LinkExclusive == LinkSpec => []Exclusive
  BY LinkImplementsDriver, MutualExclusion, PTL

\* As long as no read times out, each of these threads gets its own responses.
COROLLARY LinkInStep == LinkSpec => []InStep
  BY LinkImplementsDriver, StaysInStep, PTL

\* After a failed read_music none of these threads sends a command any more (wifi.c:227).
COROLLARY LinkShut == LinkSpec => ShutForGood
  BY LinkImplementsDriver, FailedDownloadShuts, PTL

----------------------------------------------------------------------------
(* Types of the link.                                                      *)

Phases == Cmds \cup DOMAIN Writes \cup DOMAIN Reads \cup
          {"off", "idle", "channel", "gone", "wait", "parse"}

LinkTypes ==
  /\ phase \in [Threads -> Phases]
  /\ begun \in [Threads -> BOOLEAN]
  /\ booted \in BOOLEAN /\ web_bsem \in BOOLEAN /\ download_bsem \in BOOLEAN
  /\ message \in 0..sent

\* No thread has the number of a command that has not been sent.
Numbered == \A t \in Threads : number[t] <= sent

LEMMA NumberedInit == Init => Numbered
<1> SUFFICES ASSUME Init, NEW t \in Threads PROVE number[t] <= sent
  BY DEF Numbered
<1>1. number[t] = 0 /\ sent = 0
  BY DEF Init
<1> QED
  BY <1>1

LEMMA NumberedNext == TypeOK /\ Numbered /\ [Next]_vars => Numbered' /\ sent <= sent'
<1> SUFFICES ASSUME TypeOK, Numbered, [Next]_vars PROVE Numbered' /\ sent <= sent'
  OBVIOUS
<1>1. ASSUME NEW t \in Threads, Send(t) PROVE Numbered' /\ sent <= sent'
  BY <1>1 DEF Send, TypeOK, Numbered
<1>2. CASE UNCHANGED <<number, sent>>
  BY <1>2 DEF Numbered, TypeOK
<1>3. CASE UNCHANGED vars
  BY <1>2, <1>3 DEF vars
<1>4. ASSUME NEW t \in Threads, NEW k \in Kinds, Enter(t, k) PROVE UNCHANGED <<number, sent>>
  BY <1>4 DEF Enter
<1>5. ASSUME NEW t \in Threads, Run(t), ~Send(t) PROVE UNCHANGED <<number, sent>>
  BY <1>5 DEF Run, ReadHeader, HeaderTimeout, HeaderRead, BadHeader, GoodHeader, EmptyHeader,
     ReadBody, BodyTimeout
<1>6. ASSUME Module PROVE UNCHANGED <<number, sent>>
  BY <1>6 DEF Module, Answer, Emit
<1> QED
  BY <1>1, <1>2, <1>3, <1>4, <1>5, <1>6 DEF Next

LEMMA LinkTypesInit == LinkInit => LinkTypes
<1> SUFFICES ASSUME LinkInit PROVE LinkTypes
  OBVIOUS
<1>1. phase \in [Threads -> Phases]
  BY ClientsAssumption DEF LinkInit, Phases, Cmds
<1>2. message \in 0..sent
  BY DEF LinkInit, Init
<1> QED
  BY <1>1, <1>2 DEF LinkInit, LinkTypes

\* What changes no phase.
LEMMA StillTypes ==
  ASSUME TypeOK, TypeOK', Numbered, LinkTypes, [Next]_vars, UNCHANGED linkvars
  PROVE  LinkTypes'
<1>1. sent \in Nat /\ sent' \in Nat /\ sent <= sent'
  BY NumberedNext DEF TypeOK
<1> QED
  BY <1>1 DEF LinkTypes, linkvars

\* A move of thread t to phase q.
LEMMA MoveTypes ==
  ASSUME LinkTypes, NEW t \in Threads, NEW p \in Phases, NEW q \in Phases,
         Back(t, p, q) \/ Goto(t, p, q)
  PROVE  /\ phase' \in [Threads -> Phases]
         /\ begun' \in [Threads -> BOOLEAN]
         /\ sent' = sent
<1>1. phase' = [phase EXCEPT ![t] = q] /\ sent' = sent
  BY DEF Back, Goto, vars
<1>2. begun' = begun \/ begun' = [begun EXCEPT ![t] = FALSE]
  BY DEF Back, Goto
<1>3. begun' \in [Threads -> BOOLEAN]
  BY <1>2 DEF LinkTypes
<1> QED
  BY <1>1, <1>3 DEF LinkTypes

LEMMA LinkTypesNext ==
  TypeOK /\ TypeOK' /\ Numbered /\ LinkTypes /\ [LinkNext]_allvars => LinkTypes'
<1> SUFFICES ASSUME TypeOK, TypeOK', Numbered, LinkTypes, [LinkNext]_allvars PROVE LinkTypes'
  OBVIOUS
<1>0. [Next]_vars
  BY LinkStep
<1>1. CASE Call
  <2>1. PICK t \in Threads : begun' = [begun EXCEPT ![t] = TRUE]
    BY <1>1 DEF Call
  <2>2. sent' \in Nat /\ sent <= sent'
    BY <1>0, NumberedNext DEF TypeOK
  <2>3. UNCHANGED <<phase, booted, web_bsem, download_bsem, message>>
    BY <1>1 DEF Call
  <2>4. begun' \in [Threads -> BOOLEAN]
    BY <2>1 DEF LinkTypes
  <2>5. message' \in 0..sent'
    BY <2>2, <2>3 DEF LinkTypes, TypeOK
  <2>6. booted' \in BOOLEAN /\ web_bsem' \in BOOLEAN /\ download_bsem' \in BOOLEAN
    BY <2>3, Zenon DEF LinkTypes
  <2>7. phase' \in [Threads -> Phases]
    BY <2>3 DEF LinkTypes
  <2> QED
    BY <2>4, <2>5, <2>6, <2>7 DEF LinkTypes
<1>2. CASE UNCHANGED linkvars
  BY <1>0, <1>2, StillTypes
<1>3. CASE Driver \/ Wifi \/ UNCHANGED allvars
  BY <1>2, <1>3 DEF Driver, Wifi, allvars
<1> DEFINE Moved == \E t \in Threads, p \in Phases, q \in Phases : Back(t, p, q) \/ Goto(t, p, q)
<1>4. Moved => /\ phase' \in [Threads -> Phases]
               /\ begun' \in [Threads -> BOOLEAN]
               /\ sent' = sent
  BY MoveTypes
<1> HIDE DEF Moved
<1>5. /\ {"S", "X", "W", "A"} \subseteq Threads
      /\ Cmds \subseteq Phases /\ {"sync", "keepalive", "get", "notify"} \subseteq Phases
      /\ {"read", "play", "audio"} \subseteq Phases
      /\ {"off", "idle", "channel", "gone", "wait", "parse"} \subseteq Phases
  BY ClientsAssumption DEF Phases, Writes, Reads
<1>6. CASE Booted \/ ExitSafeMode \/ Recovery \/ Connect \/ KeepAlive
  <2>1. Moved
    BY <1>5, <1>6 DEF Moved, Booted, ExitSafeMode, Recovery, Recover, Connect, KeepAlive, Cmds
  <2>2. booted' \in BOOLEAN /\ UNCHANGED <<web_bsem, download_bsem, message>>
    BY <1>6 DEF LinkTypes, Booted, ExitSafeMode, Recovery, Connect, KeepAlive, Error
  <2> QED
    BY <1>4, <2>1, <2>2 DEF LinkTypes
<1>7. CASE Connected
  BY <1>5, <1>7 DEF LinkTypes, Connected, vars
<1>8. CASE Interrupt
  BY <1>8 DEF LinkTypes, Interrupt, vars
<1>9. CASE Triggered \/ Parse \/ Executed \/ Download \/ Notify
  <2>1. Moved
    BY <1>5, <1>9 DEF Moved, Triggered, Parse, Executed, Download, Notify, Cmds
  <2>2. /\ booted' \in BOOLEAN /\ web_bsem' \in BOOLEAN /\ download_bsem' \in BOOLEAN
        /\ message' = message
    BY <1>9 DEF LinkTypes, Triggered, Parse, Executed, Download, Notify, Error
  <2> QED
    BY <1>4, <2>1, <2>2 DEF LinkTypes
<1>10. CASE Received
  <2>1. Moved
    BY <1>5, <1>10 DEF Moved, Received
  <2>2. message' \in 0..sent
    BY <1>5, <1>10 DEF Received, TypeOK, Numbered
  <2>3. UNCHANGED <<booted, web_bsem, download_bsem>>
    BY <1>10 DEF Received
  <2> QED
    BY <1>4, <2>1, <2>2, <2>3 DEF LinkTypes
<1> QED
  BY <1>1, <1>3, <1>6, <1>7, <1>8, <1>9, <1>10 DEF LinkNext

\* The phases and flags of the threads are what websocket.c and sound.c give them, and the
\* message being parsed was read by a command that was sent (websocket.c:56).
THEOREM LinkTypeCorrect == LinkSpec => []LinkTypeOK
<1>1. LinkInit => Init
  BY DEF LinkInit
<1>2. LinkTypes /\ TypeOK => LinkTypeOK
  BY DEF LinkTypes, LinkTypeOK, Phases
<1>3. TypeOK /\ Numbered /\ [Next]_vars => Numbered'
  BY NumberedNext
<1> QED
  BY <1>1, <1>2, <1>3, LinkStep, NumberedInit, LinkTypesInit, LinkTypesNext, LinkImplementsDriver,
     TypeCorrect, PTL DEF LinkSpec

----------------------------------------------------------------------------
(* The channel of the connection.                                          *)

\* The calls of thread S before websocket_ext is started: none can time out, and the one
\* that has returned without an error has left its response in response_body.
Starting ==
  /\ phase["S"] \in Cmds \cup {"channel"}
  /\ ~begun["S"] => pc["S"] = "out"
  /\ begun["S"] => phase["S"] \in Cmds /\ kind["S"] = "cmd"
  /\ begun["S"] /\ pc["S"] = "out" /\ ret["S"].code = "NO_ERROR" => body = ret["S"].body
  /\ phase["S"] = "channel" => body = number["S"]

\* Until websocket_ext is started thread S is alone with the driver; afterwards the channel
\* has been read.
Alone ==
  IF phase["X"] = "off"
  THEN /\ ~late /\ ~download_bsem /\ phase["W"] = "idle" /\ phase["A"] = "off"
       /\ \A t \in Threads \ {"S"} : ~begun[t] /\ pc[t] = "out"
       /\ Starting
  ELSE phase["S"] \in {"sync", "keepalive", "gone"}

LEMMA AloneInit == LinkInit => Alone
<1> SUFFICES ASSUME LinkInit PROVE Alone
  OBVIOUS
<1>1. {"S", "X", "W", "A"} = Threads
  BY ClientsAssumption
<1>2. /\ phase["S"] = "boot" /\ phase["X"] = "off" /\ phase["W"] = "idle" /\ phase["A"] = "off"
      /\ \A t \in Threads : ~begun[t] /\ pc[t] = "out"
      /\ ~late /\ ~download_bsem
  BY <1>1 DEF LinkInit, Init
<1>3. Starting
  BY <1>1, <1>2 DEF Starting, Cmds
<1> QED
  BY <1>2, <1>3 DEF Alone

\* A call that S makes is one of send_cmd, and nobody else makes one.
LEMMA AloneCall ==
  ASSUME TypeOK, LinkTypes, Alone, Call
  PROVE  Alone'
<1>1. /\ {"S", "X", "W", "A"} = Threads
      /\ phase' = phase /\ download_bsem' = download_bsem
  BY ClientsAssumption DEF Call
<1>2. CASE phase["X"] # "off"
  BY <1>1, <1>2 DEF Alone
<1>3. CASE phase["X"] = "off"
  <2>1. PICK t \in Threads :
          /\ ~begun[t]
          /\ begun' = [begun EXCEPT ![t] = TRUE]
          /\ \/ phase[t] \in DOMAIN CallOf /\ Enter(t, CallOf[phase[t]])
             \/ phase[t] \in DOMAIN Writes /\ Enter(t, Writes[phase[t]])
             \/ phase[t] \in DOMAIN Reads /\ Enter(t, Reads[phase[t]])
    BY DEF Call
  <2>2. phase["S"] \in Cmds \cup {"channel"}
    BY <1>3 DEF Alone, Starting
  <2>3. phase["W"] = "idle" /\ phase["A"] = "off"
    BY <1>3 DEF Alone
  <2>4. t = "S" /\ phase["S"] \in Cmds /\ Enter("S", "cmd")
    BY <1>1, <1>3, <2>1, <2>2, <2>3 DEF CallOf, Writes, Reads, Cmds
  <2>5. /\ pc'["S"] \in {"send", "lock"} /\ \A u \in Threads \ {"S"} : pc'[u] = pc[u]
        /\ kind'["S"] = "cmd" /\ late' = late /\ body' = body /\ number' = number
    BY <1>1, <2>4 DEF Enter, TypeOK
  <2>6. begun'["S"] /\ \A u \in Threads \ {"S"} : begun'[u] = begun[u]
    BY <1>1, <2>1, <2>4 DEF LinkTypes
  <2>7. Starting'
    BY <1>1, <2>2, <2>4, <2>5, <2>6 DEF Starting, Cmds
  <2>8. ~late' /\ ~download_bsem' /\ \A u \in Threads \ {"S"} : ~begun'[u] /\ pc'[u] = "out"
    BY <1>1, <1>3, <2>5, <2>6 DEF Alone
  <2> QED
    BY <1>1, <1>3, <2>3, <2>7, <2>8 DEF Alone
<1> QED
  BY <1>2, <1>3

\* A return of S from send_cmd wakes nobody.
LEMMA AloneReturn ==
  ASSUME TypeOK, Alone, phase["X"] = "off", NEW r \in Result,
         Return("S", r), pc["S"] # "out",
         UNCHANGED <<linkvars, late, kind, number>>,
         r.code = "NO_ERROR" => body' = r.body
  PROVE  Alone'
<1>1. {"S", "X", "W", "A"} = Threads
  BY ClientsAssumption
<1>2. \A u \in Threads \ {"S"} : ~begun[u] /\ pc[u] = "out"
  BY DEF Alone
<1>3. begun["S"] /\ phase["S"] \in Cmds /\ kind["S"] = "cmd"
  BY DEF Alone, Starting
<1>4. pc' = [pc EXCEPT !["S"] = "out"] /\ ret' = [ret EXCEPT !["S"] = r]
  BY <1>1, <1>2, <1>3 DEF Return
<1>5. ret'["S"] = r /\ \A u \in Threads : pc'[u] = "out"
  BY <1>1, <1>2, <1>4 DEF TypeOK
<1>6. Starting'
  BY <1>3, <1>5 DEF Starting, linkvars, Cmds
<1>7. ~late' /\ ~download_bsem' /\ phase' = phase /\ begun' = begun
  BY DEF Alone, linkvars
<1> QED
  BY <1>2, <1>5, <1>6, <1>7 DEF Alone

LEMMA AloneDriver ==
  ASSUME Safe, Safe', Alone, Driver
  PROVE  Alone'
<1>0. TypeOK /\ TypeOK' /\ HeaderKept
  BY DEF Safe
<1>1. {"S", "X", "W", "A"} = Threads /\ UNCHANGED linkvars
  BY ClientsAssumption DEF Driver
<1>2. CASE phase["X"] # "off"
  BY <1>1, <1>2 DEF Alone, linkvars
<1>3. CASE phase["X"] = "off"
  <2>1. PICK t \in Threads : Run(t)
    BY DEF Driver
  <2>2. pc[t] # "out"
    BY <2>1 DEF Run, Send, ReadHeader, HeaderTimeout, HeaderRead, BadHeader, GoodHeader,
       EmptyHeader, ReadBody, BodyTimeout
  <2>3. t = "S" /\ kind["S"] = "cmd" /\ begun["S"] /\ phase["S"] \in Cmds
    BY <1>1, <1>3, <2>1, <2>2 DEF Alone, Starting
  <2>4. ~HeaderTimeout("S") /\ ~BodyTimeout("S")
    BY <2>3 DEF HeaderTimeout, BodyTimeout, Timed
  <2>5. ASSUME NEW stage \in {"header", "body"}, pc' = [pc EXCEPT !["S"] = stage],
               UNCHANGED <<kind, late>>
        PROVE  Alone'
    <3>1. pc'["S"] = stage /\ \A u \in Threads \ {"S"} : pc'[u] = pc[u]
      BY <1>0, <1>1, <2>5 DEF TypeOK
    <3>2. Starting'
      BY <1>1, <2>3, <2>5, <3>1 DEF Starting, linkvars, Cmds
    <3> QED
      BY <1>1, <1>3, <2>5, <3>1, <3>2 DEF Alone, linkvars
  <2>6. CASE Send("S") \/ GoodHeader("S")
    BY <2>5, <2>6 DEF Send, GoodHeader, HeaderRead
  <2>7. CASE ReadHeader("S")
    <3>1. UNCHANGED <<pc, kind, late>> /\ pc["S"] = "header"
      BY <2>7 DEF ReadHeader
    <3>2. Starting'
      BY <1>1, <2>3, <3>1 DEF Starting, linkvars, Cmds
    <3> QED
      BY <1>1, <1>3, <3>1, <3>2 DEF Alone, linkvars
  <2>8. CASE BadHeader("S")
    <3>1. NoResponse("HEADER_ERROR") \in Result
      BY NoResponseType DEF Codes
    <3>2. NoResponse("HEADER_ERROR").code # "NO_ERROR"
      BY DEF NoResponse
    <3> QED
      BY <1>0, <1>1, <1>3, <2>2, <2>3, <2>8, <3>1, <3>2, AloneReturn DEF BadHeader, HeaderRead
  <2>9. CASE EmptyHeader("S")
    <3> DEFINE r == [code |-> IF end < NoDataLimit THEN got[1].code ELSE "NO_DATA",
                     empty |-> TRUE, head |-> got[1].of, body |-> got[1].of]
    <3>1. Return("S", r) /\ body' = r.body
      BY <2>3, <2>9 DEF EmptyHeader, ToBody
    <3>2. got[1] \in Part
      BY <1>0, <2>9 DEF EmptyHeader, HeaderRead, TypeOK
    <3>3. r \in Result
      BY <3>2 DEF Result, Part, Codes
    <3> HIDE DEF r
    <3> QED
      BY <1>0, <1>1, <1>3, <2>2, <2>3, <2>9, <3>1, <3>3, AloneReturn DEF EmptyHeader, HeaderRead
  <2>10. CASE ReadBody("S")
    <3> DEFINE r == [code |-> got[1].code, empty |-> FALSE,
                     head |-> got[1].of, body |-> Head(line).of]
    <3>1. Return("S", r) /\ body' = r.body
      BY <2>3, <2>10 DEF ReadBody, ToBody
    <3>2. got[1] \in Part /\ Head(line) \in Part
      BY <1>0, <1>1, <2>10, HeadType DEF ReadBody, TypeOK, HeaderKept
    <3>3. r \in Result
      BY <3>2 DEF Result, Part, Codes
    <3> HIDE DEF r
    <3> QED
      BY <1>0, <1>1, <1>3, <2>2, <2>3, <2>10, <3>1, <3>3, AloneReturn DEF ReadBody
  <2> QED
    BY <2>1, <2>3, <2>4, <2>6, <2>7, <2>8, <2>9, <2>10 DEF Run
<1> QED
  BY <1>2, <1>3

\* Between its calls S goes from one command to another, or to "channel" with its own
\* response in response_body.
LEMMA AloneBack ==
  ASSUME TypeOK, LinkTypes, Alone, NEW p \in Cmds, NEW q \in Cmds \cup {"channel"},
         Back("S", p, q), UNCHANGED download_bsem,
         q = "channel" => body = number["S"]
  PROVE  Alone'
<1>1. {"S", "X", "W", "A"} = Threads
  BY ClientsAssumption
<1>2. phase["X"] = "off"
  BY DEF Alone, Back, Cmds
<1>3. /\ phase'["S"] = q /\ \A u \in Threads \ {"S"} : phase'[u] = phase[u]
      /\ ~begun'["S"] /\ \A u \in Threads \ {"S"} : begun'[u] = begun[u]
  BY <1>1 DEF LinkTypes, Back
<1>4. pc["S"] = "out" /\ UNCHANGED <<pc, kind, ret, body, number, late>>
  BY DEF Back, vars
<1>5. Starting'
  BY <1>3, <1>4 DEF Starting
<1> QED
  BY <1>1, <1>2, <1>3, <1>4, <1>5 DEF Alone

\* Once websocket_ext is started S has no way back, and the phases of the other threads
\* are their own.
LEMMA AloneOthers ==
  ASSUME TypeOK, LinkTypes, Alone, phase["X"] # "off", phase'["X"] # "off",
         phase'["S"] \in {phase["S"], "sync", "keepalive", "gone"}
  PROVE  Alone'
  BY DEF Alone

LEMMA AloneNext ==
  Safe /\ Safe' /\ LinkTypes /\ InStep /\ Alone /\ [LinkNext]_allvars => Alone'
<1> SUFFICES ASSUME Safe, Safe', LinkTypes, InStep, Alone, [LinkNext]_allvars PROVE Alone'
  OBVIOUS
<1>0. TypeOK /\ {"S", "X", "W", "A"} = Threads
  BY ClientsAssumption DEF Safe
<1>1. CASE Call
  BY <1>0, <1>1, AloneCall
<1>2. CASE Driver
  BY <1>2, AloneDriver
<1>3. CASE Wifi \/ UNCHANGED allvars
  <2>1. UNCHANGED <<pc, kind, ret, body, number, late, linkvars>>
    BY <1>3 DEF Wifi, Module, Answer, Emit, allvars, vars
  <2> QED
    BY <2>1 DEF Alone, Starting, linkvars
<1>4. CASE Booted \/ ExitSafeMode \/ Recovery
  <2>1. PICK p \in Cmds, q \in Cmds : Back("S", p, q)
    BY <1>4 DEF Booted, ExitSafeMode, Recovery, Recover, Cmds
  <2>2. UNCHANGED download_bsem /\ q # "channel"
    BY <1>4, <2>1 DEF Booted, ExitSafeMode, Recovery, Cmds
  <2> QED
    BY <1>0, <2>1, <2>2, AloneBack
<1>5. CASE Connect
  <2>1. Back("S", "connect", "channel") /\ ret["S"].code = "NO_ERROR" /\ UNCHANGED download_bsem
    BY <1>5 DEF Connect, Error
  <2>2. phase["S"] = "connect" /\ begun["S"] /\ pc["S"] = "out"
    BY <2>1 DEF Back
  <2>3. phase["X"] = "off" /\ ~late /\ Starting
    BY <2>2 DEF Alone
  <2>4. ret["S"].body = number["S"]
    BY <1>0, <2>1, <2>2, <2>3 DEF InStep, OwnResponse
  <2>5. body = number["S"]
    BY <2>1, <2>2, <2>3, <2>4 DEF Starting
  <2> QED
    BY <1>0, <2>1, <2>5, AloneBack DEF Cmds
<1>6. CASE Connected
  <2>1. phase'["X"] = "wait" /\ phase'["S"] = "sync"
    BY <1>0, <1>6 DEF Connected, LinkTypes
  <2> QED
    BY <2>1 DEF Alone
<1>7. CASE KeepAlive
  <2>1. PICK p \in {"sync", "keepalive"}, q \in {"keepalive", "gone"} : Back("S", p, q)
    BY <1>7 DEF KeepAlive
  <2>2. phase["S"] = p /\ phase'["S"] = q /\ phase'["X"] = phase["X"]
    BY <1>0, <2>1 DEF Back, LinkTypes
  <2>3. phase["X"] # "off"
    BY <2>2 DEF Alone, Starting, Cmds
  <2> QED
    BY <1>0, <2>2, <2>3, AloneOthers
<1>8. CASE Interrupt
  BY <1>0, <1>8, AloneOthers DEF Interrupt
<1>9. CASE Triggered \/ Received \/ Parse \/ Executed
  <2>1. PICK p \in {"wait", "read", "parse", "get", "stop", "play"},
             q \in {"wait", "read", "parse", "get", "stop", "play"} :
          Back("X", p, q) \/ Goto("X", p, q)
    BY <1>9 DEF Triggered, Received, Parse, Executed
  <2>2. phase["X"] = p /\ phase'["X"] = q /\ phase'["S"] = phase["S"]
    BY <1>0, <2>1 DEF Back, Goto, LinkTypes
  <2> QED
    BY <1>0, <2>2, AloneOthers
<1>10. CASE Download
  <2>1. phase["W"] # "idle" \/ download_bsem
    BY <1>10 DEF Download, Back
  <2>2. phase["X"] # "off"
    BY <2>1 DEF Alone
  <2>3. PICK p \in Phases, q \in Phases : phase' = [phase EXCEPT !["W"] = q]
    BY <1>10 DEF Download, Back, Goto, Phases, Reads, Cmds
  <2> QED
    BY <1>0, <2>2, <2>3, AloneOthers DEF LinkTypes
<1>11. CASE Notify
  <2>1. phase["A"] = "notify" /\ phase' = [phase EXCEPT !["A"] = "notify"]
    BY <1>11 DEF Notify, Back
  <2>2. phase["X"] # "off"
    BY <2>1 DEF Alone
  <2> QED
    BY <1>0, <2>1, <2>2, AloneOthers DEF LinkTypes
<1> QED
  BY <1>1, <1>2, <1>3, <1>4, <1>5, <1>6, <1>7, <1>8, <1>9, <1>10, <1>11 DEF LinkNext

\* The id of the channel, which get_channel_id parses out of response_body without
\* wifi_mutex (websocket.c:159), is the answer to the command that opened the websocket.
THEOREM ChannelInTime == LinkSpec => []ChannelIdOwn
<1>1. LinkInit => Init
  BY DEF LinkInit
<1>2. Alone => ChannelIdOwn
  BY DEF Alone, Starting, ChannelIdOwn
<1>3. TypeOK /\ Numbered /\ [Next]_vars => Numbered'
  BY NumberedNext
<1>4. Safe => TypeOK
  BY DEF Safe
<1> QED
  BY <1>1, <1>2, <1>3, <1>4, LinkStep, NumberedInit, LinkTypesInit, LinkTypesNext, AloneInit,
     AloneNext, LinkInStep, LinkImplementsDriver, SafeAlways, PTL DEF LinkSpec

----------------------------------------------------------------------------
(* The driver of the Wi-Fi module, and the threads that share it, implement *)
(* WifiService.  Each call of the driver is a Call of the service, the     *)
(* sending of its command an Ask, its return a Reply or a GiveUp; reading  *)
(* the parts of a response, and the steps of the module, change nothing.   *)
(* Besides the invariants of WifiDriverProofs this needs that nothing on   *)
(* its way to the threads answers a command that has not been sent.        *)

\* The parts that answer one of the first n commands.
PartUpTo(n) == {p \in Part : p.of <= n}

\* Everything that is on its way answers a command that has been sent, and the command of
\* the thread that reads a response is the last one.
Earlier ==
  /\ \A t \in Threads : number[t] <= sent
  /\ \A t \in Threads : pc[t] \in {"header", "body"} => number[t] = sent
  /\ requests \in Seq(0..sent)
  /\ leaving \in Seq(PartUpTo(sent)) /\ line \in Seq(PartUpTo(sent))
  /\ got # <<>> => got[1] \in PartUpTo(sent)

LEMMA SeqGrows ==
  ASSUME NEW S, NEW T, S \subseteq T, NEW s \in Seq(S)
  PROVE  s \in Seq(T)
  OBVIOUS

LEMMA EarlierInit == Init => Earlier
<1> SUFFICES ASSUME Init PROVE Earlier
  OBVIOUS
<1> QED
  BY DEF Init, Earlier

\* The parts of the response to an earlier command.
LEMMA ResponseEarlier ==
  ASSUME NEW m \in Nat, NEW n \in 0..m, NEW c \in RespCodes, NEW e \in BOOLEAN
  PROVE  Response(n, c, e) \in Seq(PartUpTo(m)) /\ Response(n, c, e) # <<>>
<1> DEFINE p(what) == [of |-> n, part |-> what, code |-> c, empty |-> e]
<1>1. p("head1") \in PartUpTo(m) /\ p("head2") \in PartUpTo(m) /\ p("body") \in PartUpTo(m)
  BY DEF Part, PartUpTo, RespCodes
<1> HIDE DEF p
<1>2. /\ <<p("head1"), p("head2")>> \in Seq(PartUpTo(m)) /\ <<p("head1"), p("head2")>> # <<>>
      /\ <<p("head1"), p("head2"), p("body")>> \in Seq(PartUpTo(m))
      /\ <<p("head1"), p("head2"), p("body")>> # <<>>
  BY <1>1
<1>3. Response(n, c, e) \in {<<p("head1"), p("head2")>>, <<p("head1"), p("head2"), p("body")>>}
  BY DEF Response, p
<1> QED
  BY <1>2, <1>3

\* A call that returns leaves nobody reading.
LEMMA ReturnEarlier ==
  ASSUME Safe, Earlier, NEW t \in Threads, NEW r \in Result, Return(t, r),
         pc[t] \in {"header", "body"}, kind' = kind, number' = number, sent' = sent,
         requests' = requests, leaving' = leaving, got' = got,
         line' \in Seq(PartUpTo(sent))
  PROVE  Earlier'
<1>1. \A u \in Threads : pc'[u] \notin {"header", "body"}
  BY ReturnExclusive DEF Safe
<1> QED
  BY <1>1 DEF Earlier

LEMMA EarlierNext == Safe /\ Earlier /\ [Next]_vars => Earlier'
<1> SUFFICES ASSUME Safe, Earlier, [Next]_vars PROVE Earlier'
  OBVIOUS
<1>0. TypeOK /\ Exclusive /\ HeaderKept
  BY DEF Safe
<1>1. ASSUME NEW t \in Threads, NEW k \in Kinds, Enter(t, k) PROVE Earlier'
  <2>1. \A u \in Threads : pc'[u] = pc[u] \/ pc'[u] \in {"send", "lock"}
    BY <1>0, <1>1 DEF Enter, TypeOK
  <2> QED
    BY <1>1, <2>1 DEF Earlier, Enter, modvars
<1>2. ASSUME NEW t \in Threads, Send(t) PROVE Earlier'
  <2>1. sent \in Nat /\ sent' = sent + 1
    BY <1>0, <1>2 DEF Send, TypeOK
  <2>2. 0..sent \subseteq 0..sent' /\ PartUpTo(sent) \subseteq PartUpTo(sent')
    BY <2>1 DEF PartUpTo, Part
  <2>3. leaving' \in Seq(PartUpTo(sent')) /\ line' \in Seq(PartUpTo(sent'))
    BY <2>2, <1>2, SeqGrows DEF Send, Earlier
  <2>4. requests \in Seq(0..sent') /\ sent + 1 \in 0..sent'
    BY <2>1, <2>2, SeqGrows DEF Earlier
  <2>5. requests' \in Seq(0..sent')
    BY <2>4, <1>2 DEF Send
  <2>6. \A u \in Threads \ {t} : pc'[u] \notin {"header", "body"} /\ number'[u] = number[u]
    BY <1>0, <1>2 DEF Send, TypeOK, Exclusive
  <2>7. number'[t] = sent' /\ \A u \in Threads : number[u] \in Nat
    BY <1>0, <1>2 DEF Send, TypeOK
  <2> QED
    BY <1>2, <2>1, <2>3, <2>5, <2>6, <2>7 DEF Earlier, Send
<1>3. ASSUME line # <<>> PROVE Head(line) \in PartUpTo(sent) /\ Tail(line) \in Seq(PartUpTo(sent))
  BY <1>3, HeadType DEF Earlier
<1>4. ASSUME NEW t \in Threads, ReadHeader(t) PROVE Earlier'
  BY <1>3, <1>4 DEF Earlier, ReadHeader
<1>5. ASSUME NEW t \in Threads, HeaderTimeout(t) PROVE Earlier'
  BY <1>5, ReturnEarlier, NoResponseType DEF HeaderTimeout, modvars, Codes, Earlier
<1>6. ASSUME NEW t \in Threads, BadHeader(t) PROVE Earlier'
  BY <1>3, <1>6, ReturnEarlier, NoResponseType DEF BadHeader, HeaderRead, Codes
<1>7. ASSUME NEW t \in Threads, GoodHeader(t) PROVE Earlier'
  <2>1. \A u \in Threads : pc'[u] \in {"header", "body"} => pc[u] \in {"header", "body"}
    BY <1>0, <1>7 DEF GoodHeader, HeaderRead, TypeOK
  <2> QED
    BY <1>3, <1>7, <2>1 DEF Earlier, GoodHeader, HeaderRead
<1>8. ASSUME NEW t \in Threads, EmptyHeader(t) PROVE Earlier'
  <2> DEFINE r == [code |-> IF end < NoDataLimit THEN got[1].code ELSE "NO_DATA",
                   empty |-> TRUE, head |-> got[1].of, body |-> got[1].of]
  <2>1. got[1] \in Part
    BY <1>0, <1>8 DEF TypeOK, EmptyHeader, HeaderRead
  <2>2. r \in Result
    BY <2>1 DEF Result, Part, Codes
  <2>3. Return(t, r)
    BY <1>8 DEF EmptyHeader
  <2> HIDE DEF r
  <2> QED
    BY <1>3, <1>8, <2>2, <2>3, ReturnEarlier DEF EmptyHeader, HeaderRead
<1>9. ASSUME NEW t \in Threads, ReadBody(t) PROVE Earlier'
  <2> DEFINE r == [code |-> got[1].code, empty |-> FALSE, head |-> got[1].of,
                   body |-> Head(line).of]
  <2>1. Head(line) \in Part /\ got[1] \in Part
    BY <1>0, <1>9, HeadType DEF TypeOK, ReadBody, HeaderKept
  <2>2. r \in Result
    BY <2>1 DEF Result, Part, Codes
  <2>3. Return(t, r)
    BY <1>9 DEF ReadBody
  <2> HIDE DEF r
  <2> QED
    BY <1>3, <1>9, <2>2, <2>3, ReturnEarlier DEF ReadBody
<1>10. ASSUME NEW t \in Threads, BodyTimeout(t) PROVE Earlier'
  <2> DEFINE r == [code |-> got[1].code, empty |-> FALSE, head |-> got[1].of, body |-> 0]
  <2>1. got[1] \in Part
    BY <1>0, <1>10 DEF TypeOK, BodyTimeout, HeaderKept
  <2>2. r \in Result
    BY <2>1 DEF Result, Part, Codes
  <2>3. Return(t, r)
    BY <1>10 DEF BodyTimeout
  <2> HIDE DEF r
  <2> QED
    BY <1>10, <2>2, <2>3, ReturnEarlier DEF BodyTimeout, modvars, Earlier
<1>11. ASSUME Answer PROVE Earlier'
  <2>1. PICK c \in RespCodes, e \in BOOLEAN :
          /\ line' = Append(line, Head(Response(Head(requests), c, e)))
          /\ leaving' = Tail(Response(Head(requests), c, e))
    BY <1>11 DEF Answer, RespCodes
  <2>2. Head(requests) \in 0..sent /\ requests' \in Seq(0..sent) /\ sent \in Nat
    BY <1>0, <1>11, HeadType DEF Answer, Earlier, TypeOK
  <2>3. /\ Head(Response(Head(requests), c, e)) \in PartUpTo(sent)
        /\ Tail(Response(Head(requests), c, e)) \in Seq(PartUpTo(sent))
    BY <2>2, ResponseEarlier, HeadType
  <2>4. line' \in Seq(PartUpTo(sent)) /\ leaving' \in Seq(PartUpTo(sent))
    BY <2>1, <2>3 DEF Earlier
  <2> QED
    BY <1>11, <2>2, <2>4 DEF Answer, Earlier
<1>12. ASSUME Emit PROVE Earlier'
  <2>1. Head(leaving) \in PartUpTo(sent) /\ Tail(leaving) \in Seq(PartUpTo(sent))
    BY <1>12, HeadType DEF Emit, Earlier
  <2> QED
    BY <1>12, <2>1 DEF Emit, Earlier
<1>13. ASSUME UNCHANGED vars PROVE Earlier'
  BY <1>13 DEF vars, Earlier
<1> QED
  BY <1>1, <1>2, <1>4, <1>5, <1>6, <1>7, <1>8, <1>9, <1>10, <1>11, <1>12, <1>13
  DEF Next, Run, Module

----------------------------------------------------------------------------
(* Each step of the driver is a step of the service.                       *)

\* The stage and the class of a thread.
LEMMA Mapped ==
  /\ StageOf["out"] = "out" /\ StageOf["lock"] = "waiting" /\ StageOf["send"] = "chosen"
  /\ StageOf["header"] = "asked" /\ StageOf["body"] = "asked"
  /\ \A k \in Kinds : ClassOf(k) \in Service!Calls
  /\ \A k \in Kinds : ClassOf(k) = "download" <=> k = "http"
  /\ \A k \in Timed : ClassOf(k) = "timed"
<1>1. Timed \subseteq Kinds
  BY DEF Timed, Kinds
<1>2. "http" \notin Timed
  BY DEF Timed
<1> QED
  BY <1>1, <1>2 DEF StageOf, ClassOf, Service!Calls

\* The mapped stages after one thread, or two, have moved.
Stage == [t \in Threads |-> StageOf[pc[t]]]

LEMMA StageMoves ==
  ASSUME TypeOK, NEW t \in Threads, NEW p \in PCs, pc' = [pc EXCEPT ![t] = p]
  PROVE  Stage' = [Stage EXCEPT ![t] = StageOf[p]]
BY DEF TypeOK, Stage

\* The thread that returns, and the one that is served next.
LEMMA StageMovesTwo ==
  ASSUME TypeOK, NEW t \in Threads, NEW u \in Threads,
         pc' = [pc EXCEPT ![t] = "out", ![u] = "send"]
  PROVE  Stage' = [Stage EXCEPT ![t] = "out", ![u] = "chosen"]
<1> DEFINE first == [pc EXCEPT ![t] = "out"]
<1>1. first \in [Threads -> PCs] /\ pc' = [first EXCEPT ![u] = "send"]
  BY DEF TypeOK, PCs
<1>2. [v \in Threads |-> StageOf[first[v]]] = [Stage EXCEPT ![t] = "out"]
  BY Mapped DEF TypeOK, Stage
<1>3. Stage' = [[v \in Threads |-> StageOf[first[v]]] EXCEPT ![u] = "chosen"]
  <2> HIDE DEF first
  <2> QED
    BY <1>1, Mapped DEF Stage
<1> HIDE DEF first
<1> QED
  BY <1>2, <1>3

\* A call that returns passes the turn on as the service does.
LEMMA ReturnPasses ==
  ASSUME TypeOK, NEW t \in Threads, NEW r \in Result, Return(t, r),
         pc[t] \in {"header", "body"}, kind' = kind, number' = number, sent' = sent
  PROVE  Service!Pass(t, r.code # "NO_ERROR") /\ ret' = [ret EXCEPT ![t] = r]
<1>1. Stage[t] = "asked" /\ \A u \in Threads : pc[u] = "lock" <=> Stage[u] = "waiting"
  <2>1. \A u \in Threads : Stage[u] = StageOf[pc[u]] /\ pc[u] \in PCs
    BY DEF TypeOK, Stage, PCs
  <2>2. \A p \in PCs : StageOf[p] = "waiting" <=> p = "lock"
    BY Mapped DEF PCs
  <2> QED
    BY <2>1, <2>2, Mapped
<1>2. kind[t] \in Kinds /\ (ClassOf(kind[t]) = "download" <=> kind[t] = "http")
  BY Mapped DEF TypeOK
<1>3. [u \in Threads |-> ClassOf(kind[u])][t] = ClassOf(kind[t])
  OBVIOUS
<1>4. ASSUME pc' = [pc EXCEPT ![t] = "out"] PROVE Stage' = [Stage EXCEPT ![t] = "out"]
  BY <1>4, StageMoves, Mapped DEF PCs
<1>5. ASSUME NEW u \in Threads, pc' = [pc EXCEPT ![t] = "out", ![u] = "send"]
      PROVE  Stage' = [Stage EXCEPT ![t] = "out", ![u] = "chosen"]
  BY <1>5, StageMovesTwo
<1> QED
  BY <1>1, <1>2, <1>3, <1>4, <1>5 DEF Service!Pass, Return, Stage

\* As long as no read times out the second part of a header completes the first.
LEMMA NoBadHeader ==
  ASSUME Safe, StepInv, NEW t \in Threads, BadHeader(t)
  PROVE  late
<1> SUFFICES ASSUME late = FALSE PROVE FALSE
  BY DEF Safe, TypeOK
<1>1. number[t] \in Nat /\ line \in Seq(Part) /\ line # <<>>
  BY DEF Safe, TypeOK, BadHeader, HeaderRead
<1>2. PICK c \in RespCodes, e \in BOOLEAN :
        got = <<PartOf(1, number[t], c, e)>> /\ Remaining(1, number[t], c, e)
  BY DEF StepInv, InHeader, BadHeader, HeaderRead
<1>3. Head(line) = PartOf(2, number[t], c, e)
  BY <1>1, <1>2 DEF Remaining
<1>4. Completes(Head(line))
  BY <1>2, <1>3 DEF Completes, PartOf
<1> QED
  BY <1>4 DEF BadHeader

\* The header that is read is that of the thread's own command, or once a read has timed
\* out perhaps of an earlier one.
LEMMA HeaderOf ==
  ASSUME Safe, StepInv, Earlier, NEW t \in Threads, pc[t] \in {"header", "body"}, got # <<>>
  PROVE  /\ number[t] \in Nat /\ got[1] \in Part
         /\ got[1].of \in 0..number[t]
         /\ ~late => got[1].of = number[t]
<1>1. got[1] \in Part /\ got[1].of <= sent /\ number[t] = sent /\ number[t] \in Nat
  BY DEF Earlier, PartUpTo, Safe, TypeOK
<1>2. got[1].of \in 0..number[t]
  BY <1>1 DEF Part
<1>3. ASSUME ~late PROVE got[1].of = number[t]
  <2>1. PICK c \in RespCodes, e \in BOOLEAN : got = <<PartOf(1, number[t], c, e)>>
    BY <1>3 DEF StepInv, InHeader, InBody
  <2> QED
    BY <2>1 DEF PartOf
<1> QED
  BY <1>1, <1>2, <1>3

\* A call that returns an answer is a Reply.
LEMMA AnswerReplies ==
  ASSUME Safe, NEW t \in Threads, NEW r \in Result, Return(t, r),
         pc[t] \in {"header", "body"}, kind' = kind, number' = number, sent' = sent, late' = late,
         r \in Service!Replies(t)
  PROVE  Service!Reply(t)
<1>1. Service!Pass(t, r.code # "NO_ERROR") /\ ret' = [ret EXCEPT ![t] = r]
  BY ReturnPasses DEF Safe
<1>2. CASE r.code # "NO_ERROR"
  <2>1. Service!Pass(t, TRUE)
    BY <1>1, <1>2, Zenon
  <2> QED
    BY <1>1, <1>2, <2>1 DEF Service!Reply
<1>3. CASE r.code = "NO_ERROR"
  <2>1. Service!Pass(t, FALSE)
    BY <1>1, <1>3, Zenon
  <2> QED
    BY <1>1, <1>3, <2>1 DEF Service!Reply
<1> QED
  BY <1>2, <1>3

\* A read that times out is a GiveUp.
LEMMA TimeoutGivesUp ==
  ASSUME Safe, NEW t \in Threads, NEW r \in Result, Return(t, r), kind[t] \in Timed,
         pc[t] \in {"header", "body"}, kind' = kind, number' = number, sent' = sent, late' = TRUE,
         r \in Service!GivenUp(t)
  PROVE  Service!GiveUp(t)
<1>1. Service!Pass(t, r.code # "NO_ERROR") /\ ret' = [ret EXCEPT ![t] = r]
  BY ReturnPasses DEF Safe
<1>2. [u \in Threads |-> ClassOf(kind[u])][t] = "timed"
  BY Mapped
<1>3. Service!Pass(t, TRUE)
  BY <1>1, <1>2 DEF Service!Pass
<1> QED
  BY <1>1, <1>2, <1>3 DEF Service!GiveUp

LEMMA ServiceStep ==
  Safe /\ Safe' /\ StepInv /\ StepInv' /\ Earlier /\ [Next]_vars => [Service!Next]_(Service!vars)
<1> SUFFICES ASSUME Safe, Safe', StepInv, StepInv', Earlier, [Next]_vars
             PROVE  Service!Next \/ UNCHANGED Service!vars
  OBVIOUS
<1>0. TypeOK /\ Exclusive /\ HeaderKept
  BY DEF Safe
<1>1. ASSUME NEW t \in Threads, NEW k \in Kinds, Enter(t, k) PROVE Service!Next
  <2>1. ClassOf(k) \in Service!Calls
    BY Mapped
  <2>2. Stage[t] = "out"
    BY <1>1, Mapped DEF Enter, Stage
  <2>3. [u \in Threads |-> ClassOf(kind'[u])]
          = [[u \in Threads |-> ClassOf(kind[u])] EXCEPT ![t] = ClassOf(k)]
    BY <1>0, <1>1 DEF Enter, TypeOK
  <2>4. CASE owner = None
    <3>1. Stage' = [Stage EXCEPT ![t] = "chosen"]
      BY <1>0, <1>1, <2>4, StageMoves, Mapped DEF Enter, PCs
    <3> QED
      BY <1>1, <2>1, <2>2, <2>3, <2>4, <3>1 DEF Enter, Service!Call, Service!Next, Stage
  <2>5. CASE owner # None
    <3>1. Stage' = [Stage EXCEPT ![t] = "waiting"]
      BY <1>0, <1>1, <2>5, StageMoves, Mapped DEF Enter, PCs
    <3> QED
      BY <1>1, <2>1, <2>2, <2>3, <2>5, <3>1 DEF Enter, Service!Call, Service!Next, Stage
  <2> QED
    BY <2>4, <2>5
<1>2. ASSUME NEW t \in Threads, Send(t) PROVE Service!Next
  <2>1. Stage[t] = "chosen"
    BY <1>2, Mapped DEF Send, Stage
  <2>2. Stage' = [Stage EXCEPT ![t] = "asked"]
    BY <1>0, <1>2, StageMoves, Mapped DEF Send, PCs
  <2> QED
    BY <1>2, <2>1, <2>2 DEF Send, Service!Ask, Service!Next, Stage
<1>3. ASSUME NEW t \in Threads, HeaderTimeout(t) PROVE Service!Next
  <2> DEFINE r == NoResponse("HEADER_TIMEOUT")
  <2>1. r \in Result /\ r \in Service!GivenUp(t)
    BY NoResponseType DEF Codes, NoResponse, Service!GivenUp, Service!Nothing
  <2>2. Service!GiveUp(t)
    <3> HIDE DEF r
    <3> QED
      BY <1>3, <2>1, TimeoutGivesUp DEF HeaderTimeout, modvars, r
  <2> QED
    BY <2>2 DEF Service!Next
<1>4. ASSUME NEW t \in Threads, BodyTimeout(t) PROVE Service!Next
  <2> DEFINE r == [code |-> got[1].code, empty |-> FALSE, head |-> got[1].of, body |-> 0]
  <2>1. /\ number[t] \in Nat /\ got[1] \in Part /\ got[1].of \in 0..number[t]
        /\ ~late => got[1].of = number[t]
    BY <1>0, <1>4, HeaderOf DEF BodyTimeout, HeaderKept
  <2>2. got[1].of \in Service!Numbers(t) /\ got[1].code \in Service!Answers
    BY <2>1 DEF Service!Numbers, Service!Answers, Part
  <2>3. r \in Service!GivenUp(t)
    BY <2>2 DEF Service!GivenUp
  <2>4. r \in Result
    BY <2>1 DEF Result, Part, Codes
  <2>5. Return(t, r)
    BY <1>4 DEF BodyTimeout
  <2> HIDE DEF r
  <2>6. Service!GiveUp(t)
    BY <1>4, <2>3, <2>4, <2>5, TimeoutGivesUp DEF BodyTimeout, modvars
  <2> QED
    BY <2>6 DEF Service!Next
<1>5. ASSUME NEW t \in Threads, BadHeader(t) PROVE Service!Next
  <2>1. late
    BY <1>5, NoBadHeader
  <2>2. NoResponse("HEADER_ERROR") \in Result
    BY NoResponseType DEF Codes
  <2>3. NoResponse("HEADER_ERROR") \in Service!Replies(t)
    BY <2>1 DEF NoResponse, Service!Replies, Service!Failures, Service!Nothing
  <2>4. Service!Reply(t)
    BY <1>5, <2>2, <2>3, AnswerReplies DEF BadHeader, HeaderRead
  <2> QED
    BY <2>4 DEF Service!Next
<1>6. ASSUME NEW t \in Threads, EmptyHeader(t) PROVE Service!Next
  <2> DEFINE r == [code |-> IF end < NoDataLimit THEN got[1].code ELSE "NO_DATA",
                   empty |-> TRUE, head |-> got[1].of, body |-> got[1].of]
  <2>1. /\ number[t] \in Nat /\ got[1] \in Part /\ got[1].of \in 0..number[t]
        /\ ~late => got[1].of = number[t]
    BY <1>6, HeaderOf DEF EmptyHeader, HeaderRead
  <2>2. r \in Service!Replies(t)
    BY <2>1 DEF Service!Replies, Service!Numbers, Service!Answers, Part
  <2>3. r \in Result
    BY <2>1 DEF Result, Part, Codes
  <2>4. Return(t, r)
    BY <1>6 DEF EmptyHeader
  <2> HIDE DEF r
  <2>5. Service!Reply(t)
    BY <1>6, <2>2, <2>3, <2>4, AnswerReplies DEF EmptyHeader, HeaderRead
  <2> QED
    BY <2>5 DEF Service!Next
<1>7. ASSUME NEW t \in Threads, ReadBody(t) PROVE Service!Next
  <2> DEFINE r == [code |-> got[1].code, empty |-> FALSE, head |-> got[1].of,
                   body |-> Head(line).of]
  <2>1. /\ number[t] \in Nat /\ got[1] \in Part /\ got[1].of \in 0..number[t]
        /\ ~late => got[1].of = number[t]
    BY <1>0, <1>7, HeaderOf DEF ReadBody, HeaderKept
  <2>2. Head(line) \in PartUpTo(sent) /\ number[t] = sent
    BY <1>7, HeadType DEF Earlier, ReadBody
  <2>3. Head(line).of \in 0..number[t]
    BY <2>1, <2>2 DEF PartUpTo, Part
  <2>4. ASSUME ~late PROVE Head(line).of = number[t]
    <3>1. PICK c \in RespCodes : Remaining(2, number[t], c, FALSE)
      BY <1>7, <2>4 DEF StepInv, InBody, ReadBody
    <3>2. line \in Seq(Part) /\ line # <<>>
      BY <1>0, <1>7 DEF TypeOK, ReadBody
    <3>3. Head(line) = PartOf(3, number[t], c, FALSE)
      <4>1. 1 \in 1..Len(line) /\ Head(line) = line[1] /\ 2 + 1 = 3
        BY <3>2
      <4>2. line[1] = PartOf(2 + 1, number[t], c, FALSE)
        BY <3>1, <4>1 DEF Remaining
      <4> QED
        BY <4>1, <4>2
    <3> QED
      BY <3>3 DEF PartOf
  <2>5. r \in Service!Replies(t)
    BY <2>1, <2>3, <2>4 DEF Service!Replies, Service!Numbers, Service!Answers, Part
  <2>6. r \in Result
    BY <2>1, <2>3 DEF Result, Part, Codes
  <2>7. Return(t, r)
    BY <1>7 DEF ReadBody
  <2> HIDE DEF r
  <2>8. Service!Reply(t)
    BY <1>7, <2>5, <2>6, <2>7, AnswerReplies DEF ReadBody
  <2> QED
    BY <2>8 DEF Service!Next
<1>8. ASSUME NEW t \in Threads, GoodHeader(t) PROVE UNCHANGED Service!vars
  <2>1. Stage' = [Stage EXCEPT ![t] = "asked"] /\ Stage[t] = "asked"
    BY <1>0, <1>8, StageMoves, Mapped DEF GoodHeader, HeaderRead, PCs, Stage
  <2>2. Stage' = Stage
    BY <2>1 DEF Stage
  <2> QED
    BY <1>8, <2>2 DEF GoodHeader, HeaderRead, Service!vars, Stage
<1>9. ASSUME Module \/ (\E t \in Threads : ReadHeader(t)) \/ UNCHANGED vars
      PROVE  UNCHANGED Service!vars
  BY <1>9 DEF Module, Answer, Emit, ReadHeader, vars, Service!vars
<1> QED
  BY <1>1, <1>2, <1>3, <1>4, <1>5, <1>6, <1>7, <1>8, <1>9 DEF Next, Run

\* The driver of the Wi-Fi module, with its mutex, its serial line and its headers in two
\* parts, does what WifiService says (wifi.c:77-225).
THEOREM DriverImplementsService == Spec => ImplementsService
<1>1. Init => Safe /\ StepInv /\ Earlier
  BY TypeInit, ExclusiveInit, StepInit, EarlierInit DEF Safe
<1>2. Safe /\ StepInv /\ Earlier /\ [Next]_vars => (Safe /\ StepInv /\ Earlier)'
  BY TypeNext, ExclusiveNext, StepNext, EarlierNext DEF Safe
<1>3. Init => Service!Init
  BY Mapped DEF Init, Service!Init, Service!Nothing, NoResponse, ClassOf, Timed
<1> QED
  BY <1>1, <1>2, <1>3, ServiceStep, PTL DEF Spec, ImplementsService, Service!Spec

\* The threads of websocket.c and sound.c are served by the driver as WifiService says.
THEOREM LinkImplementsService == LinkSpec => ImplementsService
  BY LinkImplementsDriver, DriverImplementsService, PTL
=============================================================================
