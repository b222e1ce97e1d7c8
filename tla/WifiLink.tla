------------------------------- MODULE WifiLink -------------------------------
(***************************************************************************)
(* The threads that call the Wi-Fi driver:                                 *)
(*   "S"  main in wifiInit, then websocket (websocket.c): connects,        *)
(*        recovers from errors, keeps the connection alive;                *)
(*   "X"  websocket_ext: reads a message after each interrupt of the       *)
(*        module and executes its commands one after the other;            *)
(*   "W"  wifi_audio_in (sound.c): reads a download, closes its channel;   *)
(*   "A"  the threads that call websocket_write (alarm.c, fdc2214.c).      *)
(* A phase names the call a thread is about to make, or has begun.         *)
(***************************************************************************)
EXTENDS WifiDriver, FiniteSets

CONSTANT MaxSent   \* bound: number of commands sent

VARIABLES
  phase,         \* the phase of each thread
  begun,         \* the call of this phase has been made
  booted,        \* wifiInit is over
  web_bsem,      \* the interrupt of the module has been seen
  download_bsem, \* a download has been asked for
  message        \* the number of the read whose body X is parsing

linkvars == <<phase, begun, booted, web_bsem, download_bsem, message>>
allvars == <<vars, linkvars>>

ASSUME ClientsAssumption == Threads = {"S", "X", "W", "A"}
ASSUME MaxSentAssumption == MaxSent \in Nat

LinkInit ==
  /\ Init
  /\ phase = [S |-> "boot", X |-> "off", W |-> "idle", A |-> "off"]
  /\ begun = [t \in Threads |-> FALSE]
  /\ booted = FALSE /\ web_bsem = FALSE /\ download_bsem = FALSE /\ message = 0

\* The functions of the driver that are called in each phase.
Cmds == {"boot", "status", "faults", "safe_reboot", "connect", "reboot", "flush", "ping",
         "stop", "close"}
CallOf == [p \in Cmds |-> "cmd"]
Writes == [sync |-> "write", keepalive |-> "write_timed", get |-> "write_timed",
           notify |-> "write"]
Reads  == [read |-> "read", play |-> "http", audio |-> "audio"]
Call ==
  \E t \in Threads :
    /\ ~begun[t] /\ sent + Cardinality({u \in Threads : pc[u] \in {"lock", "send"}}) < MaxSent
    /\ \/ phase[t] \in DOMAIN CallOf /\ Enter(t, CallOf[phase[t]])
       \/ phase[t] \in DOMAIN Writes /\ Enter(t, Writes[phase[t]])
       \/ phase[t] \in DOMAIN Reads /\ Enter(t, Reads[phase[t]])
    /\ begun' = [begun EXCEPT ![t] = TRUE]
    /\ UNCHANGED <<phase, booted, web_bsem, download_bsem, message>>

Driver == (\E t \in Threads : Run(t)) /\ UNCHANGED linkvars
Wifi == Module /\ UNCHANGED linkvars

\* Thread t, back from the call of phase p, goes on to phase q.
Back(t, p, q) ==
  /\ phase[t] = p /\ begun[t] /\ pc[t] = "out"
  /\ phase' = [phase EXCEPT ![t] = q]
  /\ begun' = [begun EXCEPT ![t] = FALSE]
  /\ UNCHANGED vars

\* Thread t goes from phase p to phase q without a call.
Goto(t, p, q) ==
  /\ phase[t] = p
  /\ phase' = [phase EXCEPT ![t] = q]
  /\ UNCHANGED <<vars, begun>>

Error(t) == ret[t].code # "NO_ERROR"
SafeMode(t) == ret[t].code = "SAFEMODE"

----------------------------------------------------------------------------
(* wifiInit and websocket                                                  *)

Recover == IF SafeMode("S") THEN "status" ELSE "reboot"

\* wifiInit pings the gateway until it answers, and leaves the safe mode if need be.
Booted ==
  /\ Back("S", "boot", IF ~Error("S") THEN "connect"
                       ELSE IF SafeMode("S") THEN "status" ELSE "boot")
  /\ booted' = ~Error("S")
  /\ UNCHANGED <<web_bsem, download_bsem, message>>

\* exit_safe_mode, then the ping of its caller.
ExitSafeMode ==
  LET ping == IF booted THEN "ping" ELSE "boot" IN
  /\ \/ Back("S", "status", IF SafeMode("S") THEN "faults" ELSE ping)
     \/ Back("S", "faults", "safe_reboot")
     \/ Back("S", "safe_reboot", ping)
  /\ UNCHANGED <<booted, web_bsem, download_bsem, message>>

\* An error is recovered from by a reboot of the module, until its network answers.
Recovery ==
  /\ \/ Error("S") /\ Back("S", "connect", Recover)
     \/ Back("S", "reboot", IF Error("S") THEN Recover ELSE "flush")
     \/ Back("S", "flush", IF Error("S") THEN Recover ELSE "ping")
     \/ Back("S", "ping", IF Error("S") THEN "ping" ELSE "connect")
  /\ UNCHANGED <<booted, web_bsem, download_bsem, message>>

\* Mutant of Connect: websocket_ext is started before the channel is read.
ConnectEarly ==
  /\ ~Error("S") /\ phase["S"] = "connect" /\ begun["S"] /\ pc["S"] = "out"
  /\ phase' = [phase EXCEPT !["S"] = "channel", !["X"] = "wait"]
  /\ begun' = [begun EXCEPT !["S"] = FALSE]
  /\ UNCHANGED <<vars, booted, web_bsem, download_bsem, message>>

\* The connection is established.
Connect ==
  /\ ~Error("S") /\ Back("S", "connect", "channel")
  /\ UNCHANGED <<booted, web_bsem, download_bsem, message>>

\* The channel is read in response_body, and websocket_ext and the sensors started.
Connected ==
  /\ phase["S"] = "channel"
  /\ phase' = [phase EXCEPT !["S"] = "sync", !["X"] = "wait", !["A"] = "notify"]
  /\ UNCHANGED <<vars, begun, booted, web_bsem, download_bsem, message>>

\* The connection is kept alive until a write fails: nothing opens it again.
KeepAlive ==
  /\ \/ Back("S", "sync", "keepalive")
     \/ Back("S", "keepalive",
             IF ret["S"].code = "COMMAND_FAILED" THEN "gone" ELSE "keepalive")
  /\ UNCHANGED <<booted, web_bsem, download_bsem, message>>

----------------------------------------------------------------------------
(* websocket_ext and the other threads                                     *)

\* web_cb
Interrupt ==
  /\ phase["X"] # "off" /\ ~web_bsem
  /\ web_bsem' = TRUE
  /\ UNCHANGED <<vars, phase, begun, booted, download_bsem, message>>

Triggered ==
  /\ web_bsem /\ Goto("X", "wait", "read")
  /\ web_bsem' = FALSE
  /\ UNCHANGED <<booted, download_bsem, message>>

\* A message has been read; an empty one is not parsed.
Received ==
  /\ Back("X", "read", IF Error("X") \/ ret["X"].empty THEN "wait" ELSE "parse")
  /\ message' = number["X"]
  /\ UNCHANGED <<booted, web_bsem, download_bsem>>

\* The next command of the message, or its end.  Set, alarm and add do not call the driver.
Parse ==
  /\ \E q \in {"get", "play", "stop", "wait"} : Goto("X", "parse", q)
  /\ UNCHANGED <<booted, web_bsem, download_bsem, message>>

Executed ==
  /\ \/ Back("X", "get", "parse") /\ UNCHANGED download_bsem
     \/ Back("X", "stop", "parse") /\ UNCHANGED download_bsem
     \/ Back("X", "play", "parse") /\ download_bsem' = (download_bsem \/ ~Error("X"))
  /\ UNCHANGED <<booted, web_bsem, message>>

\* The download: some reads, then the channel is closed unless the music is stopped.
Download ==
  /\ \/ download_bsem /\ Goto("W", "idle", "audio") /\ download_bsem' = FALSE
     \/ \E q \in {"audio", "close", "idle"} : Back("W", "audio", q) /\ UNCHANGED download_bsem
     \/ Back("W", "close", "idle") /\ UNCHANGED download_bsem
  /\ UNCHANGED <<booted, web_bsem, message>>

Notify ==
  /\ Back("A", "notify", "notify")
  /\ UNCHANGED <<booted, web_bsem, download_bsem, message>>

LinkNext ==
  \/ Call \/ Driver \/ Wifi
  \/ Booted \/ ExitSafeMode \/ Recovery \/ Connect \/ Connected \/ KeepAlive
  \/ Interrupt \/ Triggered \/ Received \/ Parse \/ Executed \/ Download \/ Notify

\* The kernel runs the owner of the mutex, and the module answers.
LinkFairness == WF_allvars(Driver) /\ WF_allvars(Wifi)

LinkSpec == LinkInit /\ [][LinkNext]_allvars /\ LinkFairness

----------------------------------------------------------------------------

\* The type invariant.
LinkTypeOK ==
  /\ TypeOK
  /\ phase \in [Threads -> Cmds \cup DOMAIN Writes \cup DOMAIN Reads \cup
                           {"off", "idle", "channel", "gone", "wait", "parse"}]
  /\ begun \in [Threads -> BOOLEAN]
  /\ {booted, web_bsem, download_bsem} \subseteq BOOLEAN
  /\ message \in 0..sent

\* get_channel_id reads response_body without the mutex (websocket.c:159), in time: it
\* still holds the answer to the command that opened the websocket.
ChannelIdOwn == phase["S"] = "channel" => body = number["S"]

\* "No error: decode the data received": what websocket_ext parses in response_body is
\* the message it has read (websocket.c:56), at least as long as no read times out.
ParsesOwn == phase["X"] = "parse" /\ ~late => body = message

=============================================================================
