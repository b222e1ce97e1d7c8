------------------------------ MODULE WifiService ------------------------------
(***************************************************************************)
(* What the driver of the Wi-Fi module promises to its callers (wifi.c),   *)
(* without the serial line, the parts of a response or the buffers: calls  *)
(* are served one at a time, each with the response of its own command     *)
(* until a call has given up waiting; from then on a call may get that of  *)
(* an earlier command, never of a later one.  A download that fails is     *)
(* the last call that is served.                                           *)
(***************************************************************************)
EXTENDS Integers

CONSTANTS Threads, None

VARIABLES
  serving, \* the thread whose call is served
  stage,   \* where each thread is
  call,    \* what it calls: a "timed" call may give up, a "patient" one never does
  number,  \* the number of its command
  reply,   \* what its last call returned, and whose header and body that was
  asked,   \* the number of commands sent so far
  lossy    \* a call has given up

vars == <<serving, stage, call, number, reply, asked, lossy>>

Calls == {"timed", "patient", "download"}
Failures == {"HEADER_ERROR", "HEADER_TIMEOUT"}
Answers == {"NO_ERROR", "COMMAND_FAILED", "SAFEMODE", "NO_DATA"}

\* What comes without a header.
Nothing(code) == [code |-> code, empty |-> TRUE, head |-> 0, body |-> 0]

Init ==
  /\ serving = None
  /\ stage = [t \in Threads |-> "out"] /\ call = [t \in Threads |-> "patient"]
  /\ number = [t \in Threads |-> 0]
  /\ reply = [t \in Threads |-> Nothing("NO_ERROR")]
  /\ asked = 0 /\ lossy = FALSE

\* Thread t calls, and waits for its turn.
Call(t, c) ==
  /\ stage[t] = "out"
  /\ call' = [call EXCEPT ![t] = c]
  /\ IF serving = None
     THEN serving' = t /\ stage' = [stage EXCEPT ![t] = "chosen"]
     ELSE UNCHANGED serving /\ stage' = [stage EXCEPT ![t] = "waiting"]
  /\ UNCHANGED <<number, reply, asked, lossy>>

\* Its command is sent.
Ask(t) ==
  /\ stage[t] = "chosen"
  /\ stage' = [stage EXCEPT ![t] = "asked"]
  /\ asked' = asked + 1
  /\ number' = [number EXCEPT ![t] = asked + 1]
  /\ UNCHANGED <<serving, call, reply, lossy>>

\* The call of t ends, and the next one is served unless it was a download that failed.
Pass(t, failed) ==
  /\ stage[t] = "asked"
  /\ IF call[t] = "download" /\ failed
     THEN UNCHANGED serving /\ stage' = [stage EXCEPT ![t] = "out"]
     ELSE \/ /\ \A u \in Threads : stage[u] # "waiting"
             /\ serving' = None /\ stage' = [stage EXCEPT ![t] = "out"]
          \/ \E u \in Threads :
               /\ stage[u] = "waiting"
               /\ serving' = u /\ stage' = [stage EXCEPT ![t] = "out", ![u] = "chosen"]
  /\ UNCHANGED <<call, number, asked>>

\* The commands whose response the thread may get: its own, or once responses are left over
\* any earlier one (0: none).
Numbers(t) == IF lossy THEN 0..number[t] ELSE {number[t]}

Replies(t) ==
  [code : Answers, empty : BOOLEAN, head : Numbers(t), body : Numbers(t)]
    \cup IF lossy THEN {Nothing(code) : code \in Failures} ELSE {}

Reply(t) ==
  \E failed \in BOOLEAN :
    /\ Pass(t, failed)
    /\ \E r \in Replies(t) :
         (failed <=> r.code # "NO_ERROR") /\ reply' = [reply EXCEPT ![t] = r]
    /\ UNCHANGED lossy

\* A call that gives up gets nothing, or the header of a response without its body.
GivenUp(t) ==
  {Nothing("HEADER_TIMEOUT")}
    \cup [code : Answers, empty : {FALSE}, head : Numbers(t), body : {0}]

GiveUp(t) ==
  /\ call[t] = "timed" /\ Pass(t, TRUE)
  /\ \E r \in GivenUp(t) : reply' = [reply EXCEPT ![t] = r]
  /\ lossy' = TRUE

Next ==
  \E t \in Threads : (\E c \in Calls : Call(t, c)) \/ Ask(t) \/ Reply(t) \/ GiveUp(t)

Spec == Init /\ [][Next]_vars
=============================================================================
