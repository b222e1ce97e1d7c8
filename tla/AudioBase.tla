------------------------------ MODULE AudioBase ------------------------------
(***************************************************************************)
(* State shared by the three audio threads of sound.c and by the code that *)
(* commands them: the mailboxes of buffers, the flags, the semaphores, the *)
(* audio mutex, and the part of the ChibiOS scheduler that decides which   *)
(* of these threads may take a step.                                       *)
(*                                                                         *)
(* Threads: "D" audio_playback and "F" flash_audio_in run at NORMALPRIO,   *)
(* "W" wifi_audio_in at NORMALPRIO + 1, "X" stands for websocket_ext.      *)
(* CH_CFG_TIME_QUANTUM is 0, so D and F never preempt each other: one of   *)
(* them runs until it blocks.  W and the interrupts preempt both anywhere. *)
(* A step is the code between two kernel calls that may block.             *)
(*                                                                         *)
(* Abstracted: the MP3 bytes (a buffer holds the number of its chunk), and *)
(* byte counts, which are in units chosen by the constants.                *)
(***************************************************************************)
EXTENDS Integers, Sequences

CONSTANTS
  NIn, NDec,   \* INPUT_BUFFERS_NB and DECODED_DATA_BUFFERS_NB
  InSize,      \* INPUT_BUFFER_SIZE, in units of the model
  WBSize,      \* WORKING_BUFFER_SIZE
  MinLen,      \* WORKING_BUFFER_MIN_LENGTH
  Frame,       \* size of an encoded MP3 frame
  MaxNoData,   \* consecutive read errors that end a download (6)
  FlashChunks, \* number of buffers a music stored in flash fills
  NetChunks,   \* bound: number of buffers a download fills
  SemCap,      \* bound on the counter of audio_sem
  Requests,    \* bound: number of commands received
  BadFrames,   \* bound: number of frames that fail to decode
  InTime,      \* TRUE: a frame is decoded in less time than it takes to play one
  Calm         \* TRUE: a music is asked for only when no other one is in progress

ASSUME BufferAssumption ==
  NIn \in Nat \ {0, 1} /\ NDec \in Nat \ {0}

ASSUME SizeAssumption ==
  /\ InSize \in Nat \ {0} /\ WBSize \in Nat /\ MinLen \in Nat /\ Frame \in Nat \ {0}
  /\ InSize <= WBSize /\ MinLen < InSize /\ Frame <= InSize

ASSUME BoundAssumption ==
  /\ {MaxNoData, FlashChunks} \subseteq Nat \ {0}
  /\ {NetChunks, Requests, BadFrames} \subseteq Nat
  /\ SemCap \in Nat \ {0, 1}
  /\ {InTime, Calm} \subseteq BOOLEAN

VARIABLES
  pc,        \* the kernel call each thread is about to make
  cur,       \* the NORMALPRIO thread that has the processor
  \* mailboxes, and the chunk each input buffer holds
  freeIn, inBox, freeDec, content,
  \* locals of the threads: the input buffers, the output buffer, the
  \* pointers into working_buffer, the parity of count, the counters of W, cur_pos
  held, pbuf, rd, wr, count, nodata, initial_buffering, cur_pos,
  \* audio_mutex and the semaphores
  owner, audio_bsem, download_bsem, decode_bsem, audio_sem,
  \* the I2S driver: running or not, the half its DMA reads, and the flag
  i2s, half, started,
  \* the variables commands write
  music_id, repeat, urgent_stop,
  \* what remains of each bound, and whether main is still in its light show
  net, requests, bad, booting,
  \* history: the number of chunks inserted and the last one read, this session
  sent, lastRead

boxes   == <<freeIn, inBox, freeDec, content>>
dlocals == <<pbuf, rd, wr, count>>
wlocals == <<nodata, initial_buffering>>
bsems   == <<audio_bsem, download_bsem, decode_bsem>>
i2svars == <<audio_sem, i2s, half, started>>
flags   == <<music_id, repeat, urgent_stop>>
bounds  == <<net, requests, bad, booting>>
history == <<sent, lastRead>>
vars == <<pc, cur, boxes, held, dlocals, wlocals, cur_pos, owner, bsems, i2svars,
          flags, bounds, history>>

ALARM_SOUND_NB == 4
InBufs  == 1..NIn     \* in_buf
DecBufs == 1..NDec    \* buf
Null    == 0          \* the NULL pointer, which marks the end of a music
Threads == {"D", "F", "W", "X"}
NormalPrio == {"D", "F"}

----------------------------------------------------------------------------
(* Blocking.                                                               *)

\* The kernel calls that wait for a buffer in free_input_box, for room in it, ...
FetchesFreeIn == {"f_free", "f_end", "w_free", "w_end"}
PostsFreeIn   == {"d_release", "d_eom_in"}
PostsInBox    == {"f_post", "f_null", "w_full", "w_null"}
PostsFreeDec  == {"d_eom_dec", "d_drop", "d_bad", "d_post"}
Locks         == {"f_lock", "w_lock", "w_end_lock"}

\* Thread t is suspended in the kernel call it makes next.
Blocked(t) ==
  \/ pc[t] \in FetchesFreeIn /\ freeIn = <<>>
  \/ pc[t] \in PostsFreeIn /\ Len(freeIn) = NIn
  \/ pc[t] \in PostsInBox /\ Len(inBox) = NIn
  \/ pc[t] \in PostsFreeDec /\ Len(freeDec) = NDec
  \/ pc[t] \in Locks /\ owner \notin {"none", t}
  \/ pc[t] = "d_free" /\ freeDec = <<>>
  \/ pc[t] = "d_fetch" /\ inBox = <<>>
  \/ pc[t] = "d_sem" /\ audio_sem = 0
  \/ pc[t] = "d_drain"                     \* asleep, see DDrained
  \/ pc[t] = "d_wait" /\ ~decode_bsem
  \/ pc[t] = "f_wait" /\ ~audio_bsem
  \/ pc[t] = "w_wait" /\ ~download_bsem
  \/ pc[t] \in {"w_read", "w_sleep", "w_close"}  \* in the Wi-Fi driver, or asleep

\* F inherits the priority of W while W waits for the mutex F owns.
Boosted(t) == t = "F" /\ owner = "F" /\ pc["W"] \in Locks

CanRun(t) ==
  /\ ~Blocked(t)
  /\ t \in NormalPrio => cur = t \/ Blocked(cur) \/ Boosted(t)

\* The other NORMALPRIO threads run when the current one blocks.
OthersTurn == Blocked(cur)

\* The kernel has given the processor to D or F if one of them wants it: the
\* dispatch takes less time than a device needs for its next interrupt.
Dispatched == Blocked(cur) => \A t \in NormalPrio : Blocked(t)

\* Thread t takes the step from one kernel call to another.
Step(t, from, to) ==
  /\ pc[t] = from
  /\ CanRun(t)
  /\ pc' = [pc EXCEPT ![t] = to]
  /\ cur' = IF t \in NormalPrio THEN t ELSE cur

\* Thread t returns from a device or a sleep.
Wake(t, from, to) ==
  /\ pc[t] = from
  /\ pc' = [pc EXCEPT ![t] = to]
  /\ UNCHANGED cur

----------------------------------------------------------------------------
(* Mutex and mailboxes.                                                    *)

\* chMtxUnlock hands the mutex over to the thread that waits for it, if any.
Unlocked(t) ==
  LET waiters == {u \in Threads \ {t} : pc[u] \in Locks}
  IN IF waiters = {} THEN "none" ELSE CHOOSE u \in waiters : TRUE

\* chMBReset wakes a thread that waits on the mailbox, with MSG_RESET.  Only
\* audio_playback looks at that status, in its read of input_box: it ends the
\* session.  The other calls go on as if they had succeeded.
AfterReset(label) ==
  CASE label = "d_free"    -> "d_acquire"
    [] label = "d_fetch"   -> "d_top"
    [] label = "d_release" -> "d_acquire"
    [] label = "d_eom_dec" -> "d_eom_in"
    [] label = "d_eom_in"  -> "d_eom"
    [] label = "d_drop"    -> "d_free"
    [] label = "d_bad"     -> "d_bad2"
    [] label = "d_post"    -> "d_start"
    [] label = "f_free"    -> "f_post"
    [] label = "f_end"     -> "f_null"
    [] OTHER               -> label

\* A post to input_box never waits: there are no more buffers than it has room for.
OnMailbox(label) ==
  label \in {"d_free", "d_fetch"} \cup PostsFreeDec \cup PostsFreeIn \cup FetchesFreeIn

\* Mutant of Reset: input_box is not reset.
ResetKeepsInput(t, from, to) ==
  /\ pc[t] = from
  /\ CanRun(t)
  /\ pc' = [u \in Threads |->
              IF u = t THEN to
              ELSE IF OnMailbox(pc[u]) /\ Blocked(u) THEN AfterReset(pc[u]) ELSE pc[u]]
  /\ cur' = IF t \in NormalPrio THEN t ELSE cur
  /\ freeIn' = [i \in InBufs |-> i] /\ freeDec' = [i \in DecBufs |-> i]
  /\ inBox' = inBox /\ content' = content
  /\ sent' = 0 /\ lastRead' = 0

\* reset_mailboxes, called by thread t in a step from one label to another.
Reset(t, from, to) ==
  /\ pc[t] = from
  /\ CanRun(t)
  /\ pc' = [u \in Threads |->
              IF u = t THEN to
              ELSE IF OnMailbox(pc[u]) /\ Blocked(u) THEN AfterReset(pc[u]) ELSE pc[u]]
  /\ cur' = IF t \in NormalPrio THEN t ELSE cur
  /\ freeIn' = [i \in InBufs |-> i] /\ freeDec' = [i \in DecBufs |-> i]
  /\ inBox' = <<>>
  /\ content' = [b \in InBufs |-> 0]
  /\ sent' = 0 /\ lastRead' = 0

=============================================================================
