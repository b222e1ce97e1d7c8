-------------------------------- MODULE Audio --------------------------------
(***************************************************************************)
(* The audio subsystem: playback, its two feeders and their commands.      *)
(***************************************************************************)
EXTENDS Playback, Producers, FiniteSets

\* The state at the end of main's initialisation: audioInit has filled the
\* mailboxes and the boot music has been asked for.
Init ==
  /\ pc = [D |-> "d_top", F |-> "f_wait", W |-> "w_wait", X |-> "x_idle"]
  /\ cur = "D"
  /\ freeIn = [i \in InBufs |-> i] /\ freeDec = [i \in DecBufs |-> i] /\ inBox = <<>>
  /\ content = [b \in InBufs |-> 0]
  /\ held = [t \in Threads |-> Null]
  /\ pbuf = Null /\ rd = 0 /\ wr = 0 /\ count = 0
  /\ nodata = 0 /\ initial_buffering = 0 /\ cur_pos = 0
  /\ owner = "none"
  /\ audio_bsem = TRUE /\ download_bsem = FALSE /\ decode_bsem = FALSE
  /\ audio_sem = 2 /\ i2s = FALSE /\ half = 0 /\ started = FALSE
  /\ music_id = 3 /\ repeat = 1 /\ urgent_stop = FALSE
  /\ net = 0 /\ requests = Requests /\ bad = BadFrames /\ booting = TRUE
  /\ sent = 0 /\ lastRead = 0

Next ==
  \/ DStep \/ DTimeout \/ DDrained \/ I2SInterrupt
  \/ FStep \/ WStep \/ WDevice
  \/ Commands \/ PlayAnswered \/ PlayFailed \/ StopUrgently \/ BootOver

\* The kernel runs every ready thread, a half of the I2S buffer is played in
\* bounded time, the reads and sleeps of W end, and so does main's light show.
Fairness ==
  /\ WF_vars(DStep) /\ WF_vars(DDrained) /\ WF_vars(I2SInterrupt)
  /\ WF_vars(FStep) /\ WF_vars(WStep) /\ WF_vars(WDevice)
  /\ WF_vars(PlayAnswered \/ PlayFailed) /\ WF_vars(StopUrgently) /\ WF_vars(BootOver)

Spec == Init /\ [][Next]_vars /\ Fairness

----------------------------------------------------------------------------

\* The kernel calls each thread makes.
DLabels ==
  {"d_top", "d_wait", "d_free", "d_acquire", "d_fetch", "d_release", "d_eom_dec", "d_eom_in",
   "d_eom", "d_decode", "d_sem", "d_post", "d_start", "d_drop", "d_bad", "d_bad2", "d_drain"}
FLabels == {"f_wait", "f_lock", "f_reset", "f_loop", "f_free", "f_post", "f_end", "f_null"}
WLabels ==
  {"w_wait", "w_loop", "w_lock", "w_free", "w_read", "w_sleep", "w_full", "w_end_lock", "w_end",
   "w_null", "w_close"}
XLabels == {"x_idle", "x_get", "x_stop", "x_shut"}

\* The type invariant.
TypeOK ==
  /\ pc \in [Threads -> DLabels \cup FLabels \cup WLabels \cup XLabels]
  /\ pc["D"] \in DLabels /\ pc["F"] \in FLabels /\ pc["W"] \in WLabels /\ pc["X"] \in XLabels
  /\ cur \in NormalPrio
  /\ freeIn \in Seq(InBufs \cup {Null}) /\ Len(freeIn) <= NIn
  /\ inBox \in Seq(InBufs \cup {Null}) /\ Len(inBox) <= NIn
  /\ freeDec \in Seq(DecBufs) /\ Len(freeDec) <= NDec
  /\ content \in [InBufs -> Nat]
  /\ held \in [Threads -> InBufs \cup {Null}]
  /\ pbuf \in DecBufs \cup {Null}
  /\ rd \in 0..wr /\ wr \in 0..WBSize
  /\ count \in {0, 1} /\ half \in {0, 1}
  /\ nodata \in 0..MaxNoData /\ initial_buffering \in 0..NIn /\ cur_pos \in Nat
  /\ owner \in {"none", "F", "W"}
  /\ audio_sem \in 0..SemCap
  /\ repeat \in -1..1 /\ music_id \in Nat
  /\ {audio_bsem, download_bsem, decode_bsem, i2s, started, urgent_stop, booting} \subseteq BOOLEAN
  /\ {net, requests, bad, sent, lastRead} \subseteq Nat

\* The input buffers thread t is filling or reading.
Working == [D |-> {"d_release"}, F |-> {"f_post"}, W |-> {"w_read", "w_sleep", "w_full"}]

\* Every input buffer is in one place at most: in a mailbox, once, or in the
\* hands of one thread.  Two threads never write, or write and read, the same
\* buffer (sound.c, the comment on audio_mutex and the two mailboxes).
BufferOwnership ==
  \A b \in InBufs :
    Cardinality({i \in DOMAIN freeIn : freeIn[i] = b})
    + Cardinality({i \in DOMAIN inBox : inBox[i] = b})
    + Cardinality({t \in DOMAIN Working : pc[t] \in Working[t] /\ held[t] = b}) <= 1

\* The chunks of a music reach the decoder in the order they were inserted, none
\* lost, repeated or overwritten: those that wait in input_box follow, one by
\* one, the last one read, and the last of them is the last one inserted.  What
\* marks the end of the music is behind them.
InOrder ==
  LET ended == inBox # <<>> /\ inBox[Len(inBox)] = Null
      waiting == IF ended THEN Len(inBox) - 1 ELSE Len(inBox)
  IN /\ \A k \in 1..waiting : inBox[k] # Null /\ content[inBox[k]] = lastRead + k
     /\ lastRead + waiting = sent

\* Between two musics the speaker is silent and its semaphore counts two halves.
SpeakerIdle == pc["D"] = "d_wait" => ~i2s /\ ~started /\ audio_sem = 2

\* audio_playback waits for what it alone could bring about: a free buffer for the decoded
\* frame when it has lost them all, or room in the I2S buffer when it has stopped the I2S.
Stuck ==
  \/ pc["D"] = "d_free" /\ freeDec = <<>>
  \/ pc["D"] = "d_sem" /\ audio_sem = 0 /\ ~i2s

\* A music read from flash ends: flash_audio_in and audio_playback both come back to
\* their initial wait, whatever is stopped meanwhile, unless the playback gets stuck.
FlashMusicEnds ==
  pc["F"] = "f_loop" ~> Stuck \/ (pc["F"] = "f_wait" /\ pc["D"] = "d_wait")

\* Where the frames are written and where the I2S reads, counting the frame that waits for
\* its half and the halves that are free.
Phase == (WriteHalf + half + audio_sem + IF pc["D"] = "d_sem" THEN 1 ELSE 0) % 2

\* While the I2S runs, the halves the frames are copied to and the halves it plays keep the
\* step in which they started, whatever the interrupts and the decoding errors (sound.c:112-120,
\* 279-300): a frame that goes to the right half is followed by frames that do.
HalvesInStep == [][i2s /\ i2s' => Phase' = Phase]_vars

\* The source of the music: the thread that fills input_box.
Source ==
  IF pc["F"] \in {"f_loop", "f_free", "f_post", "f_end", "f_null"} THEN "flash"
  ELSE IF pc["W"] \notin {"w_wait", "w_close"} THEN "network" ELSE "none"

Music ==
  INSTANCE MusicService WITH Capacity <- NIn, source <- Source, read <- lastRead,
                             sounding <- i2s

\* Playback, flash_audio_in and wifi_audio_in, with their mailboxes, semaphores and commands,
\* implement the service: one music at a time, in order, from silence to silence.
ImplementsMusic == Music!Spec

----------------------------------------------------------------------------
(* What the comments of sound.c say, and the code does not do.             *)

\* "Wait for free space in the i2s buffer.": the wait on audio_sem ends (sound.c:285).
I2SSpaceComes == pc["D"] = "d_sem" ~> pc["D"] # "d_sem"

\* "Release the intermediate buffer.": pbuf goes back to its mailbox (sound.c:291).
PbufReleased == pc["D"] = "d_post" ~> pc["D"] # "d_post"

=============================================================================
