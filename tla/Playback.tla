------------------------------- MODULE Playback -------------------------------
(***************************************************************************)
(* audio_playback, the thread that decodes the buffers of input_box, and   *)
(* the I2S driver it feeds (sound.c, lines 112 to 306).                    *)
(*                                                                         *)
(* What MP3FindSyncWord and MP3Decode answer is an input of the model: a   *)
(* frame, or one of the errors the thread tells apart.  Of the working     *)
(* buffer the model keeps read_ptr and write_ptr.  The NORMALPRIO threads  *)
(* compute without being suspended between two kernel calls.               *)
(***************************************************************************)
EXTENDS AudioBase

\* Lines 182-185: the start of the outer loop, before the wait on decode_bsem.
DTop ==
  /\ Step("D", "d_top", "d_wait")
  /\ rd' = 0 /\ wr' = 0 /\ audio_sem' = 2
  /\ UNCHANGED <<boxes, held, pbuf, count, wlocals, cur_pos, owner, bsems, i2s, half,
                 started, flags, bounds, history>>

DWait ==
  /\ Step("D", "d_wait", "d_free")
  /\ decode_bsem' = FALSE
  /\ UNCHANGED <<boxes, held, dlocals, wlocals, cur_pos, owner, audio_bsem,
                 download_bsem, i2svars, flags, bounds, history>>

\* Get a buffer for the decoded frame.
DFree ==
  /\ Step("D", "d_free", "d_acquire")
  /\ pbuf' = Head(freeDec) /\ freeDec' = Tail(freeDec)
  /\ UNCHANGED <<freeIn, inBox, content, held, rd, wr, count, wlocals, cur_pos, owner,
                 bsems, i2svars, flags, bounds, history>>

\* Mutant of StopI2S: started keeps its value.
StopI2SOnly == i2s' = FALSE /\ started' = started /\ half' = 0 /\ UNCHANGED audio_sem

\* i2sStopExchange, i2sStop and started = false.
StopI2S == i2s' = FALSE /\ started' = FALSE /\ half' = 0 /\ UNCHANGED audio_sem

\* Mutant of SpaceLeft: the room for a buffer is taken for WORKING_BUFFER_MIN_LENGTH.
SpaceForLess == WBSize - wr >= MinLen

SpaceLeft == WBSize - wr >= InSize

\* No room for more data, or no data to wait for: decode what is there.
DEnough ==
  /\ Step("D", "d_acquire", "d_decode")
  /\ SpaceLeft => inBox = <<>> /\ wr - rd > MinLen
  /\ UNCHANGED <<boxes, held, dlocals, wlocals, cur_pos, owner, bsems, i2svars, flags,
                 bounds, history>>

\* More data is needed.  When there is none yet, the I2S is stopped meanwhile.
DMore ==
  /\ Step("D", "d_acquire", "d_fetch")
  /\ SpaceLeft /\ ~(inBox = <<>> /\ wr - rd > MinLen)
  /\ IF inBox = <<>> /\ i2s
     THEN StopI2S
     ELSE UNCHANGED i2svars
  /\ UNCHANGED <<boxes, held, dlocals, wlocals, cur_pos, owner, bsems, flags, bounds,
                 history>>

\* A buffer of music is appended to the working buffer; NULL is the end of music.
DFetch ==
  LET b == Head(inBox) IN
  /\ Step("D", "d_fetch", IF b = Null THEN "d_eom_dec" ELSE "d_release")
  /\ inBox' = Tail(inBox)
  /\ held' = [held EXCEPT !["D"] = b]
  /\ IF b = Null
     THEN UNCHANGED <<wr, lastRead>>
     ELSE wr' = wr + InSize /\ lastRead' = content[b]
  /\ UNCHANGED <<freeIn, freeDec, content, pbuf, rd, count, wlocals, cur_pos, owner, bsems,
                 i2svars, flags, bounds, sent>>

\* The read of input_box gives up after 500 ms.  Only the download is that late:
\* it waits for the network, or sleeps for one second after an error.
DTimeout ==
  /\ Blocked("D") /\ Wake("D", "d_fetch", "d_top")
  /\ Blocked("F") /\ Blocked("W")
  /\ UNCHANGED <<boxes, held, dlocals, wlocals, cur_pos, owner, bsems, i2svars, flags,
                 bounds, history>>

DRelease ==
  /\ Step("D", "d_release", "d_acquire")
  /\ freeIn' = Append(freeIn, held["D"])
  /\ content' = [content EXCEPT ![held["D"]] = 0]
  /\ UNCHANGED <<inBox, freeDec, held, dlocals, wlocals, cur_pos, owner, bsems, i2svars,
                 flags, bounds, history>>

\* pbuf goes back to free_decoded_data_box.
ReleasePbuf(from, to) ==
  /\ Step("D", from, to)
  /\ freeDec' = Append(freeDec, pbuf)
  /\ UNCHANGED <<freeIn, inBox, content, held, pbuf, wlocals, cur_pos, owner, bsems,
                 i2svars, flags, bounds, history>>

\* End of music: pbuf and the NULL itself are posted, then the I2S is stopped.
DEndDec == ReleasePbuf("d_eom_dec", "d_eom_in") /\ UNCHANGED <<rd, wr, count>>

DEndIn ==
  /\ Step("D", "d_eom_in", "d_eom")
  /\ freeIn' = Append(freeIn, held["D"])
  /\ UNCHANGED <<inBox, freeDec, content, held, dlocals, wlocals, cur_pos, owner, bsems,
                 i2svars, flags, bounds, history>>

DEnd ==
  /\ Step("D", "d_eom", "d_top")
  /\ StopI2S
  /\ UNCHANGED <<boxes, held, dlocals, wlocals, cur_pos, owner, bsems, flags, bounds, history>>

\* Once n units are consumed, what is left moves to the start of the working
\* buffer if more than one input buffer has been read.
Consume(n) ==
  IF rd + n > InSize THEN rd' = 0 /\ wr' = wr - (rd + n)
                     ELSE rd' = rd + n /\ UNCHANGED wr

\* No sync word: the working buffer is cleared, and the thread starts again
\* without giving pbuf back.
DNoSync ==
  /\ Step("D", "d_decode", "d_free")
  /\ wr > rd /\ bad > 0 /\ bad' = bad - 1
  /\ rd' = 0 /\ wr' = 0
  /\ UNCHANGED <<boxes, held, pbuf, count, wlocals, cur_pos, owner, bsems, i2svars, flags,
                 net, requests, booting, history>>

\* A frame is decoded.  Count is the number of frames, of which only parity matters.
DFrame ==
  /\ Step("D", "d_decode", "d_sem")
  /\ wr - rd >= Frame
  /\ Consume(Frame)
  /\ count' = 1 - count
  /\ UNCHANGED <<boxes, held, pbuf, wlocals, cur_pos, owner, bsems, i2svars, flags, bounds,
                 history>>

\* Mutant of DUnderflow: the frame that is dropped is counted.
DUnderflowCounted ==
  /\ Step("D", "d_decode", "d_drop")
  /\ wr > rd /\ wr - rd < Frame /\ Consume(wr - rd)
  /\ count' = 1 - count
  /\ UNCHANGED <<boxes, held, pbuf, wlocals, cur_pos, owner, bsems, i2svars, flags, bounds,
                 history>>

\* Underflow or invalid Huffman codes: the frame is dropped.
DUnderflow ==
  /\ Step("D", "d_decode", "d_drop")
  /\ \/ wr > rd /\ wr - rd < Frame /\ Consume(wr - rd) /\ UNCHANGED bad
     \/ wr - rd >= Frame /\ bad > 0 /\ bad' = bad - 1 /\ Consume(Frame)
  /\ UNCHANGED <<boxes, held, pbuf, count, wlocals, cur_pos, owner, bsems, i2svars, flags,
                 net, requests, booting, history>>

DDrop == ReleasePbuf("d_drop", "d_free") /\ UNCHANGED <<rd, wr, count>>

\* Invalid frame header.
DBadHeader ==
  /\ Step("D", "d_decode", "d_bad")
  /\ wr > rd /\ bad > 0 /\ bad' = bad - 1
  /\ UNCHANGED <<boxes, held, dlocals, wlocals, cur_pos, owner, bsems, i2svars, flags,
                 net, requests, booting, history>>

DBad == ReleasePbuf("d_bad", "d_bad2") /\ UNCHANGED <<rd, wr, count>>

\* The working buffer is cleared, after the I2S has been left 100 ms to play the
\* frames it holds and stopped, if it runs.
DClear ==
  /\ Step("D", "d_bad2", IF i2s THEN "d_drain" ELSE "d_free")
  /\ IF i2s THEN UNCHANGED <<rd, wr>> ELSE rd' = 0 /\ wr' = 0
  /\ UNCHANGED <<boxes, held, pbuf, count, wlocals, cur_pos, owner, bsems, i2svars, flags,
                 bounds, history>>

\* A half of i2s_tx_buf lasts about 26 ms: in 100 ms at least one has been played.
DDrained ==
  /\ Wake("D", "d_drain", "d_free")
  /\ audio_sem > 0
  /\ StopI2S
  /\ rd' = 0 /\ wr' = 0
  /\ UNCHANGED <<boxes, held, pbuf, count, wlocals, cur_pos, owner, bsems, flags, bounds,
                 history>>

\* Wait for free space in the I2S buffer.
DSem ==
  /\ Step("D", "d_sem", "d_post")
  /\ audio_sem' = audio_sem - 1
  /\ UNCHANGED <<boxes, held, dlocals, wlocals, cur_pos, owner, bsems, i2s, half, started,
                 flags, bounds, history>>

\* The half of i2s_tx_buf that i2s_offset designates for the current frame.
WriteHalf == IF count = 0 THEN 0 ELSE 1

\* Copy the frame to i2s_tx_buf and release pbuf.
DPost == ReleasePbuf("d_post", "d_start") /\ UNCHANGED <<rd, wr, count>>

\* Start the I2S once both halves of i2s_tx_buf are full.
DStart ==
  /\ Step("D", "d_start", "d_free")
  /\ IF ~started /\ audio_sem = 0
     THEN i2s' = TRUE /\ started' = TRUE /\ half' = 0
     ELSE UNCHANGED <<i2s, started, half>>
  /\ UNCHANGED <<boxes, held, dlocals, wlocals, cur_pos, owner, bsems, audio_sem, flags,
                 bounds, history>>

DStep ==
  \/ DTop \/ DWait \/ DFree \/ DEnough \/ DMore \/ DFetch \/ DRelease
  \/ DEndDec \/ DEndIn \/ DEnd
  \/ DNoSync \/ DFrame \/ DUnderflow \/ DDrop \/ DBadHeader \/ DBad \/ DClear
  \/ DSem \/ DPost \/ DStart

\* audioI2Scb, called each time the DMA of the I2S has played a half of i2s_tx_buf.
I2SInterrupt ==
  /\ i2s /\ Dispatched /\ audio_sem < SemCap
  /\ InTime => Blocked("D")
  /\ audio_sem' = audio_sem + 1
  /\ half' = 1 - half
  /\ UNCHANGED <<pc, cur, boxes, held, dlocals, wlocals, cur_pos, owner, bsems, i2s,
                 started, flags, bounds, history>>

=============================================================================
