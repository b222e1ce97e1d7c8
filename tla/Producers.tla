------------------------------ MODULE Producers ------------------------------
(***************************************************************************)
(* The threads that fill input_box, flash_audio_in and wifi_audio_in       *)
(* (sound.c, lines 308 to 451), and the code that commands them: the       *)
(* "play" and "stop" of websocket_ext, RINGBELL_CMD in handle_commands,    *)
(* and the boot music of main.                                             *)
(*                                                                         *)
(* Of a read from the Wi-Fi module the model keeps whether it failed and   *)
(* whether the buffer is full afterwards.  After an error the length that  *)
(* is added to bytes_nb is that of an error text, or was never set: the    *)
(* buffer may be full or not.                                              *)
(***************************************************************************)
EXTENDS AudioBase

----------------------------------------------------------------------------
(* flash_audio_in                                                          *)

FWait ==
  /\ Step("F", "f_wait", "f_lock")
  /\ audio_bsem' = FALSE
  /\ UNCHANGED <<boxes, held, dlocals, wlocals, cur_pos, owner, download_bsem,
                 decode_bsem, i2svars, flags, bounds, history>>

FLock ==
  /\ Step("F", "f_lock", "f_reset")
  /\ owner' = "F"
  /\ UNCHANGED <<boxes, held, dlocals, wlocals, cur_pos, bsems, i2svars, flags, bounds,
                 history>>

\* Mutant of FReset: the decoding thread is not started.
FResetOnly ==
  LET known == music_id < ALARM_SOUND_NB IN
  /\ Reset("F", "f_reset", IF known THEN "f_loop" ELSE "f_wait")
  /\ owner' = IF known THEN owner ELSE Unlocked("F")
  /\ UNCHANGED <<held, dlocals, wlocals, cur_pos, bsems, i2svars, flags, bounds>>

\* An unknown music is ignored; otherwise the decoding thread is started.
FReset ==
  LET known == music_id < ALARM_SOUND_NB IN
  /\ Reset("F", "f_reset", IF known THEN "f_loop" ELSE "f_wait")
  /\ owner' = IF known THEN owner ELSE Unlocked("F")
  /\ decode_bsem' = IF known THEN TRUE ELSE decode_bsem
  /\ UNCHANGED <<held, dlocals, wlocals, cur_pos, audio_bsem, download_bsem, i2svars,
                 flags, bounds>>

\* while (repeat > 0 && !urgent_stop)
FLoop ==
  /\ Step("F", "f_loop", IF repeat > 0 /\ ~urgent_stop THEN "f_free" ELSE "f_end")
  /\ cur_pos' = 0
  /\ UNCHANGED <<boxes, held, dlocals, wlocals, owner, bsems, i2svars, flags, bounds,
                 history>>

\* Thread t gets a buffer to fill.
TakeFreeIn(t, from, to) ==
  /\ Step(t, from, to)
  /\ held' = [held EXCEPT ![t] = Head(freeIn)]
  /\ freeIn' = Tail(freeIn)
  /\ UNCHANGED <<inBox, freeDec, content, dlocals, wlocals, cur_pos, owner, bsems,
                 i2svars, flags, bounds, history>>

FFree == TakeFreeIn("F", "f_free", "f_post")

\* Mutant of Insert: the buffer is posted ahead of those that wait.
InsertAhead(t) ==
  /\ inBox' = <<held[t]>> \o inBox
  /\ content' = [content EXCEPT ![held[t]] = sent + 1]
  /\ sent' = sent + 1
  /\ UNCHANGED <<freeIn, freeDec, held, lastRead>>

\* Thread t inserts the buffer it has just filled with the next chunk.
Insert(t) ==
  /\ inBox' = Append(inBox, held[t])
  /\ content' = [content EXCEPT ![held[t]] = sent + 1]
  /\ sent' = sent + 1
  /\ UNCHANGED <<freeIn, freeDec, held, lastRead>>

\* After the last buffer of the music, or when it is stopped, one repetition is over.
FPost ==
  LET over == urgent_stop \/ cur_pos + 1 = FlashChunks IN
  /\ Step("F", "f_post", IF over THEN "f_loop" ELSE "f_free")
  /\ Insert("F")
  /\ cur_pos' = cur_pos + 1
  /\ repeat' = IF over THEN repeat - 1 ELSE repeat
  /\ UNCHANGED <<dlocals, wlocals, owner, bsems, i2svars, music_id, urgent_stop, bounds>>

\* The buffer fetched here is not used: NULL is posted instead of it.
FEnd == TakeFreeIn("F", "f_end", "f_null")

PostNull(t, from, to) ==
  /\ Step(t, from, to)
  /\ inBox' = Append(inBox, Null)
  /\ owner' = Unlocked(t)
  /\ UNCHANGED <<freeIn, freeDec, content, held, dlocals, wlocals, cur_pos, bsems,
                 i2svars, flags, bounds, history>>

FNull == PostNull("F", "f_null", "f_wait")

FStep == FWait \/ FLock \/ FReset \/ FLoop \/ FFree \/ FPost \/ FEnd \/ FNull

----------------------------------------------------------------------------
(* wifi_audio_in                                                           *)

\* The mailboxes are reset without the mutex.
WStart ==
  /\ Reset("W", "w_wait", "w_loop")
  /\ download_bsem' = FALSE
  /\ nodata' = 0 /\ initial_buffering' = NIn - 1
  /\ UNCHANGED <<held, dlocals, cur_pos, owner, audio_bsem, decode_bsem, i2svars, flags,
                 bounds>>

WLoop ==
  /\ Step("W", "w_loop",
          IF nodata < MaxNoData /\ repeat > 0 THEN "w_lock"
          ELSE IF urgent_stop THEN "w_wait" ELSE "w_end_lock")
  /\ UNCHANGED <<boxes, held, dlocals, wlocals, cur_pos, owner, bsems, i2svars, flags,
                 bounds, history>>

WLock(from, to) ==
  /\ Step("W", from, to)
  /\ owner' = "W"
  /\ UNCHANGED <<boxes, held, dlocals, wlocals, cur_pos, bsems, i2svars, flags, bounds,
                 history>>

WFree == TakeFreeIn("W", "w_free", "w_read")

\* A read_music that failed has left wifi_mutex locked: the Wi-Fi driver does not answer
\* any more (ShutForGood of WifiDriver).
Shut == pc["X"] = "x_shut"

\* wifi_read returns data: the buffer is full, or another read follows.
WReadOk ==
  /\ net > 0 /\ ~Shut
  /\ \/ Wake("W", "w_read", "w_full") /\ net' = net - 1
     \/ Wake("W", "w_read", "w_read") /\ UNCHANGED net
  /\ nodata' = 0
  /\ UNCHANGED <<boxes, held, dlocals, initial_buffering, cur_pos, owner, bsems, i2svars,
                 flags, requests, bad, booting, history>>

\* wifi_read fails; the reading of this buffer is given up, or goes on in one second.
WReadError ==
  /\ ~Shut
  /\ Wake("W", "w_read", IF nodata + 1 = MaxNoData \/ urgent_stop THEN "w_full" ELSE "w_sleep")
  /\ nodata' = nodata + 1
  /\ UNCHANGED <<boxes, held, dlocals, initial_buffering, cur_pos, owner, bsems, i2svars,
                 flags, bounds, history>>

WSlept ==
  /\ \/ Wake("W", "w_sleep", "w_full") /\ net > 0 /\ net' = net - 1
     \/ Wake("W", "w_sleep", "w_read") /\ UNCHANGED net
  /\ UNCHANGED <<boxes, held, dlocals, wlocals, cur_pos, owner, bsems, i2svars, flags,
                 requests, bad, booting, history>>

\* Stopped: the buffer is dropped and the loop left.
WStopped ==
  /\ urgent_stop
  /\ Step("W", "w_full", "w_wait")
  /\ owner' = Unlocked("W")
  /\ UNCHANGED <<boxes, held, dlocals, wlocals, cur_pos, bsems, i2svars, flags, bounds,
                 history>>

\* Insert the buffer; the decoding thread starts after initial_buffering of them.
WInsert ==
  /\ ~urgent_stop
  /\ Step("W", "w_full", "w_loop")
  /\ Insert("W")
  /\ initial_buffering' = IF initial_buffering > 0 THEN initial_buffering - 1 ELSE 0
  /\ decode_bsem' = (decode_bsem \/ initial_buffering = 1)
  /\ owner' = Unlocked("W")
  /\ UNCHANGED <<dlocals, nodata, cur_pos, audio_bsem, download_bsem, i2svars, flags, bounds>>

WEnd == TakeFreeIn("W", "w_end", "w_null")
WNull == PostNull("W", "w_null", "w_close")

\* The command that closes the channel has been answered.
WClosed ==
  /\ ~Shut
  /\ Wake("W", "w_close", "w_wait")
  /\ UNCHANGED <<boxes, held, dlocals, wlocals, cur_pos, owner, bsems, i2svars, flags,
                 bounds, history>>

WStep ==
  \/ WStart \/ WLoop \/ WLock("w_lock", "w_free") \/ WFree \/ WStopped \/ WInsert
  \/ WLock("w_end_lock", "w_end") \/ WEnd \/ WNull
WDevice == WReadOk \/ WReadError \/ WSlept \/ WClosed

----------------------------------------------------------------------------
(* The commands                                                            *)

\* No music is played or about to be.
Idle ==
  /\ pc["D"] = "d_wait" /\ pc["F"] = "f_wait" /\ pc["W"] = "w_wait"
  /\ pc["X"] \in {"x_idle", "x_shut"} /\ ~booting /\ ~audio_bsem /\ ~download_bsem /\ ~decode_bsem

Command == requests > 0 /\ requests' = requests - 1 /\ OthersTurn

\* "play": the flags are set, then the HTTP request is sent (read_music).
Play ==
  /\ Command /\ (Calm => Idle) /\ ~booting
  /\ pc["X"] = "x_idle" /\ pc' = [pc EXCEPT !["X"] = "x_get"]
  /\ urgent_stop' = FALSE /\ repeat' = 1
  /\ UNCHANGED <<cur, boxes, held, dlocals, wlocals, cur_pos, owner, bsems, i2svars,
                 music_id, net, bad, booting, history>>

\* The answer has come: the download thread is signalled.
PlayAnswered ==
  /\ Wake("X", "x_get", "x_idle") /\ OthersTurn
  /\ download_bsem' = TRUE
  /\ net' = NetChunks
  /\ UNCHANGED <<boxes, held, dlocals, wlocals, cur_pos, owner, audio_bsem, decode_bsem,
                 i2svars, flags, requests, bad, booting, history>>

\* The request has failed: read_music returns without unlocking wifi_mutex.
PlayFailed ==
  /\ Wake("X", "x_get", "x_shut") /\ OthersTurn
  /\ UNCHANGED <<boxes, held, dlocals, wlocals, cur_pos, owner, bsems, i2svars, flags,
                 bounds, history>>

\* "stop": repeat = 0, then urgent_stop = true; W may run in between.
Stop ==
  /\ Command /\ ~booting
  /\ pc["X"] = "x_idle" /\ pc' = [pc EXCEPT !["X"] = "x_stop"]
  /\ repeat' = 0
  /\ UNCHANGED <<cur, boxes, held, dlocals, wlocals, cur_pos, owner, bsems, i2svars,
                 music_id, urgent_stop, net, bad, booting, history>>

StopUrgently ==
  /\ Wake("X", "x_stop", "x_idle") /\ OthersTurn
  /\ urgent_stop' = TRUE
  /\ UNCHANGED <<boxes, held, dlocals, wlocals, cur_pos, owner, bsems, i2svars, music_id,
                 repeat, bounds, history>>

\* RINGBELL_CMD with the identifier of a music, or with STOP_MUSIC.
Ring ==
  /\ Command /\ (Calm => Idle)
  /\ music_id' \in {3, ALARM_SOUND_NB + 1}
  /\ repeat' = 1
  /\ audio_bsem' = TRUE
  /\ UNCHANGED <<pc, cur, boxes, held, dlocals, wlocals, cur_pos, owner, download_bsem,
                 decode_bsem, i2svars, urgent_stop, net, bad, booting, history>>

RingStop ==
  /\ Command
  /\ repeat' = 0
  /\ UNCHANGED <<pc, cur, boxes, held, dlocals, wlocals, cur_pos, owner, bsems, i2svars,
                 music_id, urgent_stop, net, bad, booting, history>>

\* main stops the boot music at the end of its light show.
BootOver ==
  /\ booting /\ OthersTurn
  /\ booting' = FALSE /\ repeat' = 0
  /\ UNCHANGED <<pc, cur, boxes, held, dlocals, wlocals, cur_pos, owner, bsems, i2svars,
                 music_id, urgent_stop, net, requests, bad, history>>

Commands == Play \/ Stop \/ Ring \/ RingStop

=============================================================================
