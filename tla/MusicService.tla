----------------------------- MODULE MusicService -----------------------------
(***************************************************************************)
(* What the audio subsystem promises to those who ask for a music: one     *)
(* source at a time, flash or network, whose chunks are read in the order  *)
(* they were inserted, a bounded number of them waiting; a session begins  *)
(* in silence and with nothing of the one before, and the speaker starts   *)
(* only once something of this music has been read.                        *)
(***************************************************************************)
EXTENDS Integers

CONSTANT Capacity  \* the number of chunks that can wait

VARIABLES
  source,      \* "none", or what inserts the chunks of the music
  sent, read,  \* the chunks inserted and read in this session
  sounding     \* the speaker plays

vars == <<source, sent, read, sounding>>

Init == source = "none" /\ sent = 0 /\ read = 0 /\ ~sounding

\* What is left of the music before is thrown away, for another one, or for nothing.
Begin(s) ==
  /\ source = "none" /\ ~sounding
  /\ source' = s /\ sent' = 0 /\ read' = 0
  /\ UNCHANGED sounding

Insert ==
  /\ source # "none" /\ sent - read < Capacity
  /\ sent' = sent + 1
  /\ UNCHANGED <<source, read, sounding>>

\* The source has inserted its last chunk, or is stopped.
End ==
  /\ source # "none" /\ source' = "none"
  /\ UNCHANGED <<sent, read, sounding>>

Read ==
  /\ read < sent
  /\ read' = read + 1
  /\ UNCHANGED <<source, sent, sounding>>

Sound ==
  /\ ~sounding /\ read > 0
  /\ sounding' = TRUE
  /\ UNCHANGED <<source, sent, read>>

Silence ==
  /\ sounding /\ sounding' = FALSE
  /\ UNCHANGED <<source, sent, read>>

Next ==
  \/ \E s \in {"none", "flash", "network"} : Begin(s)
  \/ Insert \/ End \/ Read \/ Sound \/ Silence

Spec == Init /\ [][Next]_vars

=============================================================================
