-------------------------------- MODULE MCFlash --------------------------------
(* Flash: instance for TLC. *)
EXTENDS Flash, TLC

CONSTANT Sizes \* the sizes of the sectors

\* flashSectorBegin adds the sizes of the sectors before.
MCSectorBegin ==
  LET begin[s \in 0..Sectors] == IF s = 0 THEN 0 ELSE begin[s - 1] + Sizes[s] IN begin

MCSizes == <<4, 8>>

\* All bytes 0, and bytes that differ from their neighbours.
MCBuffers == {[i \in 0..11 |-> {}], [i \in 0..11 |-> IF i % 2 = 0 THEN {} ELSE Bits]}
=============================================================================
