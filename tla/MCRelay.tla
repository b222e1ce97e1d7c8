--------------------------------- MODULE MCRelay --------------------------------
(* Relay: instance for TLC. *)
EXTENDS Relay, TLC
=============================================================================
