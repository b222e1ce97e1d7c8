------------------------------- MODULE MCAudio -------------------------------
(* Audio for model checking. *)
EXTENDS Audio
=============================================================================
