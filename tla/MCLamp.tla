--------------------------------- MODULE MCLamp ---------------------------------
(* LEDs and servos: instance for TLC. *)
EXTENDS Lamp
=============================================================================
