------------------------------- MODULE MCWifi -------------------------------
(* Wi-Fi link: instance for TLC. *)
EXTENDS WifiLink, TLC
=============================================================================
