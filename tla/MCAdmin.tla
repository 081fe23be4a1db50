-------------------------------- MODULE MCAdmin --------------------------------
(* One command after the other at a server that is played, for TLC. *)
EXTENDS OpenTTDAdapter, TLC
CONSTANTS n1, n2
================================================================================
