-------------------------------- MODULE MCRoute --------------------------------
(* Small instances of RailRouteDesk for TLC. *)
EXTENDS RailRouteDesk

MCWires == [sampled |-> 3, pumped |-> 2]

================================================================================
