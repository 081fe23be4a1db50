------------------------------- MODULE MCFounder -------------------------------
(* Small instances of FounderSession for TLC. *)
EXTENDS FounderSession

MCDisturbances == [contracts |-> 2, products |-> 3, training |-> 4, staffing |-> 3,
                   office |-> 4, workstation |-> 2, clock |-> 6]
================================================================================
