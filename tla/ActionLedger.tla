------------------------------ MODULE ActionLedger ------------------------------
(***************************************************************************)
(* What the runtime promises of action attempts, without its runners,      *)
(* records and transactions: a write-ahead ledger.  An attempt is entered, *)
(* started and closed, each once and in that order, with one attempt open  *)
(* at a time; it is carried out at most once, and only if it was started.  *)
(* An attempt is closed as void only before it is started, and then never  *)
(* carried out.  One closed after it was started may still be carried out, *)
(* late, when several processes share the task.                            *)
(***************************************************************************)

VARIABLES entered, started, closed, void, carried

ledger == <<entered, started, closed, void, carried>>

LedgerInit == entered = {} /\ started = {} /\ closed = {} /\ void = {} /\ carried = {}

(* A new attempt, while none is open. *)
EnterAttempt(id) ==
    /\ id \notin entered /\ entered \subseteq closed
    /\ entered' = entered \cup {id}
    /\ UNCHANGED <<started, closed, void, carried>>

StartAttempt(id) ==
    /\ id \in entered \ (started \cup closed)
    /\ started' = started \cup {id}
    /\ UNCHANGED <<entered, closed, void, carried>>

CloseAttempt(id) ==
    /\ id \in entered \ closed
    /\ closed' = closed \cup {id}
    /\ UNCHANGED <<entered, started, void, carried>>

(* Closed as never started. *)
VoidAttempt(id) ==
    /\ id \in entered \ (started \cup closed)
    /\ closed' = closed \cup {id} /\ void' = void \cup {id}
    /\ UNCHANGED <<entered, started, carried>>

CarryOut(id) ==
    /\ id \in started \ carried
    /\ carried' = carried \cup {id}
    /\ UNCHANGED <<entered, started, closed, void>>

(* Any number may be a new attempt's. *)
LedgerNext ==
    \/ \E id \in entered' : EnterAttempt(id)
    \/ \E id \in entered :
           StartAttempt(id) \/ CloseAttempt(id) \/ VoidAttempt(id) \/ CarryOut(id)

LedgerSpec == LedgerInit /\ [][LedgerNext]_ledger

================================================================================
