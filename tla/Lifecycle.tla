------------------------------- MODULE Lifecycle -------------------------------
(***************************************************************************)
(* The two state machines every other module is about: the status of a     *)
(* task (runtime/lifecycle.py) and the status of one action attempt, which *)
(* the runtime never stores but derives from the append-only event journal *)
(* (runtime/action_attempts.py).                                           *)
(*                                                                         *)
(* A journal is a sequence of events; an event is a record with the event  *)
(* type, the attempt or approval it names (id), and the parts of its       *)
(* payload that later decisions read: an action, an observed state, and    *)
(* the result of an attempt.  Events no decision reads (evaluation,        *)
(* decision, policy, verification) are one "note" per commit that would    *)
(* otherwise be empty.  Identifiers are uuid5 values of a journal position *)
(* in the code and are that position here.                                 *)
(***************************************************************************)
EXTENDS Integers, Sequences, FiniteSets

(* An identifier no attempt and no approval has. *)
NoId == 0

--------------------------------------------------------------------------------
(* Task status. *)

Transitions ==
    [ pending   |-> {"running", "cancelled"},
      running   |-> {"completed", "blocked", "failed", "waiting", "cancelled"},
      waiting   |-> {"running", "blocked", "cancelled"},
      completed |-> {},
      blocked   |-> {},
      failed    |-> {},
      cancelled |-> {} ]

Statuses == DOMAIN Transitions

CanMove(current, target) == target \in Transitions[current]

TerminalEvent ==
    [ completed |-> "task_completed",
      blocked   |-> "task_blocked",
      failed    |-> "task_failed",
      cancelled |-> "task_cancelled" ]

Terminal == DOMAIN TerminalEvent

--------------------------------------------------------------------------------
(* Attempt status. *)

AttemptEventStatus ==
    [ action_prepared                |-> "prepared",
      action_execution_started       |-> "execution_started",
      action_execution_confirmed     |-> "execution_confirmed",
      action_checkpoint_committed    |-> "checkpoint_committed",
      action_reconciliation_required |-> "reconciliation_required",
      action_reconciled              |-> "reconciled",
      action_attempt_failed          |-> "failed" ]

AttemptEvents == DOMAIN AttemptEventStatus

AttemptTransitions ==
    [ none                    |-> {"prepared"},
      prepared                |-> {"execution_started", "reconciled", "failed"},
      execution_started       |-> {"execution_confirmed", "reconciliation_required",
                                   "reconciled", "failed"},
      execution_confirmed     |-> {"checkpoint_committed"},
      reconciliation_required |-> {"reconciled", "failed"},
      checkpoint_committed    |-> {},
      reconciled              |-> {},
      failed                  |-> {} ]

Resolved == {"checkpoint_committed", "reconciled", "failed"}

AttemptPositions(journal, id) ==
    {k \in DOMAIN journal : journal[k].type \in AttemptEvents /\ journal[k].id = id}

(* The status of attempt id by the events before position n. *)
StatusBefore(journal, n, id) ==
    LET K == {k \in AttemptPositions(journal, id) : k < n}
    IN  IF K = {} THEN "none"
        ELSE AttemptEventStatus[journal[CHOOSE k \in K : \A l \in K : l <= k].type]

AttemptStatus(journal, id) == StatusBefore(journal, Len(journal) + 1, id)

Prepared(journal) == {k \in DOMAIN journal : journal[k].type = "action_prepared"}

Attempts(journal) == {journal[k].id : k \in Prepared(journal)}

(* action_attempts raises on a journal in which an attempt is prepared twice, *)
(* is mentioned before it is prepared, or moves along no listed transition.   *)
AttemptsWellFormed(journal) ==
    \A k \in DOMAIN journal :
        journal[k].type \in AttemptEvents =>
            AttemptEventStatus[journal[k].type]
                \in AttemptTransitions[StatusBefore(journal, k, journal[k].id)]

(* unresolved_action_attempt looks at the attempt prepared last, and at no other. *)
LatestAttempt(journal) ==
    IF Prepared(journal) = {} THEN NoId
    ELSE journal[CHOOSE k \in Prepared(journal) :
                    \A l \in Prepared(journal) : l <= k].id

UnresolvedAttempt(journal) ==
    LET id == LatestAttempt(journal)
    IN  IF id = NoId \/ AttemptStatus(journal, id) \in Resolved THEN NoId ELSE id

AttemptAction(journal, id) ==
    journal[CHOOSE k \in Prepared(journal) : journal[k].id = id].act

================================================================================
