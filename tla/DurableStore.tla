------------------------------ MODULE DurableStore ------------------------------
(***************************************************************************)
(* One task's durable records and the one way they change: the iteration   *)
(* commit, a transaction over four repositories (runtime/persistence.py,   *)
(* persistence/sqlite, persistence/in_memory).  A store is a record        *)
(*                                                                         *)
(*   task        the task row: status, sequence, cancellation flag, spend  *)
(*               and the safeguard state kept across restarts              *)
(*   journal     the append-only events                                    *)
(*   approvals   the approval records                                      *)
(*   checkpoint  the newest adapter snapshot and the journal sequence it   *)
(*               was written at, 0 when there is none                      *)
(*                                                                         *)
(* The operators are functions of a store, so that a process can also hold *)
(* a store it read earlier.  Timestamps, schema versions and the           *)
(* adapter's own observation counter are left out.                         *)
(***************************************************************************)
EXTENDS Lifecycle

CONSTANTS Acts,     \* the actions a decision can name, parameters included
          States,   \* the states a simulation can be observed in
          NoVal     \* None

ASSUME NoValAssumption == NoVal \notin Acts \cup States

--------------------------------------------------------------------------------
(* Records. *)

Event(type) ==
    [type |-> type, id |-> NoId, act |-> NoVal, state |-> NoVal, res |-> "none"]

ObservationEvent(s) == [Event("observation_recorded") EXCEPT !.state = s]

AttemptEvent(type, id) == [Event(type) EXCEPT !.id = id]

NewTask ==
    [ status |-> "pending", sequence |-> 1, cancelRequested |-> FALSE, spend |-> 0,
      iterations |-> 0, failures |-> 0,
      repAction |-> 0, lastAction |-> NoVal, repState |-> 0, lastState |-> NoVal,
      approvedAction |-> NoVal, approvedId |-> NoId ]

NoCheckpoint == [seq |-> 0, state |-> NoVal]

(* create_task: the pending task and its TaskCreated event, in one transaction. *)
CreatedStore ==
    [ task |-> NewTask, journal |-> <<Event("task_created")>>,
      approvals |-> {}, checkpoint |-> NoCheckpoint ]

--------------------------------------------------------------------------------
(* The commit. *)

(* commit_iteration numbers the drafts after the sequence the caller last  *)
(* read (current), and stores the task under the number of the last draft. *)
IterationCommit(current, task, drafts) ==
    [ base   |-> current.sequence,
      task   |-> [task EXCEPT !.sequence = current.sequence + Len(drafts)],
      drafts |-> drafts, create |-> {}, update |-> {}, snap |-> NoVal ]

Pending(approvals) == {a \in approvals : a.status = "pending"}

(* tasks.update refuses a row older than the stored one. *)
TaskNotStale(s, c) == c.task.sequence >= s.task.sequence

EventsContiguous_Unchecked(s, c) == TRUE

(* append_many takes only events that continue the stored journal. *)
EventsContiguous(s, c) == c.base = Len(s.journal)

(* A new approval needs an unused key and no pending one for the same action *)
(* (the unique index on pending actions).                                    *)
ApprovalInsertable(s, c) ==
    \A a \in c.create : \A b \in s.approvals :
        b.id # a.id /\ ~(b.status = "pending" /\ b.act = a.act)

(* An approval is resolved once, and its action never changes. *)
ApprovalResolvable(s, c) ==
    \A a \in c.update :
        \E b \in s.approvals : b.id = a.id /\ b.status = "pending" /\ b.act = a.act

(* simulations.save refuses a checkpoint that is not newer. *)
CheckpointNewer(s, c) == c.snap # NoVal => c.task.sequence > s.checkpoint.seq

Accepts(s, c) ==
    /\ TaskNotStale(s, c)
    /\ EventsContiguous(s, c)
    /\ ApprovalInsertable(s, c)
    /\ ApprovalResolvable(s, c)
    /\ CheckpointNewer(s, c)

Stored(s, c) ==
    [ task       |-> c.task,
      journal    |-> s.journal \o c.drafts,
      approvals  |-> {a \in s.approvals : \A u \in c.update : u.id # a.id}
                         \cup c.create \cup c.update,
      checkpoint |-> IF c.snap = NoVal THEN s.checkpoint
                     ELSE [seq |-> c.task.sequence, state |-> c.snap] ]

--------------------------------------------------------------------------------
(* Reconstruction. *)

Observed(journal) == {k \in DOMAIN journal : journal[k].type = "observation_recorded"}

LatestObservation(journal) ==
    IF Observed(journal) = {} THEN NoVal
    ELSE journal[CHOOSE k \in Observed(journal) :
                    \A l \in Observed(journal) : l <= k].state

(* The consistency checks of RuntimeReconstructor: a store that fails one of *)
(* them cannot be loaded, so no command and no run can touch it again.       *)

HistoryConsistent(s) ==
    /\ s.journal # <<>> /\ s.journal[1].type = "task_created"
    /\ s.task.sequence = Len(s.journal)
    /\ s.task.status \in Terminal =>
           s.journal[Len(s.journal)].type = TerminalEvent[s.task.status]
    /\ s.task.cancelRequested = (s.task.status = "cancelled")
    /\ AttemptsWellFormed(s.journal)

ApprovalsConsistent(s) ==
    /\ (s.task.approvedId = NoId) = (s.task.approvedAction = NoVal)
    /\ Pending(s.approvals) # {} => s.task.status = "waiting"
    /\ s.task.status = "waiting" =>
           Pending(s.approvals) # {} \/ s.task.approvedAction # NoVal
    /\ s.task.approvedAction # NoVal =>
           Cardinality({a \in s.approvals :
               /\ a.id = s.task.approvedId
               /\ a.status = "approved"
               /\ a.act = s.task.approvedAction}) = 1

CheckpointConsistent(s) ==
    LET observation == LatestObservation(s.journal)
    IN  /\ \/ s.task.status \in {"running", "waiting", "completed", "blocked"}
           \/ s.task.status = "failed" /\ observation # NoVal
           => s.checkpoint # NoCheckpoint
        /\ s.checkpoint # NoCheckpoint =>
               /\ s.checkpoint.seq <= s.task.sequence
               /\ observation # NoVal
               /\ observation = s.checkpoint.state

Reconstructs(s) ==
    HistoryConsistent(s) /\ ApprovalsConsistent(s) /\ CheckpointConsistent(s)

================================================================================
