--------------------------- MODULE RuntimeProperties ---------------------------
(***************************************************************************)
(* What the task runtime promises, over the behaviours of RuntimeEngine.   *)
(***************************************************************************)
EXTENDS RuntimeEngine

--------------------------------------------------------------------------------
(* Types. *)

EventType ==
    AttemptEvents \cup {TerminalEvent[t] : t \in Terminal} \cup
    {"task_created", "task_started", "observation_recorded", "note",
     "approval_requested", "approval_granted", "approval_denied"}

EventRecord ==
    [ type : EventType, id : Nat, act : Acts \cup {NoVal}, state : States \cup {NoVal},
      res : {"none", "success", "failure", "never_started", "not_executed", "abandoned"} ]

TaskRecord ==
    [ status : Statuses, sequence : Nat, cancelRequested : BOOLEAN, spend : Nat,
      iterations : Nat, failures : Nat,
      repAction : Nat, lastAction : (Acts \X States) \cup {NoVal},
      repState : Nat, lastState : States \cup {NoVal},
      approvedAction : Acts \cup {NoVal}, approvedId : Nat ]

ApprovalRecord == [id : Nat, act : Acts, status : {"pending", "approved", "denied"}]

StoreType ==
    [ task : TaskRecord, journal : Seq(EventRecord), approvals : SUBSET ApprovalRecord,
      checkpoint : [seq : Nat, state : States \cup {NoVal}] ]

SessionType ==
    [ pc : {"idle", "gate", "gated", "opened", "start", "refresh", "loop", "prepared", "started",
            "executed", "error", "closing"},
      rec : TaskRecord, obs : States \cup {NoVal},
      outer : TaskRecord, outerObs : States \cup {NoVal}, sim : States \cup {NoVal},
      act : Acts \cup {NoVal}, att : Nat, auth : Nat,
      success : BOOLEAN, worked : BOOLEAN ]

CommandType == [name : Commands \cup {"none"}, view : StoreType, asked : Nat]

(* The records, the sessions' locals and the history have their types. *)
TypeOK ==
    /\ store \in StoreType
    /\ proc \in [Runners -> SessionType]
    /\ command \in [Operators -> CommandType]
    /\ world \in States
    /\ effects \in Seq([att : Nat, act : Acts, auth : Nat, seen : States])

--------------------------------------------------------------------------------
(* Effects: what reaches the simulation. *)

(* No attempt is carried out twice, whatever crashes, restarts, second     *)
(* runners and recoveries happen: resume never re-executes an interrupted  *)
(* attempt (gate_recovery), and of two processes that read the same store  *)
(* only one gets past the write-ahead commits.                             *)
ExecutedAtMostOnce ==
    \A i, j \in DOMAIN effects : effects[i].att = effects[j].att => i = j

(* One approval authorizes one execution: it is spent by the commit that   *)
(* follows the execution, or by the recovery of a crash before that commit *)
(* (action_execution.py:109, engine.py:173).                               *)
ApprovalUsedOnce ==
    \A i, j \in DOMAIN effects :
        effects[i].auth # NoId /\ effects[i].auth = effects[j].auth => i = j

(* What is executed was admitted by the constraints in the state last      *)
(* observed, and if it needs approval, an operator granted that very       *)
(* action; a denied or a still pending request never executes.             *)
AuthorizedExecution ==
    \A i \in DOMAIN effects :
        /\ <<effects[i].act, effects[i].seen>> \in Permitted
        /\ effects[i].act \in ApprovalActs => effects[i].auth # NoId
        /\ effects[i].auth # NoId =>
               [id |-> effects[i].auth, act |-> effects[i].act, status |-> "approved"]
                   \in store.approvals

(* What a journal records of its attempts. *)
Starts(journal) == {k \in DOMAIN journal : journal[k].type = "action_execution_started"}

Closings(journal) ==
    {k \in DOMAIN journal : /\ journal[k].type \in AttemptEvents
                            /\ AttemptEventStatus[journal[k].type] \in Resolved}

Voidings(journal) == {k \in Closings(journal) : journal[k].res = "never_started"}

AttemptsAt(journal, positions) == {journal[k].id : k \in positions}

(* The journal is a write-ahead log of effects: everything executed was    *)
(* journalled as started with its action before, and everything journalled *)
(* as confirmed successful was executed.  And to look at the attempt       *)
(* prepared last is enough to find the one in doubt: every earlier one is  *)
(* resolved (action_attempts.py:191).                                      *)
JournalCoversEffects ==
    /\ \A i \in DOMAIN effects :
           /\ effects[i].att \in AttemptsAt(store.journal, Starts(store.journal))
           /\ AttemptAction(store.journal, effects[i].att) = effects[i].act
    /\ \A k \in DOMAIN store.journal :
           (/\ store.journal[k].type = "action_execution_confirmed"
            /\ store.journal[k].res = "success")
           => \E i \in DOMAIN effects : effects[i].att = store.journal[k].id
    /\ \A id \in Attempts(store.journal) :
           AttemptStatus(store.journal, id) \in Resolved \/ id = LatestAttempt(store.journal)

Ledger == INSTANCE ActionLedger WITH
    entered <- Attempts(store.journal),
    started <- AttemptsAt(store.journal, Starts(store.journal)),
    closed  <- AttemptsAt(store.journal, Closings(store.journal)),
    void    <- AttemptsAt(store.journal, Voidings(store.journal)),
    carried <- {effects[i].att : i \in DOMAIN effects}

(* The journal and the effects together are a write-ahead ledger, whatever *)
(* crashes, restarts, second runners and recoveries happen: an attempt is  *)
(* prepared, started and resolved once, in that order and one at a time,   *)
(* and carried out at most once, after it was journalled as started        *)
(* (action_execution.py:52 and :77).  What gate_recovery closes as never   *)
(* started, without asking anybody (engine.py:375), never takes effect,    *)
(* even when the process that prepared it is alive.                        *)
LedgerKept == Ledger!LedgerSpec

(* With one process at a time, an effect takes place only while its attempt *)
(* is journalled as started and unresolved: after a resolution, by the gate *)
(* or by the operator, the attempt has no further effect.                   *)
NoEffectAfterResolution ==
    [][effects' # effects =>
          AttemptStatus(store.journal, effects'[Len(effects')].att) = "execution_started"]_vars

--------------------------------------------------------------------------------
(* Records: what a restart finds. *)

(* Every store a crash can leave behind can be loaded again.  A cancelled  *)
(* task is left out: see CancelledReconstructs.  It does not hold where a   *)
(* refused refresh of a moving game can meet a failing shutdown, which     *)
(* checkpoints an observation the journal does not have                    *)
(* (execution.py:195): no run that checks it has both.                     *)
Reconstructable == store.task.status # "cancelled" => Reconstructs(store)

(* The attempts a journal shows as successful, and what they cost. *)
Charged(journal) ==
    {k \in DOMAIN journal :
        /\ journal[k].type \in {"action_execution_confirmed", "action_reconciled"}
        /\ journal[k].res = "success"}

Charge(journal, k) ==
    IF k \in Charged(journal) THEN Cost[AttemptAction(journal, journal[k].id)] ELSE 0

Balances(journal) ==
    LET upTo[k \in 0 .. Len(journal)] ==
            IF k = 0 THEN 0 ELSE upTo[k - 1] + Charge(journal, k)
    IN  upTo

(* Double entry: the spend in the task row is the cost of the attempts the *)
(* journal shows as successful, each counted once, whichever of the commit *)
(* and the recovery recorded it; and it never exceeds the task's budget,   *)
(* although a recovery adds to it without asking the policy.               *)
SpendMatchesJournal ==
    LET journal == store.journal
    IN  /\ store.task.spend = Balances(journal)[Len(journal)]
        /\ \A k, l \in Charged(journal) : journal[k].id = journal[l].id => k = l
        /\ store.task.spend <= MaxSpend

(* A task is completed only on an observation that meets its objective,    *)
(* and that observation is both the journal's last and the checkpoint.     *)
CompletionConfirmed ==
    store.task.status = "completed" =>
        /\ LatestObservation(store.journal) \in Goal
        /\ store.checkpoint.state \in Goal

(* A terminal status is final, and nothing is written to a task that is    *)
(* completed, blocked or failed, however stale the writer's view is.       *)
TerminalIsFinal ==
    [][/\ store.task.status \in Terminal => store'.task.status = store.task.status
       /\ store.task.status \in Terminal \ {"cancelled"} => store' = store]_vars

--------------------------------------------------------------------------------
(* Progress. *)

(* A session ends: the iteration limit and the other safeguards stop every *)
(* loop, and every failure path leads out.                                 *)
SessionEnds == \A r \in Runners : Active(r) ~> ~Active(r)

Settled ==
    \/ store.task.status \in Terminal
    \/ Pending(store.approvals) # {}
    \/ UnresolvedAttempt(store.journal) # NoId

(* A user who keeps resuming brings the task to an end, or to a question    *)
(* only the operator can answer, however short the execution slices are.   *)
TaskSettles == []<>Settled

(* The user's part of it: a task that can be resumed is resumed, and a      *)
(* command that was started finishes.                                       *)
ResumedSpec ==
    /\ FairSpec
    /\ \A r \in Runners : WF_vars(Resume(r))
    /\ \A o \in Operators : WF_vars(Approve(o) \/ Deny(o) \/ Cancel(o) \/ Resolve(o))

--------------------------------------------------------------------------------
(* What the repository's documents say and the code does not do. *)

(* docs/001-month-1-design.md:747-748: resuming a cancelled task returns   *)
(* its persisted outcome, so its records can be loaded.                    *)
CancelledReconstructs == store.task.status = "cancelled" => Reconstructs(store)

================================================================================
