--------------------------- MODULE RuntimeInvariants ---------------------------
(***************************************************************************)
(* The inductive invariants behind the theorems of RuntimeProofs, in a     *)
(* module of their own so that TLC can check them too.                     *)
(***************************************************************************)
EXTENDS RuntimeProperties

(* A journalled action is one a decision can name. *)
NamesActions(journal) ==
    \A k \in DOMAIN journal : journal[k].type = "action_prepared" => journal[k].act \in Acts

StoreOK(s) == s \in StoreType /\ NamesActions(s.journal)

(* What each phase of a session needs of its locals: a simulation in memory *)
(* once the adapter is built, an observation once the loop is entered, an   *)
(* action once an attempt is prepared.                                      *)
Simulating == {"opened", "start", "loop", "prepared", "started", "executed"}
Observing  == {"loop", "prepared", "started", "executed"}
Acting     == {"prepared", "started", "executed"}

SessionOK(p) ==
    /\ p \in SessionType
    /\ ~External /\ p.pc \in Simulating => p.sim \in States
    /\ p.pc \in Observing => p.obs \in States
    /\ p.pc = "start" => \/ p.rec.status = "pending"
                         \/ p.rec.status = "waiting" /\ p.obs \in States
    /\ p.pc = "refresh" => External
    /\ p.pc \in Acting => p.act \in Acts

(* A command has found in the store it read what it is about to decide on. *)
CommandOK(q) ==
    /\ q \in CommandType /\ StoreOK(q.view)
    /\ q.name \in {"approve", "deny"} => Pending(q.view.approvals) # {}
    /\ q.name = "resolve" => UnresolvedAttempt(q.view.journal) # NoId

EffectRecord == [att : Nat, act : Acts, auth : Nat, seen : States]

(* TypeOK, strengthened until it is inductive. *)
TypeInv ==
    /\ StoreOK(store)
    /\ proc \in [Runners -> SessionType] /\ \A r \in Runners : SessionOK(proc[r])
    /\ command \in [Operators -> CommandType]
    /\ \A o \in Operators : CommandOK(command[o])
    /\ world \in States
    /\ effects \in Seq(EffectRecord)

--------------------------------------------------------------------------------

(* Runner r holds an attempt it has not carried out yet. *)
Holding(r) == proc[r].pc \in {"prepared", "started"}

(* An attempt is numbered by the journal position of its write-ahead record, *)
(* so a number is never given twice; and an attempt a runner still holds is  *)
(* held by that runner alone and not among the effects.                      *)
AttemptsHeldOnce ==
    /\ \A i \in DOMAIN effects : effects[i].att <= Len(store.journal)
    /\ \A r \in Runners : Holding(r) =>
           /\ proc[r].att <= Len(store.journal)
           /\ \A i \in DOMAIN effects : effects[i].att # proc[r].att
           /\ \A q \in Runners : Holding(q) /\ proc[q].att = proc[r].att => q = r

--------------------------------------------------------------------------------
(* The journal as a ledger of attempts.                                    *)

AttemptEventsOf(journal) == {k \in DOMAIN journal : journal[k].type \in AttemptEvents}

ClosedIn(journal) == AttemptsAt(journal, Closings(journal))
StartedIn(journal) == AttemptsAt(journal, Starts(journal))

AllClosed(journal) == Attempts(journal) \subseteq ClosedIn(journal)

(* An attempt has the number of its write-ahead record's position; whatever *)
(* else is recorded of it comes after that and before its resolution; and   *)
(* the next attempt is entered after it is resolved.                        *)
AttemptsInOrder(journal) ==
    /\ journal # <<>> /\ journal[1].type = "task_created"
    /\ \A k \in AttemptEventsOf(journal) :
           /\ journal[k].id \in Prepared(journal) /\ journal[k].id <= k
           /\ k \in Prepared(journal) => journal[k].id = k
           /\ \A l \in Closings(journal) : journal[l].id = journal[k].id => k <= l
    /\ \A k, l \in Prepared(journal) : k < l => k \in ClosedIn(journal)

(* Task record t is the one stored last. *)
Newest(s, t) == t.sequence = Len(s.journal)

(* Where the attempt of a session stands in the journal, as long as nobody *)
(* else has written to it; and what is true of it even then.               *)
SessionInLedger(s, p) ==
    /\ p.rec.sequence <= Len(s.journal) /\ p.outer.sequence <= Len(s.journal)
    /\ p.pc \in {"opened", "start", "refresh", "loop"} => p.att = NoId
    /\ p.pc \in Acting => p.att \in Prepared(s.journal) /\ s.journal[p.att].act = p.act
    /\ p.pc = "started" => p.att \in StartedIn(s.journal)
    /\ Newest(s, p.outer) => AllClosed(s.journal)
    /\ Newest(s, p.rec) =>
           /\ p.pc \in {"start", "refresh", "loop", "error"} /\ p.att = NoId =>
                  AllClosed(s.journal)
           /\ p.pc = "prepared" => p.att \notin StartedIn(s.journal) \cup ClosedIn(s.journal)
           /\ p.pc \in {"started", "executed"} \/ (p.pc = "error" /\ p.att # NoId) =>
                  p.att \in StartedIn(s.journal) \ ClosedIn(s.journal)
           /\ p.pc = "started" =>
                  s.journal[Len(s.journal)] = AttemptEvent("action_execution_started", p.att)
           /\ p.pc = "gate" => p.att # NoId /\ p.att = UnresolvedAttempt(s.journal)

(* A command's view is the store, unless somebody wrote since. *)
CommandInLedger(s, q) ==
    q.name # "none" =>
        /\ q.view.task.sequence <= Len(s.journal)
        /\ Newest(s, q.view.task) => q.view = s

(* What was carried out was journalled as started, with its action. *)
EffectsStarted ==
    \A i \in DOMAIN effects :
        /\ effects[i].att \in StartedIn(store.journal)
        /\ store.journal[effects[i].att].act = effects[i].act

CarriedOut(att) == \E i \in DOMAIN effects : effects[i].att = att

(* What an adapter answered success for, and what the journal confirms, was *)
(* carried out.                                                             *)
SuccessesCarriedOut ==
    \A r \in Runners : proc[r].pc = "executed" /\ proc[r].success => CarriedOut(proc[r].att)

Backed(journal) ==
    \A k \in DOMAIN journal :
        journal[k].type = "action_execution_confirmed" /\ journal[k].res = "success" =>
            CarriedOut(journal[k].id)

LedgerInv ==
    /\ TypeInv /\ AttemptsHeldOnce /\ ExecutedAtMostOnce
    /\ Newest(store, store.task)
    /\ AttemptsInOrder(store.journal)
    /\ \A r \in Runners : SessionInLedger(store, proc[r])
    /\ \A o \in Operators : CommandInLedger(store, command[o])
    /\ EffectsStarted /\ SuccessesCarriedOut /\ Backed(store.journal)

--------------------------------------------------------------------------------
(* Statuses and observations.                                              *)

InFlight == {"refresh", "loop", "prepared", "started", "executed", "error"}

(* A session whose observation is the journal's last. *)
Watching(p) == p.pc = "loop" \/ (p.pc = "start" /\ p.rec.status = "waiting")

SessionInStatus(s, p) ==
    /\ p.pc \in InFlight => p.rec.status = "running"
    /\ Newest(s, p.rec) => p.rec.status = s.task.status
    /\ Newest(s, p.outer) => p.outer.status = s.task.status
    /\ Watching(p) => External \/ p.sim = p.obs
    /\ Watching(p) /\ Newest(s, p.rec) => p.obs = LatestObservation(s.journal)

CommandInStatus(q) ==
    /\ q.name \in {"approve", "deny"} => q.view.task.status = "waiting"
    /\ q.name = "cancel" => q.view.task.status \notin Terminal

StatusInv ==
    /\ Len(store.journal) = 1 => store.task.status = "pending"
    /\ AllClosed(store.journal) \/ store.task.status \in {"running", "cancelled"}
    /\ \A r \in Runners : SessionInStatus(store, proc[r])
    /\ \A o \in Operators : CommandInStatus(command[o])
    /\ CompletionConfirmed

--------------------------------------------------------------------------------
(* Approvals.                                                              *)

Grant(id, a) == [id |-> id, act |-> a, status |-> "approved"]

(* What two records of the task let it use: its authority and its budget. *)
SameMeans(t, u) ==
    /\ t.approvedId = u.approvedId /\ t.approvedAction = u.approvedAction
    /\ t.spend = u.spend

(* The one-shot authority of a task record was granted. *)
Granted(s, t) ==
    /\ (t.approvedId = NoId) = (t.approvedAction = NoVal)
    /\ t.approvedId # NoId => Grant(t.approvedId, t.approvedAction) \in s.approvals

SessionGranted(s, p) ==
    /\ Granted(s, p.rec) /\ Granted(s, p.outer)
    /\ p.pc \in {"prepared", "started"} =>
           /\ <<p.act, p.obs>> \in Permitted
           /\ p.act \in ApprovalActs => p.auth # NoId
           /\ p.auth # NoId => Grant(p.auth, p.act) \in s.approvals

AuthorityInv ==
    /\ \A a, b \in store.approvals : a.id = b.id => a = b
    /\ \A a \in store.approvals : a.id # NoId
    /\ Granted(store, store.task)
    /\ \A r \in Runners : SessionGranted(store, proc[r])
    /\ \A o \in Operators : Granted(store, command[o].view.task)
    /\ AuthorizedExecution

(* While the task can still go on, the attempt that uses its authority is  *)
(* open: the commit that closes it takes the authority away.               *)
InUse(s, auth, att) ==
    auth # NoId /\ s.task.status \notin Terminal /\ s.task.approvedId = auth =>
        att \notin ClosedIn(s.journal)

(* The authority of a session is the one stored, if nobody else has written *)
(* since, and the one its attempt uses.                                    *)
HoldsAuthority(s, p) ==
    /\ Newest(s, p.rec) => SameMeans(p.rec, s.task)
    /\ Newest(s, p.outer) => SameMeans(p.outer, s.task)
    /\ p.pc = "prepared" => p.auth = p.rec.approvedId
    /\ p.pc = "started" => InUse(s, p.auth, p.att)

(* Attempts with one authority are one attempt. *)
OneUse(e, f) == e.auth # NoId /\ e.auth = f.auth => e.att = f.att

AuthorityOnceInv ==
    /\ Newest(store, NewTask) => SameMeans(NewTask, store.task)
    /\ \A r \in Runners : HoldsAuthority(store, proc[r])
    /\ \A r \in Runners : proc[r].pc = "started" =>
           /\ \A i \in DOMAIN effects : OneUse(effects[i], proc[r])
           /\ \A q \in Runners : proc[q].pc = "started" => OneUse(proc[q], proc[r])
    /\ \A i \in DOMAIN effects : InUse(store, effects[i].auth, effects[i].att)
    /\ ApprovalUsedOnce

--------------------------------------------------------------------------------
(* The budget.                                                             *)

(* The balance of a journal is that of the events before, and the charge   *)
(* of the last.                                                            *)
Accounted(journal) ==
    Balances(journal) = [k \in 0 .. Len(journal) |->
        IF k = 0 THEN 0 ELSE Balances(journal)[k - 1] + Charge(journal, k)]

(* What is charged is closed, so that it is not charged again; and what an *)
(* open attempt would cost is still in the budget, whoever settles it.     *)
SpendingInv ==
    LET journal == store.journal
    IN  /\ Accounted(journal) /\ SpendMatchesJournal
        /\ \A k \in Charged(journal) : journal[k].id \in ClosedIn(journal)
        /\ \A id \in Prepared(journal) \ ClosedIn(journal) :
               store.task.spend + Cost[journal[id].act] <= MaxSpend

--------------------------------------------------------------------------------
(* Records that can be loaded again.  The invariant holds where a refused  *)
(* refresh of a moving game cannot meet a failing shutdown.                *)

ShutdownIsSafe == ~(External /\ "shutdown" \in Environment)

(* A task record that asks for cancellation is that of a cancelled task. *)
Cancellation(t) == t.cancelRequested => t.status = "cancelled"

EndingLoads(s) ==
    /\ Cancellation(s.task)
    /\ s.task.status \in Terminal \ {"cancelled"} =>
           s.journal[Len(s.journal)].type = TerminalEvent[s.task.status]

(* The statuses an attempt that is not resolved can have. *)
OpenStatuses(journal, id) ==
    IF id \in StartedIn(journal) THEN {"execution_started", "reconciliation_required"}
    ELSE {"prepared"}

AttemptsLoad(journal) ==
    /\ AttemptsWellFormed(journal)
    /\ \A id \in Prepared(journal) \ ClosedIn(journal) :
           AttemptStatus(journal, id) \in OpenStatuses(journal, id)

(* One request is pending at a time, while the task waits for the answer. *)
ApprovalsLoad(s) ==
    /\ \A a, b \in Pending(s.approvals) : a = b
    /\ Pending(s.approvals) # {} => s.task.status \in {"waiting", "cancelled"}
    /\ s.task.status = "waiting" =>
           Pending(s.approvals) # {} \/ s.task.approvedAction # NoVal

(* Statuses that only a task which was observed can have. *)
ObservedStatuses == {"running", "waiting", "completed", "blocked"}

(* The checkpoint is the observation recorded last. *)
CheckpointLoads(s) ==
    LET observation == LatestObservation(s.journal)
    IN  /\ s.task.status \in ObservedStatuses => observation # NoVal
        /\ observation = s.checkpoint.state
        /\ s.checkpoint.state = NoVal => s.checkpoint = NoCheckpoint
        /\ s.checkpoint.seq <= Len(s.journal)

SessionInRecords(s, p) ==
    LET observation == LatestObservation(s.journal)
    IN  /\ Cancellation(p.rec) /\ Cancellation(p.outer)
        /\ p.pc = "error" => External
        /\ p.pc = "start" /\ Newest(s, p.rec) => Pending(s.approvals) = {}
        /\ p.pc \in Acting \cup {"error"} /\ Newest(s, p.rec) => p.obs = observation
        /\ p.pc = "executed" \/ (p.pc = "error" /\ p.att # NoId) =>
               (Newest(s, p.rec) => AttemptStatus(s.journal, p.att) = "execution_started")
        /\ p.pc \in Acting => ~Newest(s, p.outer)
        /\ Newest(s, p.outer) /\ p.outer.status = "running" => External \/ p.sim = observation

RecordsInv ==
    /\ EndingLoads(store) /\ AttemptsLoad(store.journal)
    /\ ApprovalsLoad(store) /\ CheckpointLoads(store)
    /\ \A r \in Runners : SessionInRecords(store, proc[r])
    /\ \A o \in Operators : Cancellation(command[o].view.task)

--------------------------------------------------------------------------------
(* One process at a time.                                                  *)

(* While a session is open nobody else can write, so that what it started  *)
(* is still the journal's last event when it is carried out.               *)
AloneInv ==
    SingleActive =>
        /\ \A r, q \in Runners : Active(r) /\ Active(q) => r = q
        /\ \A r \in Runners, o \in Operators : Active(r) => command[o] = NoCommand
        /\ \A r \in Runners : proc[r].pc = "started" => Newest(store, proc[r].rec)

================================================================================
