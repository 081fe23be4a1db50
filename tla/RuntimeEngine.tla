----------------------------- MODULE RuntimeEngine -----------------------------
(***************************************************************************)
(* The task runtime: runner processes that execute one task through an     *)
(* adapter, and operator commands that approve, deny, cancel or resolve    *)
(* it, all over one durable store (runtime/engine.py, execution.py,        *)
(* iteration.py, action_execution.py).                                     *)
(*                                                                         *)
(* A runner session goes                                                   *)
(*                                                                         *)
(*   idle -> opened -> start | refresh | loop -> ... -> closing -> idle    *)
(*             loop -> loop              one committed iteration           *)
(*             loop -> prepared -> started -> executed -> loop             *)
(*             idle | opened -> gate -> gated -> opened                    *)
(*                              gate -> idle     an unresolved attempt     *)
(*                                                                         *)
(* and every arrow is one action.  An action holds at most one transaction *)
(* and at most one effect outside the process, and a crash may fall        *)
(* between any two: these are the code's CrashPoints.                      *)
(***************************************************************************)
EXTENDS DurableStore

CONSTANTS
    Runners,                \* runner processes
    Operators,              \* operator processes (CLI commands)
    MaxIterations, MaxConsecutiveFailures,
    RepeatedActionLimit, RepeatedStateLimit, BlockOnFalseCompletion,
    Permitted,              \* <<act, observed state>> the task's constraints admit
    ApprovalActs,           \* actions that need the operator's approval
    Cost, MaxSpend,         \* cost of each action; the task's total budget
    Effect,                 \* what each action does to each state
    Aspect,                 \* the part of a state each action is judged by
    FirstState,             \* the simulation's first state
    Goal, Stop, Dead,       \* states: objective met, stop condition met, simulation lost
    External,               \* TRUE: a game outside the process (OpenTTD adapter);
                            \* FALSE: a simulation in its memory (reference adapter)
    Environment,            \* the failures and interruptions that may happen
    SingleActive,           \* TRUE: one process at a time, as the documentation assumes
    MaxJournal              \* bound: no session starts on a longer journal

ASSUME ConfigurationAssumption ==
    /\ MaxIterations \in Nat \ {0} /\ MaxConsecutiveFailures \in Nat \ {0}
    /\ RepeatedActionLimit \in Nat \ {0, 1} /\ RepeatedStateLimit \in Nat \ {0, 1}
    /\ BlockOnFalseCompletion \in BOOLEAN /\ External \in BOOLEAN
    /\ SingleActive \in BOOLEAN /\ MaxJournal \in Nat

ASSUME TaskAssumption ==
    /\ Permitted \subseteq Acts \X States /\ ApprovalActs \subseteq Acts
    /\ Cost \in [Acts -> Nat] /\ MaxSpend \in Nat
    /\ Effect \in [Acts -> [States -> States]] /\ FirstState \in States
    /\ \A a \in Acts : DOMAIN Aspect[a] = States
    /\ Goal \subseteq States /\ Stop \subseteq States /\ Dead \subseteq States

ASSUME EnvironmentAssumption ==
    Environment \subseteq {"crash", "transaction", "adapter", "shutdown", "drift",
                      "cancel_check", "slice"}

VARIABLES
    store,      \* the durable records
    proc,       \* per runner: its session
    command,    \* per operator: the command, the store it read, the approval it names
    world,      \* the external game's state
    effects     \* history: every action an adapter carried out, in order

vars == <<store, proc, command, world, effects>>

--------------------------------------------------------------------------------
(* A runner's locals.                                                      *)
(*   rec, obs          current and observation in run_iterations           *)
(*   outer, outerObs   the same names in run_runtime, stale while the loop *)
(*                     runs: the shutdown path reads these                 *)
(*   sim               the in-process simulation                           *)
(*   act, att, auth    the action in flight, its attempt, its approval     *)
(*   success           the adapter's answer                                *)
(*   worked            an iteration was committed in this session          *)

Idle ==
    [ pc |-> "idle", rec |-> NewTask, obs |-> NoVal, outer |-> NewTask,
      outerObs |-> NoVal, sim |-> NoVal, act |-> NoVal, att |-> NoId,
      auth |-> NoId, success |-> FALSE, worked |-> FALSE ]

NoCommand == [name |-> "none", view |-> CreatedStore, asked |-> NoId]

Init ==
    /\ store = CreatedStore
    /\ proc = [r \in Runners |-> Idle]
    /\ command = [o \in Operators |-> NoCommand]
    /\ world = FirstState
    /\ effects = <<>>

Active(r) == proc[r].pc # "idle"
Quiet == (\A r \in Runners : ~Active(r)) /\ (\A o \in Operators : command[o] = NoCommand)
MayEnter == SingleActive => Quiet

(* The state the adapter would observe now. *)
Current(r) == IF External THEN world ELSE proc[r].sim

(* adapter_snapshot: the adapter's own state, or the given observation. *)
Snapshot(r, observation) == IF External THEN observation ELSE proc[r].sim

--------------------------------------------------------------------------------
(* Commits.  A refused or failed transaction is a DurablePersistenceError,  *)
(* and so is one whose connection cannot be closed after it took effect.   *)

Submit(r, c, done, failed) ==
    LET breaks == "transaction" \in Environment
    IN  \/ /\ Accepts(store, c)
           /\ store' = Stored(store, c)
           /\ \/ proc' = [proc EXCEPT ![r] = done]
              \/ breaks /\ proc' = [proc EXCEPT ![r] = failed]
        \/ /\ ~Accepts(store, c) \/ breaks
           /\ proc' = [proc EXCEPT ![r] = failed]
           /\ UNCHANGED store

(* Leaving run_iterations normally hands its results to run_runtime ...    *)
Closing(r, task, observation) ==
    [Idle EXCEPT !.pc = "closing", !.outer = task, !.outerObs = observation,
                 !.sim = proc[r].sim]

(* ... leaving it by an exception does not. *)
Abandoned(r) == Closing(r, proc[r].outer, proc[r].outerObs)

Looping(r, task, observation) ==
    [proc[r] EXCEPT !.pc = "loop", !.rec = task, !.obs = observation,
                    !.act = NoVal, !.att = NoId, !.auth = NoId, !.success = FALSE]

(* run_iterations goes on after a commit exactly while the task is running. *)
AfterIteration(r, task, observation) ==
    IF task.status = "running"
    THEN [Looping(r, task, observation) EXCEPT !.worked = TRUE]
    ELSE Closing(r, task, observation)

SubmitIteration(r, c, observation) ==
    /\ Submit(r, c, AfterIteration(r, c.task, observation), Abandoned(r))
    /\ UNCHANGED <<command, world, effects>>

WithSnapshot(c, s) == [c EXCEPT !.snap = s]

(* A commit that also ends the task, with its terminal event and a checkpoint. *)
TerminalCommit(current, task, status, drafts, snapshot) ==
    WithSnapshot(IterationCommit(current, [task EXCEPT !.status = status],
                                 Append(drafts, Event(TerminalEvent[status]))), snapshot)

Note == <<Event("note")>>

--------------------------------------------------------------------------------
(* Opening a session. *)

Runnable(s) ==
    s.task.status \notin Terminal /\ Pending(s.approvals) = {}

(* A session that finds an unresolved attempt goes through the gate. *)
AtGate(r) == [Idle EXCEPT !.pc = "gate", !.rec = store.task, !.sim = proc[r].sim,
                          !.att = UnresolvedAttempt(store.journal)]

(* The adapter factory: a simulation in memory is restored from the checkpoint. *)
WithAdapter(r) ==
    [Idle EXCEPT !.pc = "opened",
                 !.sim = IF External THEN NoVal
                         ELSE IF proc[r].sim # NoVal THEN proc[r].sim
                         ELSE IF store.task.status = "pending" THEN FirstState
                         ELSE store.checkpoint.state]

(* resume: reconstruct, gate, and build the adapter. *)
Resume(r) ==
    /\ proc[r].pc = "idle" /\ MayEnter /\ Len(store.journal) < MaxJournal
    /\ Reconstructs(store)
    /\ \/ /\ UnresolvedAttempt(store.journal) # NoId
          /\ proc' = [proc EXCEPT ![r] = AtGate(r)]
       \/ /\ UnresolvedAttempt(store.journal) = NoId
          /\ Runnable(store)
          /\ proc' = [proc EXCEPT ![r] = WithAdapter(r)]
    /\ UNCHANGED <<store, command, world, effects>>

NeverStarted_OrStarted(status) == status \in {"prepared", "execution_started"}

(* The execution boundary was never entered. *)
NeverStarted(status) == status = "prepared"

(* The attempt in doubt is carried out again. *)
Gate_Retried(r) ==
    /\ proc[r].pc = "gate"
    /\ proc' = [proc EXCEPT ![r] =
           [@ EXCEPT !.pc = "started", !.act = AttemptAction(store.journal, proc[r].att),
                     !.obs = store.checkpoint.state, !.sim = store.checkpoint.state]]
    /\ UNCHANGED <<store, command, world, effects>>

(* gate_recovery: an attempt that never started is closed and the session  *)
(* goes on; one that started waits for the operator, and it ends.          *)
Gate(r) ==
    LET rec    == proc[r].rec
        id     == proc[r].att
        status == StatusBefore(store.journal, rec.sequence + 1, id)
        event  == IF NeverStarted(status)
                  THEN [AttemptEvent("action_reconciled", id) EXCEPT !.res = "never_started"]
                  ELSE AttemptEvent("action_reconciliation_required", id)
        passed == [Idle EXCEPT !.pc = "gated", !.sim = proc[r].sim]
    IN  /\ proc[r].pc = "gate"
        /\ IF status = "reconciliation_required"
           THEN proc' = [proc EXCEPT ![r] = Idle] /\ UNCHANGED store
           ELSE Submit(r, IterationCommit(rec, rec, <<event>>),
                       IF NeverStarted(status) THEN passed ELSE Idle, Idle)
        /\ UNCHANGED <<command, world, effects>>

(* Past the gate the store is loaded again, and may have changed. *)
Reopen(r) ==
    /\ proc[r].pc = "gated"
    /\ proc' = [proc EXCEPT ![r] =
           IF Reconstructs(store) /\ UnresolvedAttempt(store.journal) = NoId /\ Runnable(store)
           THEN WithAdapter(r) ELSE Idle]
    /\ UNCHANGED <<store, command, world, effects>>

(* run: the store is loaded again, and an adapter with a memory of its own *)
(* must still match the checkpoint.                                        *)
Enter(r) ==
    LET task     == store.task
        observed == LatestObservation(store.journal)
        restored == External \/ task.status = "pending" \/ proc[r].sim = store.checkpoint.state
        pc       == IF task.status # "running" THEN "start"
                    ELSE IF External THEN "refresh" ELSE "loop"
    IN  /\ proc[r].pc = "opened"
        /\ proc' = [proc EXCEPT ![r] =
               IF ~Reconstructs(store) THEN Idle
               ELSE IF UnresolvedAttempt(store.journal) # NoId
                    THEN AtGate(r)
               ELSE IF ~Runnable(store) \/ ~restored THEN Idle
               ELSE [@ EXCEPT !.pc = pc, !.rec = task, !.obs = observed,
                              !.outer = task, !.outerObs = observed]]
        /\ UNCHANGED <<store, command, world, effects>>

(* A session phase that replaces run_runtime's own current and observation. *)
Opened(r, pc, task, observation) ==
    [proc[r] EXCEPT !.pc = pc, !.rec = task, !.obs = observation,
                    !.outer = task, !.outerObs = observation]

(* The first run: initialize, observe, and commit task_started with them. *)
StartPending(r) ==
    LET observed == Current(r)
        rec      == proc[r].rec
        c        == WithSnapshot(
                        IterationCommit(rec, [rec EXCEPT !.status = "running"],
                            <<Event("task_started"), ObservationEvent(observed)>>),
                        Snapshot(r, observed))
    IN  /\ proc[r].pc = "start" /\ rec.status = "pending"
        /\ Submit(r, c, Opened(r, "loop", c.task, observed), Closing(r, rec, observed))
        /\ UNCHANGED <<command, world, effects>>

(* Resuming a task whose approval was granted. *)
StartWaiting(r) ==
    LET rec == proc[r].rec
        c   == IterationCommit(rec, [rec EXCEPT !.status = "running"], <<Event("task_started")>>)
    IN  /\ proc[r].pc = "start" /\ rec.status = "waiting"
        /\ Submit(r, c, Opened(r, IF External THEN "refresh" ELSE "loop", c.task, proc[r].obs),
                  Abandoned(r))
        /\ UNCHANGED <<command, world, effects>>

Refresh_NoCheckpoint(r) ==
    LET rec == proc[r].rec
        c   == IterationCommit(rec, rec, <<ObservationEvent(world)>>)
    IN  /\ proc[r].pc = "refresh"
        /\ Submit(r, c, Opened(r, "loop", c.task, world), Closing(r, rec, world))
        /\ UNCHANGED <<command, world, effects>>

(* requires_fresh_observation_on_resume.  observation is assigned before   *)
(* the commit, so a failed commit leaves it in run_runtime.                *)
Refresh(r) ==
    LET observed == world
        rec      == proc[r].rec
        c        == WithSnapshot(IterationCommit(rec, rec, <<ObservationEvent(observed)>>),
                                 Snapshot(r, observed))
    IN  /\ proc[r].pc = "refresh"
        /\ Submit(r, c, Opened(r, "loop", c.task, observed), Closing(r, rec, observed))
        /\ UNCHANGED <<command, world, effects>>

InitializationFailure_Retried(r) ==
    /\ proc[r].pc \in {"start", "refresh"} /\ "adapter" \in Environment
    /\ proc' = [proc EXCEPT ![r] = [Idle EXCEPT !.pc = "opened", !.sim = proc[r].sim]]
    /\ UNCHANGED <<store, command, world, effects>>

(* initialize or observe raised: the task is forced to failed, from whatever *)
(* status it has, without a snapshot.                                        *)
InitializationFailure(r) ==
    LET rec    == proc[r].rec
        prefix == IF rec.status = "pending" THEN <<Event("task_started")>> ELSE <<>>
        c      == TerminalCommit(rec, rec, "failed", prefix, NoVal)
    IN  /\ proc[r].pc \in {"start", "refresh"} /\ "adapter" \in Environment
        /\ Submit(r, c, Closing(r, c.task, proc[r].outerObs), Abandoned(r))
        /\ UNCHANGED <<command, world, effects>>

--------------------------------------------------------------------------------
(* One iteration up to its decision.  The order of the guards is the order *)
(* of run_iterations: slice, cancellation, iteration limit, evaluation,    *)
(* granted approval, decision.                                             *)

InLoop(r) == proc[r].pc = "loop"

Yield_BeforeWork(r) ==
    /\ InLoop(r) /\ "slice" \in Environment
    /\ proc' = [proc EXCEPT ![r] = Closing(r, proc[r].rec, proc[r].obs)]
    /\ UNCHANGED <<store, command, world, effects>>

(* The execution slice (iteration_budget) is used up: the session yields.  *)
Yield(r) ==
    /\ InLoop(r) /\ "slice" \in Environment /\ proc[r].worked
    /\ proc' = [proc EXCEPT ![r] = Closing(r, proc[r].rec, proc[r].obs)]
    /\ UNCHANGED <<store, command, world, effects>>

CancelSeen(r) ==
    LET rec == proc[r].rec
    IN  /\ InLoop(r)
        /\ rec.cancelRequested \/ "cancel_check" \in Environment
        /\ SubmitIteration(r,
               TerminalCommit(rec, [rec EXCEPT !.cancelRequested = TRUE], "cancelled",
                              <<>>, Snapshot(r, proc[r].obs)),
               proc[r].obs)

IterationLimit(r) ==
    LET rec == proc[r].rec
    IN  /\ InLoop(r) /\ ~rec.cancelRequested /\ rec.iterations >= MaxIterations
        /\ SubmitIteration(r,
               TerminalCommit(rec, rec, "blocked", Note, Snapshot(r, proc[r].obs)),
               proc[r].obs)

Iterating(r) ==
    InLoop(r) /\ ~proc[r].rec.cancelRequested /\ proc[r].rec.iterations < MaxIterations

Counted_Down(r) == [proc[r].rec EXCEPT !.iterations = @ - 1]

(* The safeguard state of the iteration in progress. *)
Counted(r) == [proc[r].rec EXCEPT !.iterations = @ + 1]

(* The deterministic evaluator decides completion; success comes first. *)
Evaluated(r) ==
    LET obs    == proc[r].obs
        status == IF obs \in Goal THEN "completed" ELSE "blocked"
    IN  /\ Iterating(r) /\ obs \in Goal \cup Stop
        /\ SubmitIteration(r,
               TerminalCommit(proc[r].rec, Counted(r), status, Note, Snapshot(r, obs)), obs)

Undecided(r) == Iterating(r) /\ proc[r].obs \notin Goal \cup Stop

(* The provider is asked only when no approved action is waiting. *)
Deciding(r) == Undecided(r) /\ proc[r].rec.approvedAction = NoVal

ProviderStopStatuses_ClaimTrusted == {"blocked", "failed", "completed"}

(* blocked: the script ran out, or the provider gave up; failed: it raised, *)
(* or decided to execute without naming an action.                          *)
ProviderStopStatuses == {"blocked", "failed"}

ProviderStops(r) ==
    \E status \in ProviderStopStatuses :
        /\ Deciding(r)
        /\ SubmitIteration(r,
               TerminalCommit(proc[r].rec, Counted(r), status, Note,
                              Snapshot(r, proc[r].obs)),
               proc[r].obs)

(* A commit that may or may not block the task, by a safeguard. *)
SafeguardCommit(r, blocked, task, drafts, snapshot, observation) ==
    SubmitIteration(r,
        IF blocked
        THEN TerminalCommit(proc[r].rec, task, "blocked", drafts, Snapshot(r, observation))
        ELSE WithSnapshot(IterationCommit(proc[r].rec, task, drafts), snapshot),
        observation)

(* The provider claims completion the evaluator has not confirmed. *)
FalseCompletion(r) ==
    LET task == [Counted(r) EXCEPT !.failures = @ + 1]
    IN  /\ Deciding(r)
        /\ SafeguardCommit(r,
               BlockOnFalseCompletion \/ task.failures >= MaxConsecutiveFailures,
               task, Note, NoVal, proc[r].obs)

WithObservedState(task, s) ==
    [task EXCEPT !.repState = IF s = task.lastState THEN @ + 1 ELSE 1, !.lastState = s]

(* Waiting re-observes an external game and counts unchanged states. *)
Wait(r) ==
    LET observed == IF External THEN world ELSE proc[r].obs
        task     == WithObservedState(Counted(r), observed)
    IN  /\ Deciding(r)
        /\ SafeguardCommit(r, task.repState >= RepeatedStateLimit, task,
               IF External THEN <<ObservationEvent(observed)>> ELSE Note,
               IF External THEN observed ELSE NoVal,
               observed)

--------------------------------------------------------------------------------
(* The chosen action, up to the point where it is journalled. *)

Approved(r) == proc[r].rec.approvedAction # NoVal

Chosen(r) == IF Approved(r) THEN {proc[r].rec.approvedAction} ELSE Acts

(* An approved action does not count as a repetition. *)
WithAction(r, a) ==
    LET fingerprint == <<a, proc[r].obs>>
    IN  [Counted(r) EXCEPT
            !.repAction = IF Approved(r) THEN @
                          ELSE IF fingerprint = proc[r].rec.lastAction THEN @ + 1 ELSE 1,
            !.lastAction = fingerprint]

Repeated(r, a) == ~Approved(r) /\ WithAction(r, a).repAction >= RepeatedActionLimit

RepeatedAction(r) ==
    \E a \in Chosen(r) :
        /\ Undecided(r) /\ Repeated(r, a)
        /\ SafeguardCommit(r, TRUE, WithAction(r, a), Note, NoVal, proc[r].obs)

(* What validate can answer: an in-memory simulation accepts what changes it; *)
(* an external game may refuse anything, and finds the observation stale only *)
(* if the game moved.                                                         *)
Validations(r, a) ==
    IF External
    THEN {"valid", "invalid"} \cup (IF world # proc[r].obs THEN {"stale"} ELSE {})
    ELSE IF Effect[a][proc[r].sim] # proc[r].sim THEN {"valid"} ELSE {"invalid"}

PolicyAllows_AnyAction(r, a, validation) ==
    validation = "valid" /\ proc[r].rec.spend + Cost[a] <= MaxSpend

(* PolicyEngine.evaluate: adapter validity, constraints and the spend limit. *)
PolicyAllows(r, a, validation) ==
    /\ validation = "valid"
    /\ <<a, proc[r].obs>> \in Permitted
    /\ proc[r].rec.spend + Cost[a] <= MaxSpend

(* A rejection keeps a granted approval, and refreshes a stale observation. *)
RejectAction(r) ==
    /\ Undecided(r)
    /\ \E a \in Chosen(r) : \E validation \in Validations(r, a) :
        LET stale    == validation = "stale"
            observed == IF stale THEN world ELSE proc[r].obs
            task     == [WithAction(r, a) EXCEPT !.failures = @ + 1]
        IN  /\ ~Repeated(r, a) /\ ~PolicyAllows(r, a, validation)
            /\ SafeguardCommit(r, task.failures >= MaxConsecutiveFailures, task,
                   IF stale THEN <<ObservationEvent(observed)>> ELSE Note,
                   IF stale THEN observed ELSE NoVal,
                   observed)

MayExecute(r, a) ==
    /\ Undecided(r) /\ ~Repeated(r, a)
    /\ \E validation \in Validations(r, a) : PolicyAllows(r, a, validation)

(* Approval is asked for by the policy, or by the provider for any action. *)
RequestApproval(r) ==
    \E a \in Chosen(r) :
        LET rec == proc[r].rec
            id  == rec.sequence + 1
            c   == IterationCommit(rec, [WithAction(r, a) EXCEPT !.status = "waiting"],
                       <<[Event("approval_requested") EXCEPT !.id = id, !.act = a]>>)
        IN  /\ MayExecute(r, a) /\ ~Approved(r)
            /\ SubmitIteration(r,
                   [c EXCEPT !.create = {[id |-> id, act |-> a, status |-> "pending"]}],
                   proc[r].obs)

--------------------------------------------------------------------------------
(* execute_action_transaction. *)

(* The policy asks for approval by action type, or above a single spend. *)
NeedsApproval(a) == a \in ApprovalActs

(* The write-ahead record.  From here on an exception in this process is   *)
(* one of this attempt.                                                    *)
Prepare(r) ==
    \E a \in Chosen(r) :
        LET rec == proc[r].rec
            id  == rec.sequence + 1
            c   == IterationCommit(rec, WithAction(r, a),
                       <<[AttemptEvent("action_prepared", id) EXCEPT !.act = a]>>)
        IN  /\ MayExecute(r, a) /\ (NeedsApproval(a) => Approved(r))
            /\ Submit(r, c,
                   [proc[r] EXCEPT !.pc = "prepared", !.rec = c.task, !.act = a, !.att = id,
                                   !.auth = rec.approvedId],
                   Abandoned(r))
            /\ UNCHANGED <<command, world, effects>>

StartExecution_Unchecked(r) ==
    LET rec == proc[r].rec
        c   == IterationCommit(rec, rec, <<AttemptEvent("action_execution_started", proc[r].att)>>)
        on  == [proc[r] EXCEPT !.pc = "started", !.rec = c.task]
    IN  /\ proc[r].pc = "prepared"
        /\ Submit(r, c, on, on)
        /\ UNCHANGED <<command, world, effects>>

StartExecution(r) ==
    LET rec == proc[r].rec
        c   == IterationCommit(rec, rec, <<AttemptEvent("action_execution_started", proc[r].att)>>)
    IN  /\ proc[r].pc = "prepared"
        /\ Submit(r, c, [proc[r] EXCEPT !.pc = "started", !.rec = c.task], Abandoned(r))
        /\ UNCHANGED <<command, world, effects>>

(* The adapter carries the action out ... *)
Apply(r) ==
    /\ effects' = Append(effects, [att |-> proc[r].att, act |-> proc[r].act,
                                   auth |-> proc[r].auth, seen |-> proc[r].obs])
    /\ IF External
       THEN world' = Effect[proc[r].act][world]
       ELSE UNCHANGED world

(* ... and answers; an external game may refuse, answer failure although   *)
(* the change took hold, or break the connection before or after it.       *)
Execute(r) ==
    /\ proc[r].pc = "started"
    /\ \E answer \in IF External THEN {"success", "failure", "raised"} ELSE {"success"} :
        /\ answer = "raised" => "adapter" \in Environment
        /\ \/ Apply(r)
           \/ answer # "success" /\ UNCHANGED <<world, effects>>
        /\ proc' = [proc EXCEPT ![r] =
               [proc[r] EXCEPT !.pc = IF answer = "raised" THEN "error" ELSE "executed",
                               !.success = (answer = "success"),
                               !.sim = IF External THEN proc[r].sim
                                       ELSE Effect[proc[r].act][proc[r].sim]]]
    /\ UNCHANGED <<store, command>>

(* ActionVerifier: the answer must agree with what the observations show.  *)
(* An adapter that answers success reports a change, one that answers      *)
(* failure reports none.                                                   *)
Verified(r, after) ==
    LET before == proc[r].obs
        aspect == Aspect[proc[r].act]
    IN  IF proc[r].success
        THEN /\ aspect[after] # aspect[before]
             /\ aspect[after] = aspect[Effect[proc[r].act][before]]
        ELSE before = after

WithoutAuthority_Kept(task) == task

(* The one-shot authority is used up, whatever came of it. *)
WithoutAuthority(task) == [task EXCEPT !.approvedAction = NoVal, !.approvedId = NoId]

(* The task after the action, and whether a safeguard ends it. *)
Outcome(r, after) ==
    LET rec      == proc[r].rec
        cleared  == WithoutAuthority(rec)
        judged   == IF ~Verified(r, after) THEN cleared
                    ELSE IF ~proc[r].success THEN [cleared EXCEPT !.failures = @ + 1]
                    ELSE [cleared EXCEPT !.failures = 0, !.spend = @ + Cost[proc[r].act]]
        counted  == WithObservedState(judged, after)
        failing  == ~proc[r].success /\ judged.failures >= MaxConsecutiveFailures
        status   == IF ~Verified(r, after) THEN "failed"
                    ELSE IF failing \/ counted.repState >= RepeatedStateLimit THEN "blocked"
                    ELSE IF after \in Dead THEN "failed" ELSE "running"
    IN  [counted EXCEPT !.status = status]

(* Observe, verify, and commit the attempt with its checkpoint. *)
Confirm(r) ==
    LET after  == Current(r)
        att    == proc[r].att
        result == IF Verified(r, after) /\ proc[r].success THEN "success" ELSE "failure"
        task   == Outcome(r, after)
        drafts == << ObservationEvent(after),
                     [AttemptEvent("action_execution_confirmed", att) EXCEPT !.res = result],
                     AttemptEvent("action_checkpoint_committed", att) >>
    IN  /\ proc[r].pc = "executed"
        /\ SubmitIteration(r,
               IF task.status = "running"
               THEN WithSnapshot(IterationCommit(proc[r].rec, task, drafts),
                                 IF proc[r].success THEN Snapshot(r, after) ELSE NoVal)
               ELSE TerminalCommit(proc[r].rec, task, task.status, drafts, Snapshot(r, after)),
               after)

--------------------------------------------------------------------------------
(* Failure paths of a session. *)

(* An external adapter may raise wherever the loop awaits it. *)
AdapterRaises(r) ==
    /\ External /\ "adapter" \in Environment
    /\ \/ Undecided(r) /\ proc' = [proc EXCEPT ![r] =
              [@ EXCEPT !.pc = "error", !.rec = Counted(r)]]
       \/ proc[r].pc = "executed" /\ proc' = [proc EXCEPT ![r] = [@ EXCEPT !.pc = "error"]]
    /\ UNCHANGED <<store, command, world, effects>>

(* Any other exception fails the task, and the attempt in flight with it. *)
Error(r) ==
    LET rec    == proc[r].rec
        drafts == IF proc[r].att = NoId THEN <<>>
                  ELSE <<AttemptEvent("action_attempt_failed", proc[r].att)>>
    IN  /\ proc[r].pc = "error"
        /\ SubmitIteration(r,
               TerminalCommit(rec, rec, "failed", drafts, Snapshot(r, proc[r].obs)),
               proc[r].obs)

(* The finally block.  A shutdown that raises fails a task still running,  *)
(* by the record run_runtime itself last committed.                        *)
Shutdown(r) ==
    LET rec == proc[r].outer
    IN  /\ proc[r].pc = "closing"
        /\ \/ proc' = [proc EXCEPT ![r] = Idle] /\ UNCHANGED store
           \/ /\ "shutdown" \in Environment /\ rec.status = "running"
              /\ Submit(r,
                     TerminalCommit(rec, rec, "failed", <<>>, Snapshot(r, proc[r].outerObs)),
                     Idle, Idle)
        /\ UNCHANGED <<command, world, effects>>

(* The process dies; a simulation in its memory dies with it. *)
Crash(r) ==
    /\ "crash" \in Environment /\ Active(r)
    /\ proc' = [proc EXCEPT ![r] = Idle]
    /\ UNCHANGED <<store, command, world, effects>>

--------------------------------------------------------------------------------
(* Operator commands read the store, then commit against what they read.   *)

Commands == {"approve", "deny", "cancel", "resolve"}

(* The command refuses a store on which it has nothing to do. *)
Applicable(name, s) ==
    /\ Reconstructs(s)
    /\ CASE name \in {"approve", "deny"} -> Pending(s.approvals) # {}
         [] name = "cancel"              -> s.task.status \notin Terminal
         [] name = "resolve"             -> UnresolvedAttempt(s.journal) # NoId

(* A decision names an approval on the command line, from which the command *)
(* takes only the task (task_approve, task_deny).                           *)
Named(name) ==
    IF name \in {"approve", "deny"} THEN {a.id : a \in store.approvals} ELSE {NoId}

Read(o, name) ==
    /\ command[o] = NoCommand /\ MayEnter
    /\ Applicable(name, store)
    /\ \E asked \in Named(name) :
           command' = [command EXCEPT ![o] = [name |-> name, view |-> store, asked |-> asked]]
    /\ UNCHANGED <<store, proc, world, effects>>

(* The command ends whether or not its transaction was accepted. *)
Conclude(o, c) ==
    /\ \/ Accepts(store, c) /\ store' = Stored(store, c)
       \/ (~Accepts(store, c) \/ "transaction" \in Environment) /\ UNCHANGED store
    /\ command' = [command EXCEPT ![o] = NoCommand]
    /\ UNCHANGED <<proc, world, effects>>

Decide(view, status, task, drafts) ==
    LET pending == CHOOSE a \in Pending(view.approvals) : TRUE
        type    == IF status = "approved" THEN "approval_granted" ELSE "approval_denied"
    IN  [IterationCommit(view.task, task,
             <<[Event(type) EXCEPT !.id = pending.id]>> \o drafts)
         EXCEPT !.update = {[pending EXCEPT !.status = status]}]

(* The task stays waiting; the granted action becomes its one-shot authority. *)
Approve(o) ==
    LET view    == command[o].view
        pending == CHOOSE a \in Pending(view.approvals) : TRUE
    IN  /\ command[o].name = "approve"
        /\ Conclude(o, Decide(view, "approved",
               [view.task EXCEPT !.approvedAction = pending.act, !.approvedId = pending.id],
               <<>>))

Deny(o) ==
    LET view == command[o].view
    IN  /\ command[o].name = "deny"
        /\ Conclude(o, WithSnapshot(
               Decide(view, "denied", [view.task EXCEPT !.status = "blocked"],
                      <<Event("task_blocked")>>),
               view.checkpoint.state))

Cancel(o) ==
    LET view == command[o].view
    IN  /\ command[o].name = "cancel"
        /\ Conclude(o, TerminalCommit(view.task,
               [view.task EXCEPT !.cancelRequested = TRUE], "cancelled", <<>>,
               view.checkpoint.state))

(* What reconciliation says the action would have returned, given the      *)
(* state the operator observed: nothing for an attempt that never started; *)
(* for OpenTTD only if the game shows the prior or the requested value;    *)
(* for the reference simulation, the answer of a replay on the checkpoint. *)
ExpectedResult(view, id, observed) ==
    LET prior    == view.checkpoint.state
        expected == Effect[AttemptAction(view.journal, id)][prior]
        aspect   == Aspect[AttemptAction(view.journal, id)]
    IN  IF \/ AttemptStatus(view.journal, id) = "prepared"
           \/ External /\ aspect[observed] \notin {aspect[prior], aspect[expected]}
        THEN "none"
        ELSE IF External \/ expected # prior THEN "success" ELSE "failure"

RecoveredCost_Free(view, id, result) == 0

(* A recovered success is paid for, without asking the policy again. *)
RecoveredCost(view, id, result) ==
    IF result = "success" THEN Cost[AttemptAction(view.journal, id)] ELSE 0

(* An explicit operator decision; the action is never retried, and a       *)
(* granted approval is spent.                                              *)
Resolve(o) ==
    LET view    == command[o].view
        id      == UnresolvedAttempt(view.journal)
        cleared == WithoutAuthority(view.task)
        event   == AttemptEvent("action_reconciled", id)
    IN  /\ command[o].name = "resolve"
        /\ \/ \E observed \in States :
                LET result == ExpectedResult(view, id, observed)
                    charge == RecoveredCost(view, id, result)
                IN  /\ result # "none"
                    /\ Conclude(o, WithSnapshot(
                           IterationCommit(view.task, [cleared EXCEPT !.spend = @ + charge],
                               <<ObservationEvent(observed), [event EXCEPT !.res = result]>>),
                           observed))
           \/ Conclude(o, IterationCommit(view.task, cleared,
                              <<[event EXCEPT !.res = "not_executed"]>>))
           \/ /\ CanMove(view.task.status, "blocked")
              /\ Conclude(o, TerminalCommit(view.task, cleared, "blocked",
                                 <<[event EXCEPT !.res = "abandoned"]>>,
                                 view.checkpoint.state))

(* An external game also changes on its own. *)
Drift ==
    /\ External /\ "drift" \in Environment
    /\ \E s \in States : world' = s
    /\ UNCHANGED <<store, proc, command, effects>>

--------------------------------------------------------------------------------

Iterate(r) ==
    \/ Yield(r) \/ CancelSeen(r) \/ IterationLimit(r) \/ Evaluated(r)
    \/ ProviderStops(r) \/ FalseCompletion(r) \/ Wait(r)
    \/ RepeatedAction(r) \/ RejectAction(r) \/ RequestApproval(r)

Transact(r) == Prepare(r) \/ StartExecution(r) \/ Execute(r) \/ Confirm(r)

(* The steps of an open session: everything but opening one and crashing. *)
Step(r) ==
    \/ Gate(r) \/ Reopen(r) \/ Enter(r)
    \/ StartPending(r) \/ StartWaiting(r) \/ Refresh(r) \/ InitializationFailure(r)
    \/ Iterate(r) \/ Transact(r)
    \/ AdapterRaises(r) \/ Error(r) \/ Shutdown(r)

Operate(o) ==
    \/ \E name \in Commands : Read(o, name)
    \/ Approve(o) \/ Deny(o) \/ Cancel(o) \/ Resolve(o)

Next ==
    \/ \E r \in Runners : Resume(r) \/ Step(r) \/ Crash(r)
    \/ \E o \in Operators : Operate(o)
    \/ Drift

Spec == Init /\ [][Next]_vars

(* A session is one asyncio task: while it is open it keeps running. *)
FairSpec == Spec /\ \A r \in Runners : WF_vars(Step(r))

================================================================================
