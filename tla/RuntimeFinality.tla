---------------------------- MODULE RuntimeFinality ----------------------------
(***************************************************************************)
(* The statuses of a task: a terminal one is final, and a task is only     *)
(* completed on an observation that meets its objective.                   *)
(***************************************************************************)
EXTENDS RuntimeLedger

(* What a transaction must establish of the status it writes. *)
StatusWritten(c) ==
    LET journal == store.journal \o c.drafts
    IN  /\ store.task.status \in Terminal =>
               store.task.status = "cancelled" /\ c.task.status = "cancelled"
        /\ AllClosed(journal) \/ c.task.status \in {"running", "cancelled"}
        /\ c.task.status = "completed" =>
               LatestObservation(journal) \in Goal /\ c.snap \in Goal

(* TerminalIsFinal, of one step. *)
TerminalKept ==
    /\ store.task.status \in Terminal => store'.task.status = store.task.status
    /\ store.task.status \in Terminal \ {"cancelled"} => store' = store

--------------------------------------------------------------------------------
(* Sessions. *)

LEMMA StatusFacts ==
    ASSUME LedgerInv, StatusInv, NEW r \in Runners
    PROVE  /\ TypeInv /\ store \in StoreType /\ store.task \in TaskRecord
           /\ store.journal \in Seq(EventRecord) /\ Newest(store, store.task)
           /\ proc[r] \in SessionType /\ SessionOK(proc[r])
           /\ proc[r].rec \in TaskRecord /\ proc[r].outer \in TaskRecord
           /\ SessionInLedger(store, proc[r]) /\ SessionInStatus(store, proc[r])
           /\ proc[r].rec.sequence <= Len(store.journal)
           /\ proc[r].outer.sequence <= Len(store.journal)
           /\ NewTask \in TaskRecord /\ NewTask.sequence <= Len(store.journal)
<1>1. /\ TypeInv /\ store \in StoreType /\ store.task \in TaskRecord
      /\ store.journal \in Seq(EventRecord) /\ AttemptsInOrder(store.journal)
      /\ Newest(store, store.task)
      /\ proc[r] \in SessionType /\ SessionOK(proc[r])
      /\ SessionInLedger(store, proc[r]) /\ SessionInStatus(store, proc[r])
  BY DEF LedgerInv, TypeInv, StoreOK, StoreType, StatusInv
<1>2. proc[r].rec \in TaskRecord /\ proc[r].outer \in TaskRecord
  BY <1>1 DEF SessionType
<1>3. /\ proc[r].rec.sequence <= Len(store.journal)
      /\ proc[r].outer.sequence <= Len(store.journal)
  BY <1>1 DEF SessionInLedger
<1>4. NewTask.sequence <= Len(store.journal)
  BY <1>1, NewTaskUnburdened DEF Unburdened
<1>5. NewTask \in TaskRecord
  <2>1. Idle.rec = NewTask /\ Idle \in SessionType
    BY IdleOK DEF SessionOK, Idle
  <2> QED
    BY <2>1 DEF SessionType
<1> QED
  BY <1>1, <1>2, <1>3, <1>4, <1>5

(* Task record t has the stored status, if it is the one stored last. *)
InStatus(s, t) == Newest(s, t) => t.status = s.task.status

LEMMA NewTaskInStatus ==
    ASSUME StatusInv
    PROVE  InStatus(store, NewTask) /\ NewTask.status = "pending"
  BY DEF StatusInv, InStatus, Newest, NewTask

(* A session between its phases. *)
LEMMA RestingInStatus ==
    ASSUME NEW s, NEW p, InStatus(s, p.rec), InStatus(s, p.outer),
           p.pc \notin InFlight \cup {"start"}
    PROVE  SessionInStatus(s, p)
  BY DEF InStatus, SessionInStatus, Watching, InFlight

LEMMA LeavingInStatus ==
    ASSUME LedgerInv, StatusInv, NEW r \in Runners, NEW p, p.pc \notin InFlight \cup {"start"},
           p.rec \in {NewTask, store.task}, p.outer \in {NewTask, proc[r].outer, proc[r].rec}
    PROVE  SessionInStatus(store, p)
<1>1. /\ InStatus(store, NewTask) /\ InStatus(store, store.task)
      /\ InStatus(store, proc[r].outer) /\ InStatus(store, proc[r].rec)
  BY StatusFacts, NewTaskInStatus DEF InStatus, SessionInStatus
<1> QED
  BY <1>1, RestingInStatus

--------------------------------------------------------------------------------
(* One transaction. *)

LEMMA NoLongerNewest ==
    ASSUME NEW s \in StoreType, NEW c, NEW t, Numbered(c, t), Accepts(s, c),
           NEW u \in TaskRecord, u.sequence <= Len(s.journal)
    PROVE  ~Newest(Stored(s, c), u)
<1> DEFINE n == Len(s.journal)
           m == Len(Stored(s, c).journal)
           l == Len(c.drafts)
<1>1. n \in Nat /\ l \in Nat \ {0} /\ m = n + l /\ u.sequence <= n
  BY NumberedStored
<1>2. u.sequence \in Nat
  BY DEF TaskRecord
<1> HIDE DEF n, m, l
<1>3. u.sequence # m
  BY <1>1, <1>2
<1> QED
  BY <1>3 DEF Newest, m

LEMMA StatusStored ==
    ASSUME LedgerInv, StatusInv, NEW c, NEW t, Numbered(c, t), Accepts(store, c),
           store' = Stored(store, c), StatusWritten(c)
    PROVE  /\ TerminalKept
           /\ (Len(store.journal) = 1 => store.task.status = "pending")'
           /\ (AllClosed(store.journal) \/ store.task.status \in {"running", "cancelled"})'
           /\ CompletionConfirmed'
           /\ InStatus(store', c.task) /\ store'.journal = store.journal \o c.drafts
           /\ \A u \in TaskRecord : u.sequence <= Len(store.journal) => InStatus(store', u)
           /\ \A p \in SessionType :
                  SessionInLedger(store, p) /\ SessionInStatus(store, p) =>
                      SessionInStatus(store', p)
<1>1. /\ store \in StoreType /\ c.drafts # <<>> /\ c.task.status \in Statuses
      /\ c \in CommitType
  BY DEF LedgerInv, TypeInv, StoreOK, Numbered, CommitType, TaskRecord
<1>2. /\ store'.journal = store.journal \o c.drafts /\ store'.task = c.task
      /\ Len(store.journal) \in Nat /\ Len(c.drafts) \in Nat \ {0}
      /\ Len(store'.journal) = Len(store.journal) + Len(c.drafts)
      /\ Newest(store', c.task)
  BY <1>1, NumberedStored
<1>3. Len(store.journal) # 0
  BY EmptySeq DEF LedgerInv, AttemptsInOrder, TypeInv, StoreOK, StoreType
<1>4. Len(store'.journal) # 1
  <2> DEFINE n == Len(store.journal)
             l == Len(c.drafts)
  <2>1. n \in Nat \ {0} /\ l \in Nat \ {0} /\ Len(store'.journal) = n + l
    BY <1>2, <1>3
  <2> HIDE DEF n, l
  <2> QED
    BY <2>1
<1>5. \A u \in TaskRecord : u.sequence <= Len(store.journal) => ~Newest(store', u)
  BY <1>1, NoLongerNewest
<1>6. TerminalKept
  BY <1>2 DEF TerminalKept, StatusWritten
<1>7. AllClosed(store'.journal) \/ store'.task.status \in {"running", "cancelled"}
  BY <1>2 DEF StatusWritten
<1>8. CompletionConfirmed'
  <2>1. ASSUME c.task.status = "completed"
        PROVE  LatestObservation(store'.journal) \in Goal /\ store'.checkpoint.state \in Goal
    <3>1. LatestObservation(store'.journal) \in Goal /\ c.snap \in Goal
      BY <1>2, <2>1 DEF StatusWritten
    <3>2. c.snap # NoVal
      BY <3>1, TaskAssumption, NoValAssumption
    <3>3. store'.checkpoint.state = c.snap
      BY <3>2 DEF Stored
    <3> QED
      BY <3>1, <3>3
  <2> QED
    BY <1>2, <2>1 DEF CompletionConfirmed
<1>9. ASSUME NEW p \in SessionType, SessionInLedger(store, p), SessionInStatus(store, p)
      PROVE  SessionInStatus(store', p)
  <2>1. /\ p.rec \in TaskRecord /\ p.outer \in TaskRecord
        /\ p.rec.sequence <= Len(store.journal) /\ p.outer.sequence <= Len(store.journal)
    BY <1>9 DEF SessionType, SessionInLedger
  <2>2. ~Newest(store', p.rec) /\ ~Newest(store', p.outer)
    BY <1>5, <2>1
  <2> QED
    BY <1>9, <2>2 DEF SessionInStatus
<1> QED
  BY <1>2, <1>4, <1>5, <1>6, <1>7, <1>8, <1>9 DEF InStatus

(* A transaction of session r. *)
LEMMA SubmitStatus ==
    ASSUME LedgerInv, StatusInv, NEW r \in Runners, NEW c, NEW t, Numbered(c, t),
           NEW done, NEW failed, Submit(r, c, done, failed), UNCHANGED command,
           failed.pc \notin InFlight \cup {"start"}, failed.rec = NewTask,
           failed.outer \in {NewTask, proc[r].outer, proc[r].rec},
           done.rec \in {c.task, NewTask}, done.outer \in {c.task, NewTask, proc[r].outer},
           done.pc # "start", done.pc \in InFlight => done.rec.status = "running",
           done.pc = "loop" => External \/ done.sim = done.obs,
           ASSUME Newest(store, t), Accepts(store, c)
           PROVE  /\ StatusWritten(c)
                  /\ done.pc = "loop" =>
                         done.obs = LatestObservation(store.journal \o c.drafts)
    PROVE  StatusInv' /\ TerminalKept
<1>1. /\ DOMAIN proc = Runners /\ store \in StoreType
      /\ \A q \in Runners : /\ proc[q] \in SessionType
                            /\ SessionInLedger(store, proc[q]) /\ SessionInStatus(store, proc[q])
      /\ \A o \in Operators : CommandInStatus(command[o])
  BY DEF LedgerInv, TypeInv, StoreOK, StatusInv
<1>2. \A o \in Operators : CommandInStatus(command'[o])
  BY <1>1
<1>3. CASE Accepts(store, c) /\ store' = Stored(store, c)
  <2>1. proc' = [proc EXCEPT ![r] = done] \/ proc' = [proc EXCEPT ![r] = failed]
    BY DEF Submit
  <2>2. Newest(store, t)
    BY <1>1, <1>3, NumberedStored
  <2>3. /\ StatusWritten(c)
        /\ done.pc = "loop" => done.obs = LatestObservation(store.journal \o c.drafts)
    BY <1>3, <2>2
  <2>4. /\ TerminalKept
        /\ (Len(store.journal) = 1 => store.task.status = "pending")'
        /\ (AllClosed(store.journal) \/ store.task.status \in {"running", "cancelled"})'
        /\ CompletionConfirmed'
        /\ InStatus(store', c.task) /\ store'.journal = store.journal \o c.drafts
        /\ \A u \in TaskRecord : u.sequence <= Len(store.journal) => InStatus(store', u)
        /\ \A p \in SessionType :
               SessionInLedger(store, p) /\ SessionInStatus(store, p) => SessionInStatus(store', p)
    BY <1>3, <2>3, StatusStored
  <2>5. /\ InStatus(store', NewTask) /\ InStatus(store', proc[r].outer)
        /\ InStatus(store', proc[r].rec)
    BY <2>4, StatusFacts
  <2>6. SessionInStatus(store', failed)
    BY <2>5, RestingInStatus
  <2>7. SessionInStatus(store', done)
    BY <2>3, <2>4, <2>5 DEF SessionInStatus, InStatus, Watching
  <2>8. \A q \in Runners : SessionInStatus(store', proc'[q])
    BY <1>1, <2>1, <2>4, <2>6, <2>7
  <2> QED
    BY <1>2, <2>4, <2>8 DEF StatusInv
<1>4. CASE store' = store /\ proc' = [proc EXCEPT ![r] = failed]
  <2>1. SessionInStatus(store, failed)
    BY LeavingInStatus
  <2>2. \A q \in Runners : SessionInStatus(store', proc'[q])
    BY <1>1, <1>4, <2>1
  <2> QED
    BY <1>2, <1>4, <2>2 DEF StatusInv, CompletionConfirmed, TerminalKept
<1> QED
  BY <1>3, <1>4 DEF Submit

(* A step of session r without a transaction. *)
LEMMA SessionStepStatus ==
    ASSUME LedgerInv, StatusInv, NEW r \in Runners, NEW next,
           proc' = [proc EXCEPT ![r] = next], UNCHANGED <<store, command>>,
           SessionInStatus(store, next)
    PROVE  StatusInv' /\ TerminalKept
<1>1. DOMAIN proc = Runners /\ \A q \in Runners : SessionInStatus(store, proc[q])
  BY DEF LedgerInv, TypeInv, StatusInv
<1>2. \A q \in Runners : SessionInStatus(store', proc'[q])
  BY <1>1
<1> QED
  BY <1>2 DEF StatusInv, CompletionConfirmed, TerminalKept

(* A transaction of operator o. *)
LEMMA ConcludeStatus ==
    ASSUME LedgerInv, StatusInv, NEW o \in Operators, NEW c, NEW t, Numbered(c, t),
           Conclude(o, c),
           ASSUME Newest(store, t), Accepts(store, c)
           PROVE  StatusWritten(c)
    PROVE  StatusInv' /\ TerminalKept
<1>1. /\ DOMAIN command = Operators /\ store \in StoreType
      /\ \A q \in Runners : /\ proc[q] \in SessionType
                            /\ SessionInLedger(store, proc[q]) /\ SessionInStatus(store, proc[q])
      /\ \A p \in Operators : CommandInStatus(command[p])
  BY DEF LedgerInv, TypeInv, StoreOK, StatusInv
<1>2. UNCHANGED proc /\ command' = [command EXCEPT ![o] = NoCommand]
  BY DEF Conclude
<1>3. CommandInStatus(NoCommand)
  BY DEF CommandInStatus, NoCommand
<1>4. \A p \in Operators : CommandInStatus(command'[p])
  BY <1>1, <1>2, <1>3
<1>5. CASE Accepts(store, c) /\ store' = Stored(store, c)
  <2>1. Newest(store, t)
    BY <1>1, <1>5, NumberedStored
  <2>2. StatusWritten(c)
    BY <1>5, <2>1
  <2>3. /\ TerminalKept
        /\ (Len(store.journal) = 1 => store.task.status = "pending")'
        /\ (AllClosed(store.journal) \/ store.task.status \in {"running", "cancelled"})'
        /\ CompletionConfirmed'
        /\ \A p \in SessionType :
               SessionInLedger(store, p) /\ SessionInStatus(store, p) => SessionInStatus(store', p)
    BY <1>5, <2>2, StatusStored
  <2>4. \A q \in Runners : SessionInStatus(store', proc'[q])
    BY <1>1, <1>2, <2>3
  <2> QED
    BY <1>4, <2>3, <2>4 DEF StatusInv
<1>6. CASE UNCHANGED store
  BY <1>1, <1>2, <1>4, <1>6 DEF StatusInv, CompletionConfirmed, TerminalKept
<1> QED
  BY <1>5, <1>6 DEF Conclude

--------------------------------------------------------------------------------
(* The actions of a session. *)

LEMMA StatusWords ==
    /\ "running" \notin Terminal /\ "waiting" \notin Terminal /\ "pending" \notin Terminal
    /\ Terminal = {"completed", "blocked", "failed", "cancelled"}
  BY DEF Terminal, TerminalEvent

(* A transaction about no attempt, while none is open. *)
LEMMA QuietStatusWritten ==
    ASSUME LedgerInv, NEW c, c.drafts \in Seq(EventRecord), AttemptEventsOf(c.drafts) = {},
           AllClosed(store.journal), store.task.status \notin Terminal,
           c.task.status # "completed"
    PROVE  StatusWritten(c)
<1>1. store.journal \in Seq(EventRecord)
  BY DEF LedgerInv, TypeInv, StoreOK, StoreType
<1>2. AllClosed(store.journal \o c.drafts)
  BY <1>1, StaysClosed
<1> QED
  BY <1>2 DEF StatusWritten

LEMMA OpenNotClosed ==
    ASSUME NEW j \in Seq(EventRecord), AttemptsInOrder(j), UnresolvedAttempt(j) # NoId
    PROVE  ~AllClosed(j)
<1>1. Attempts(j) = Prepared(j)
  BY InOrder
<1> QED
  BY <1>1, UnresolvedIsOpen DEF AllClosed

LEMMA OpeningStatus ==
    ASSUME LedgerInv, StatusInv, NEW r \in Runners, Resume(r) \/ Reopen(r) \/ Enter(r)
    PROVE  StatusInv' /\ TerminalKept
<1> DEFINE pc   == IF store.task.status # "running" THEN "start"
                   ELSE IF External THEN "refresh" ELSE "loop"
           observed == LatestObservation(store.journal)
           open == [proc[r] EXCEPT !.pc = pc, !.rec = store.task, !.obs = observed,
                                   !.outer = store.task, !.outerObs = observed]
<1>1. UNCHANGED <<store, command>>
  BY DEF Resume, Reopen, Enter
<1>2. /\ AtGate(r).pc = "gate" /\ AtGate(r).rec = store.task /\ AtGate(r).outer = NewTask
      /\ WithAdapter(r).pc = "opened" /\ WithAdapter(r).rec = NewTask
      /\ WithAdapter(r).outer = NewTask
      /\ Idle.pc = "idle" /\ Idle.rec = NewTask /\ Idle.outer = NewTask
  BY DEF AtGate, WithAdapter, Idle
<1>3. ASSUME NEW next \in {Idle, AtGate(r), WithAdapter(r)}, proc' = [proc EXCEPT ![r] = next]
      PROVE  StatusInv' /\ TerminalKept
  <2>1. SessionInStatus(store, next)
    BY <1>2, LeavingInStatus DEF InFlight
  <2> QED
    BY <1>1, <1>3, <2>1, SessionStepStatus
<1>4. ASSUME proc[r].pc = "opened", Reconstructs(store),
             \/ External \/ store.task.status = "pending"
             \/ proc[r].sim = store.checkpoint.state,
             proc' = [proc EXCEPT ![r] = open]
      PROVE  StatusInv' /\ TerminalKept
  <2>1. proc[r] \in SessionType
    BY StatusFacts
  <2>2. /\ open.pc = pc /\ open.rec = store.task /\ open.obs = observed
        /\ open.outer = store.task /\ open.sim = proc[r].sim
    BY <2>1 DEF SessionType
  <2>3. ASSUME store.task.status \in {"running", "waiting"}
        PROVE  External \/ proc[r].sim = observed
    BY <1>4, <2>3 DEF Reconstructs, CheckpointConsistent
  <2>4. Watching(open) => store.task.status \in {"running", "waiting"}
    BY <2>2 DEF Watching
  <2>5. open.pc \in InFlight => open.rec.status = "running"
    BY <2>2 DEF InFlight
  <2> HIDE DEF open
  <2>6. SessionInStatus(store, open)
    BY <2>2, <2>3, <2>4, <2>5 DEF SessionInStatus
  <2> QED
    BY <1>1, <1>4, <2>6, SessionStepStatus
<1>5. CASE Resume(r)
  BY <1>3, <1>5 DEF Resume
<1>6. CASE Reopen(r)
  BY <1>3, <1>6 DEF Reopen
<1>7. CASE Enter(r)
  BY <1>3, <1>4, <1>7 DEF Enter
<1> QED
  BY <1>5, <1>6, <1>7

LEMMA GateStatus ==
    ASSUME LedgerInv, StatusInv, NEW r \in Runners, Gate(r)
    PROVE  StatusInv' /\ TerminalKept
<1>1. Idle.pc = "idle" /\ Idle.rec = NewTask /\ Idle.outer = NewTask
  BY DEF Idle
<1>2. SessionInStatus(store, Idle)
  BY <1>1, LeavingInStatus DEF InFlight
<1>3. ASSUME NEW c, NEW done, GateCommit(r, c, done)
      PROVE  StatusInv' /\ TerminalKept
  <2>1. /\ proc[r].pc = "gate" /\ Submit(r, c, done, Idle) /\ UNCHANGED command
        /\ Numbered(c, proc[r].rec) /\ c.task.status = proc[r].rec.status
        /\ done.pc \in {"idle", "gated"} /\ done.rec = NewTask /\ done.outer = NewTask
    BY <1>3 DEF GateCommit
  <2>2. ASSUME Newest(store, proc[r].rec)
        PROVE  StatusWritten(c)
    <3>1. c.task.status = store.task.status
      BY <2>1, <2>2, StatusFacts DEF SessionInStatus
    <3>2. ~AllClosed(store.journal)
      <4>1. /\ proc[r].att # NoId /\ proc[r].att = UnresolvedAttempt(store.journal)
            /\ store.journal \in Seq(EventRecord) /\ AttemptsInOrder(store.journal)
        BY <2>1, <2>2, StatusFacts DEF SessionInLedger, LedgerInv
      <4> QED
        BY <4>1, OpenNotClosed
    <3>3. store.task.status \in {"running", "cancelled"}
      BY <3>2 DEF StatusInv
    <3> QED
      BY <3>1, <3>3, StatusWords DEF StatusWritten
  <2> QED
    BY <1>1, <2>1, <2>2, SubmitStatus DEF InFlight
<1> QED
  BY <1>2, <1>3, GateCommits, SessionStepStatus

LEMMA StartStatus ==
    ASSUME LedgerInv, StatusInv, NEW r \in Runners, NEW c, NEW done, NEW failed,
           StartCommit(r, c, done, failed)
    PROVE  StatusInv' /\ TerminalKept
<1>1. /\ proc[r].pc \in {"start", "refresh"} /\ Submit(r, c, done, failed) /\ UNCHANGED command
      /\ failed = Abandoned(r) \/ \E s \in States : failed = Closing(r, proc[r].rec, s)
      /\ Numbered(c, proc[r].rec) /\ AttemptEventsOf(c.drafts) = {}
      /\ done.outer = c.task /\ done.rec \in {c.task, NewTask}
      /\ \/ c.task.status = "failed" /\ done.pc = "closing" /\ done.rec = NewTask
         \/ /\ c.task.status = IF proc[r].pc = "start" THEN "running" ELSE proc[r].rec.status
            /\ done.pc \in {"loop", "refresh"} /\ done.rec = c.task
      /\ done.pc = "loop" => Sees(r, c, done)
  BY DEF StartCommit
<1>2. /\ SessionOK(proc[r]) /\ SessionInStatus(store, proc[r]) /\ SessionInLedger(store, proc[r])
      /\ store.journal \in Seq(EventRecord) /\ c.drafts \in Seq(EventRecord)
  BY <1>1, StatusFacts DEF Numbered, CommitType
<1>3. proc[r].rec.status \in {"pending", "waiting", "running"}
  BY <1>1, <1>2 DEF SessionOK, SessionInStatus, InFlight
<1>4. proc[r].pc = "refresh" => proc[r].rec.status = "running"
  BY <1>2 DEF SessionInStatus, InFlight
<1>5. c.task.status \in {"failed", "running"} /\ (done.pc # "closing" => c.task.status = "running")
  BY <1>1, <1>4
<1>6. /\ failed.pc = "closing" /\ failed.rec = NewTask
      /\ failed.outer \in {proc[r].outer, proc[r].rec}
  BY <1>1, ClosingFields
<1>7. done.pc = "loop" => External \/ done.sim = done.obs
  BY <1>1, <1>2 DEF Sees, SessionInStatus, Watching
<1>8. ASSUME Newest(store, proc[r].rec)
      PROVE  /\ StatusWritten(c)
             /\ done.pc = "loop" => done.obs = LatestObservation(store.journal \o c.drafts)
  <2>1. AllClosed(store.journal) /\ store.task.status \notin Terminal
    BY <1>1, <1>2, <1>3, <1>8, LedgerFacts, StatusWords, StartLedgerFacts DEF SessionInStatus
  <2>2. StatusWritten(c)
    BY <1>1, <1>2, <1>5, <2>1, QuietStatusWritten
  <2>3. ASSUME done.pc = "loop"
        PROVE  ShowsLast(c.drafts, LatestObservation(store.journal), done.obs)
    <3>1. CASE /\ proc[r].pc = "start" /\ proc[r].rec.status = "waiting"
               /\ Observed(c.drafts) = {} /\ done.obs = proc[r].obs
      BY <1>2, <1>8, <3>1 DEF SessionInStatus, Watching, ShowsLast
    <3>2. CASE Observed(c.drafts) # {} /\ ShowsLast(c.drafts, NoVal, done.obs)
      BY <3>2 DEF ShowsLast
    <3> QED
      BY <1>1, <2>3, <3>1, <3>2 DEF Sees
  <2> QED
    BY <1>2, <2>2, <2>3, LastShown
<1>9. done.pc \in {"loop", "refresh", "closing"} /\ (done.pc \in InFlight => done.rec.status = "running")
  BY <1>1, <1>5 DEF InFlight
<1> QED
  BY <1>1, <1>6, <1>7, <1>8, <1>9, SubmitStatus DEF InFlight

(* An iteration that was begun while the task was running. *)
LEMMA IterationStatus ==
    ASSUME LedgerInv, StatusInv, NEW r \in Runners, NEW c, NEW observation,
           Numbered(c, proc[r].rec), SubmitIteration(r, c, observation),
           c.task.status = "running" => External \/ proc[r].sim = observation,
           ASSUME Newest(store, proc[r].rec)
           PROVE  /\ StatusWritten(c)
                  /\ c.task.status = "running" =>
                         observation = LatestObservation(store.journal \o c.drafts)
    PROVE  StatusInv' /\ TerminalKept
<1> DEFINE done  == AfterIteration(r, c.task, observation)
           loops == [Looping(r, c.task, observation) EXCEPT !.worked = TRUE]
<1>1. Submit(r, c, done, Abandoned(r)) /\ UNCHANGED command
  BY DEF SubmitIteration
<1>2. proc[r] \in SessionType
  BY StatusFacts
<1>3. /\ loops.pc = "loop" /\ loops.rec = c.task /\ loops.outer = proc[r].outer
      /\ loops.obs = observation /\ loops.sim = proc[r].sim
  BY <1>2 DEF Looping, SessionType
<1>4. \/ done = loops /\ c.task.status = "running"
      \/ done = Closing(r, c.task, observation)
  BY DEF AfterIteration
<1>5. /\ Abandoned(r).pc = "closing" /\ Abandoned(r).rec = NewTask
      /\ Abandoned(r).outer = proc[r].outer
      /\ Closing(r, c.task, observation).pc = "closing"
      /\ Closing(r, c.task, observation).rec = NewTask
      /\ Closing(r, c.task, observation).outer = c.task
  BY ClosingFields
<1> HIDE DEF loops, done
<1>6. /\ done.rec \in {c.task, NewTask} /\ done.outer \in {c.task, NewTask, proc[r].outer}
      /\ done.pc \in {"loop", "closing"}
      /\ done.pc = "loop" => /\ done.rec.status = "running" /\ c.task.status = "running"
                             /\ done.obs = observation /\ done.sim = proc[r].sim
  BY <1>3, <1>4, <1>5
<1> QED
  BY <1>1, <1>5, <1>6, SubmitStatus DEF InFlight

LEMMA LoopStatus ==
    ASSUME LedgerInv, StatusInv, NEW r \in Runners, NEW c, NEW observation,
           LoopCommit(r, c, observation)
    PROVE  StatusInv' /\ TerminalKept
<1>1. /\ proc[r].pc = "loop" /\ SubmitIteration(r, c, observation)
      /\ Numbered(c, proc[r].rec) /\ AttemptEventsOf(c.drafts) = {}
      /\ External \/ observation = proc[r].obs
      /\ ShowsLast(c.drafts, proc[r].obs, observation)
      /\ c.task.status = "completed" =>
             \/ proc[r].rec.status = "completed"
             \/ /\ observation = proc[r].obs /\ proc[r].obs \in Goal
                /\ c.snap = Snapshot(r, proc[r].obs)
  BY DEF LoopCommit, InLoop
<1>2. /\ SessionInStatus(store, proc[r]) /\ SessionInLedger(store, proc[r])
      /\ store.journal \in Seq(EventRecord) /\ c.drafts \in Seq(EventRecord)
  BY <1>1, StatusFacts DEF Numbered, CommitType
<1>3. proc[r].rec.status = "running" /\ (External \/ proc[r].sim = proc[r].obs)
  BY <1>1, <1>2 DEF SessionInStatus, InFlight, Watching
<1>4. ASSUME Newest(store, proc[r].rec)
      PROVE  /\ StatusWritten(c)
             /\ observation = LatestObservation(store.journal \o c.drafts)
  <2>1. AllClosed(store.journal) /\ store.task.status = "running"
    BY <1>1, <1>2, <1>3, <1>4 DEF SessionInStatus, SessionInLedger
  <2>2. proc[r].obs = LatestObservation(store.journal)
    BY <1>1, <1>2, <1>4 DEF SessionInStatus, Watching
  <2>3. observation = LatestObservation(store.journal \o c.drafts)
    BY <1>1, <1>2, <2>2, LastShown
  <2>4. ASSUME c.task.status = "completed"
        PROVE  LatestObservation(store.journal \o c.drafts) \in Goal /\ c.snap \in Goal
    BY <1>1, <1>3, <2>3, <2>4 DEF Snapshot
  <2>5. AllClosed(store.journal \o c.drafts)
    BY <1>1, <1>2, <2>1, StaysClosed
  <2>6. StatusWritten(c)
    BY <2>1, <2>4, <2>5, StatusWords DEF StatusWritten
  <2> QED
    BY <2>3, <2>6
<1> QED
  BY <1>1, <1>3, <1>4, IterationStatus

LEMMA IterateStatus ==
    ASSUME LedgerInv, StatusInv, NEW r \in Runners, Iterate(r)
    PROVE  StatusInv' /\ TerminalKept
<1>1. CASE Yield(r)
  <2> DEFINE next == Closing(r, proc[r].rec, proc[r].obs)
  <2>1. proc' = [proc EXCEPT ![r] = next] /\ UNCHANGED <<store, command>>
    BY <1>1 DEF Yield
  <2>2. next.pc = "closing" /\ next.rec = NewTask /\ next.outer = proc[r].rec
    BY ClosingFields
  <2> HIDE DEF next
  <2>3. SessionInStatus(store, next)
    BY <2>2, LeavingInStatus DEF InFlight
  <2> QED
    BY <2>1, <2>3, SessionStepStatus
<1> QED
  BY <1>1, StatusFacts, IterateCommits, LoopStatus

LEMMA ResolvingStatus ==
    ASSUME LedgerInv, StatusInv, NEW r \in Runners, NEW c, NEW after,
           ResolvingCommit(r, c, after)
    PROVE  StatusInv' /\ TerminalKept
<1>1. /\ proc[r].pc \in {"executed", "error"} /\ SubmitIteration(r, c, after)
      /\ Numbered(c, proc[r].rec)
      /\ Newest(store, proc[r].rec) =>
             \/ AttemptEventsOf(c.drafts) = {} /\ AllClosed(store.journal)
             \/ Resolves(store.journal, c.drafts, proc[r].att)
      /\ c.task.status \in {"blocked", "failed", "running"}
      /\ c.task.status = "running" =>
             /\ External \/ proc[r].sim = after
             /\ Observed(c.drafts) # {} /\ ShowsLast(c.drafts, NoVal, after)
  BY DEF ResolvingCommit
<1>2. /\ SessionInStatus(store, proc[r]) /\ AttemptsInOrder(store.journal)
      /\ store.journal \in Seq(EventRecord) /\ c.drafts \in Seq(EventRecord)
  BY <1>1, StatusFacts DEF Numbered, CommitType, LedgerInv
<1>3. ASSUME Newest(store, proc[r].rec)
      PROVE  /\ StatusWritten(c)
             /\ c.task.status = "running" =>
                    after = LatestObservation(store.journal \o c.drafts)
  <2>1. store.task.status = "running"
    BY <1>1, <1>2, <1>3 DEF SessionInStatus, InFlight
  <2>2. AllClosed(store.journal \o c.drafts)
    <3>1. CASE AttemptEventsOf(c.drafts) = {} /\ AllClosed(store.journal)
      BY <1>2, <3>1, StaysClosed
    <3>2. CASE Resolves(store.journal, c.drafts, proc[r].att)
      BY <1>2, <3>2, BecomesClosed DEF Resolves
    <3> QED
      BY <1>1, <1>3, <3>1, <3>2
  <2>3. StatusWritten(c)
    BY <1>1, <2>1, <2>2, StatusWords DEF StatusWritten
  <2>4. ASSUME c.task.status = "running"
        PROVE  after = LatestObservation(store.journal \o c.drafts)
    <3>1. ShowsLast(c.drafts, LatestObservation(store.journal), after)
      BY <1>1, <2>4 DEF ShowsLast
    <3> QED
      BY <1>2, <3>1, LastShown
  <2> QED
    BY <2>3, <2>4
<1> QED
  BY <1>1, <1>3, IterationStatus

(* The two write-ahead commits of an attempt. *)
AttemptCommit(r, c, next) ==
    /\ Submit(r, c, next, Abandoned(r)) /\ UNCHANGED <<command, effects>>
    /\ CommitOK(c) /\ Numbered(c, proc[r].rec) /\ c.create = {} /\ c.update = {}
    /\ Closings(c.drafts) = {} /\ c.snap = NoVal /\ Ends(c, proc[r].rec)
    /\ \E e : /\ c.drafts = <<e>> /\ e.res = "none"
              /\ next.pc = "prepared" =>
                     /\ e.type = "action_prepared" /\ e.act = next.act
                     /\ e.id = next.att /\ next.att = proc[r].rec.sequence + 1
              /\ next.pc = "started" =>
                     e.type = "action_execution_started" /\ e.id = proc[r].att
    /\ c.task.status = proc[r].rec.status /\ SameMeans(c.task, proc[r].rec)
    /\ next.rec = c.task /\ next.outer = proc[r].outer /\ next.obs = proc[r].obs
    /\ \/ /\ InLoop(r) /\ next.pc = "prepared" /\ MayExecute(r, next.act)
          /\ next.act \in Chosen(r) /\ (NeedsApproval(next.act) => Approved(r))
          /\ next.auth = proc[r].rec.approvedId
       \/ /\ proc[r].pc = "prepared" /\ next.pc = "started" /\ next.act = proc[r].act
          /\ next.att = proc[r].att /\ next.auth = proc[r].auth

LEMMA PrepareCommit ==
    ASSUME TypeInv, NEW r \in Runners, Prepare(r)
    PROVE  \E c, next : AttemptCommit(r, c, next)
<1> DEFINE rec     == proc[r].rec
           id      == rec.sequence + 1
           e(a)    == [AttemptEvent("action_prepared", id) EXCEPT !.act = a]
           c(a)    == IterationCommit(rec, WithAction(r, a), <<e(a)>>)
           next(a) == [proc[r] EXCEPT !.pc = "prepared", !.rec = c(a).task, !.act = a,
                                      !.att = id, !.auth = rec.approvedId]
<1>1. PICK a \in Chosen(r) : /\ MayExecute(r, a) /\ Submit(r, c(a), next(a), Abandoned(r))
                             /\ NeedsApproval(a) => Approved(r)
  BY DEF Prepare
<1>2. Iterating(r) /\ UNCHANGED <<command, effects>> /\ InLoop(r)
  BY <1>1 DEF MayExecute, Undecided, Prepare, Iterating
<1>3. /\ rec \in TaskRecord /\ proc[r].obs \in States /\ proc[r] \in SessionType
  BY <1>2, IteratingFacts DEF TypeInv
<1>4. a \in Acts
  BY <1>1, <1>3, ChosenType
<1>5. /\ WithAction(r, a) \in TaskRecord /\ WithAction(r, a).status = rec.status
      /\ SameMeans(WithAction(r, a), rec)
  BY <1>3, <1>4, WithActionFacts
<1>6. id \in Nat
  <2> HIDE DEF rec
  <2> QED
    BY <1>3 DEF TaskRecord
<1> DEFINE d == <<e(a)>>
           b == c(a)
           p == next(a)
<1>7. /\ Draft(e(a)) /\ e(a).type = "action_prepared"
      /\ e(a).act = a /\ e(a).id = id /\ e(a).res = "none"
  <2>1. Draft(e(a))
    BY <1>4, <1>6, PreparedDraft
  <2> QED
    BY <2>1 DEF AttemptEvent, Event
<1>13. id = rec.sequence + 1
  OBVIOUS
<1> HIDE DEF id
<1>8. DraftsOK(d) /\ d # <<>> /\ Closings(d) = {}
  <2> HIDE DEF e
  <2>1. "action_prepared" \notin ClosingTypes
    BY DEF ClosingTypes
  <2>2. Closings(d) = {}
    BY <1>7, <2>1, ClosingsByType
  <2> QED
    BY <1>7, <2>2, DraftSequences
<1>9. Numbered(b, rec) /\ Carries(b, WithAction(r, a), d, NoVal) /\ Ends(b, rec)
  <2>1. WithAction(r, a).cancelRequested = rec.cancelRequested
    BY <1>3 DEF WithAction, Counted, TaskRecord
  <2> HIDE DEF d, rec
  <2> QED
    BY <1>3, <1>5, <1>8, <2>1, IterationNumbered DEF d
<1> HIDE DEF e, c
<1>14. /\ d = <<e(a)>> /\ b.drafts = d /\ b.snap = NoVal
       /\ b.task.status = rec.status /\ SameMeans(b.task, rec)
  <2> HIDE DEF b, d
  <2>1. b.drafts = d /\ b.snap = NoVal
    BY <1>9 DEF Carries
  <2>2. b.task.status = rec.status /\ SameMeans(b.task, rec)
    BY <1>5, <1>9 DEF Carries, SameMeans
  <2> QED
    BY <2>1, <2>2 DEF d
<1>10. /\ p.pc = "prepared" /\ p.rec = b.task /\ p.act = a /\ p.outer = proc[r].outer
       /\ p.obs = proc[r].obs /\ p.auth = rec.approvedId /\ p.att = id
  BY <1>3 DEF SessionType
<1>11. Submit(r, b, p, Abandoned(r))
  BY <1>1
<1> HIDE DEF b, p, d
<1>15. /\ CommitOK(b) /\ b.create = {} /\ b.update = {}
  BY <1>9 DEF Carries, Numbered
<1>16. \E f : /\ b.drafts = <<f>> /\ f.res = "none"
              /\ p.pc = "prepared" =>
                     /\ f.type = "action_prepared" /\ f.act = p.act
                     /\ f.id = p.att /\ p.att = rec.sequence + 1
              /\ p.pc = "started" =>
                     f.type = "action_execution_started" /\ f.id = proc[r].att
  BY <1>7, <1>10, <1>13, <1>14
<1>12. AttemptCommit(r, b, p)
  BY <1>1, <1>2, <1>8, <1>9, <1>10, <1>11, <1>14, <1>15, <1>16 DEF AttemptCommit
<1> QED
  BY <1>12

LEMMA StartExecutionCommit ==
    ASSUME TypeInv, NEW r \in Runners, StartExecution(r)
    PROVE  \E c, next : AttemptCommit(r, c, next)
<1> DEFINE rec  == proc[r].rec
           e    == AttemptEvent("action_execution_started", proc[r].att)
           d    == <<e>>
           c    == IterationCommit(rec, rec, d)
           next == [proc[r] EXCEPT !.pc = "started", !.rec = c.task]
<1>1. /\ proc[r].pc = "prepared" /\ UNCHANGED <<command, effects>>
      /\ Submit(r, c, next, Abandoned(r))
  BY DEF StartExecution
<1>2. proc[r] \in SessionType /\ rec \in TaskRecord /\ proc[r].att \in Nat
  BY DEF TypeInv, SessionType
<1>3. /\ Draft(e) /\ e.type = "action_execution_started"
      /\ e.id = proc[r].att /\ e.res = "none"
  <2>1. Draft(e)
    BY <1>2, EventTypes, AttemptDraft
  <2> QED
    BY <2>1 DEF AttemptEvent, Event
<1> HIDE DEF e
<1>4. DraftsOK(d) /\ d # <<>> /\ Closings(d) = {}
  <2>1. "action_execution_started" \notin ClosingTypes
    BY DEF ClosingTypes
  <2>2. Closings(d) = {}
    BY <1>3, <2>1, ClosingsByType
  <2> QED
    BY <1>3, <2>2, DraftSequences
<1>5. Numbered(c, rec) /\ Carries(c, rec, d, NoVal) /\ Ends(c, rec)
  <2> HIDE DEF d, rec
  <2> QED
    BY <1>2, <1>4, IterationNumbered
<1>8. d = <<e>>
  OBVIOUS
<1> HIDE DEF c, d
<1>9. /\ CommitOK(c) /\ c.create = {} /\ c.update = {} /\ c.drafts = <<e>> /\ c.snap = NoVal
      /\ c.task.status = rec.status /\ SameMeans(c.task, rec)
  BY <1>5, <1>8 DEF Carries, Numbered, SameMeans
<1>6. /\ next.pc = "started" /\ next.rec = c.task /\ next.act = proc[r].act
      /\ next.att = proc[r].att /\ next.outer = proc[r].outer /\ next.obs = proc[r].obs
      /\ next.auth = proc[r].auth
  BY <1>2 DEF SessionType
<1> HIDE DEF next
<1>7. AttemptCommit(r, c, next)
  <2>1. Closings(c.drafts) = {}
    BY <1>4, <1>8, <1>9
  <2> QED
    BY <1>1, <1>3, <1>5, <1>6, <1>9, <2>1 DEF AttemptCommit
<1> QED
  BY <1>7

LEMMA AttemptStatusKept ==
    ASSUME LedgerInv, StatusInv, NEW r \in Runners, NEW c, NEW next, AttemptCommit(r, c, next)
    PROVE  StatusInv' /\ TerminalKept
<1>1. /\ Submit(r, c, next, Abandoned(r)) /\ UNCHANGED command
      /\ Numbered(c, proc[r].rec) /\ c.task.status = proc[r].rec.status
      /\ next.rec = c.task /\ next.outer = proc[r].outer /\ next.pc \in {"prepared", "started"}
      /\ proc[r].pc \in {"loop", "prepared"}
  BY DEF AttemptCommit, InLoop
<1>2. SessionInStatus(store, proc[r])
  BY StatusFacts
<1>3. c.task.status = "running"
  BY <1>1, <1>2 DEF SessionInStatus, InFlight
<1>4. /\ Abandoned(r).pc = "closing" /\ Abandoned(r).rec = NewTask
      /\ Abandoned(r).outer = proc[r].outer
  <2>1. /\ Closing(r, proc[r].outer, proc[r].outerObs).pc = "closing"
        /\ Closing(r, proc[r].outer, proc[r].outerObs).rec = NewTask
        /\ Closing(r, proc[r].outer, proc[r].outerObs).outer = proc[r].outer
    BY ClosingFields
  <2> QED
    BY <2>1 DEF Abandoned
<1>5. ASSUME Newest(store, proc[r].rec)
      PROVE  StatusWritten(c)
  <2>1. store.task.status = "running"
    BY <1>1, <1>2, <1>3, <1>5 DEF SessionInStatus
  <2> QED
    BY <1>3, <2>1, StatusWords DEF StatusWritten
<1> QED
  BY <1>1, <1>3, <1>4, <1>5, SubmitStatus DEF InFlight

LEMMA ExecuteStatus ==
    ASSUME LedgerInv, StatusInv, NEW r \in Runners, Execute(r)
    PROVE  StatusInv' /\ TerminalKept
<1> DEFINE next(pc, ok, s) == [proc[r] EXCEPT !.pc = pc, !.success = ok, !.sim = s]
<1>1. UNCHANGED <<store, command>> /\ proc[r].pc = "started"
  BY DEF Execute
<1>2. PICK pc, ok, s : /\ proc' = [proc EXCEPT ![r] = next(pc, ok, s)]
                       /\ pc \in {"error", "executed"}
  BY Zenon DEF Execute
<1>3. proc[r] \in SessionType /\ SessionInStatus(store, proc[r])
  BY StatusFacts
<1> DEFINE p == next(pc, ok, s)
<1>4. p.pc = pc /\ p.rec = proc[r].rec /\ p.outer = proc[r].outer
  BY <1>3 DEF SessionType
<1>5. proc' = [proc EXCEPT ![r] = p]
  BY <1>2
<1> HIDE DEF p
<1>6. SessionInStatus(store, p)
  BY <1>1, <1>2, <1>3, <1>4 DEF SessionInStatus, Watching, InFlight
<1> QED
  BY <1>1, <1>5, <1>6, SessionStepStatus

LEMMA AdapterRaisesStatus ==
    ASSUME LedgerInv, StatusInv, NEW r \in Runners, AdapterRaises(r)
    PROVE  StatusInv' /\ TerminalKept
<1>1. /\ UNCHANGED <<store, command>> /\ proc[r] \in SessionType
      /\ proc[r].rec \in TaskRecord /\ SessionInStatus(store, proc[r])
  BY StatusFacts DEF AdapterRaises
<1>2. ASSUME NEW rec, rec.status = proc[r].rec.status, rec.sequence = proc[r].rec.sequence,
             proc[r].pc \in InFlight, NEW next, proc' = [proc EXCEPT ![r] = next],
             next.pc = "error", next.rec = rec, next.outer = proc[r].outer
      PROVE  StatusInv' /\ TerminalKept
  <2>1. SessionInStatus(store, next)
    BY <1>1, <1>2 DEF SessionInStatus, Watching, InFlight, Newest
  <2> QED
    BY <1>1, <1>2, <2>1, SessionStepStatus
<1>3. CASE Undecided(r) /\ proc' = [proc EXCEPT ![r] =
                [proc[r] EXCEPT !.pc = "error", !.rec = Counted(r)]]
  <2> DEFINE counted == Counted(r)
             next    == [proc[r] EXCEPT !.pc = "error", !.rec = counted]
  <2>1. proc[r].pc \in InFlight
    BY <1>3 DEF Undecided, Iterating, InLoop, InFlight
  <2>2. counted.sequence = proc[r].rec.sequence /\ counted.status = proc[r].rec.status
    BY <1>1 DEF Counted, TaskRecord
  <2> HIDE DEF counted
  <2>3. next.pc = "error" /\ next.rec = counted /\ next.outer = proc[r].outer
    BY <1>1 DEF SessionType
  <2>4. proc' = [proc EXCEPT ![r] = next]
    BY <1>3 DEF counted
  <2> HIDE DEF next
  <2> QED
    BY <1>2, <2>1, <2>2, <2>3, <2>4
<1>4. CASE proc[r].pc = "executed" /\ proc' = [proc EXCEPT ![r] = [proc[r] EXCEPT !.pc = "error"]]
  <2> DEFINE next == [proc[r] EXCEPT !.pc = "error"]
  <2>1. next.pc = "error" /\ next.rec = proc[r].rec /\ next.outer = proc[r].outer
    BY <1>1 DEF SessionType
  <2>2. proc' = [proc EXCEPT ![r] = next] /\ proc[r].pc \in InFlight
    BY <1>4 DEF InFlight
  <2> HIDE DEF next
  <2> QED
    BY <1>2, <2>1, <2>2
<1> QED
  BY <1>3, <1>4 DEF AdapterRaises

LEMMA IdleInStatus ==
    ASSUME LedgerInv, StatusInv, NEW r \in Runners
    PROVE  SessionInStatus(store, Idle)
<1>1. Idle.pc = "idle" /\ Idle.rec = NewTask /\ Idle.outer = NewTask
  BY DEF Idle
<1> QED
  BY <1>1, LeavingInStatus DEF InFlight

LEMMA CrashStatus ==
    ASSUME LedgerInv, StatusInv, NEW r \in Runners, Crash(r)
    PROVE  StatusInv' /\ TerminalKept
  BY IdleInStatus, SessionStepStatus DEF Crash

LEMMA ShutdownStatus ==
    ASSUME LedgerInv, StatusInv, NEW r \in Runners, Shutdown(r)
    PROVE  StatusInv' /\ TerminalKept
<1>1. Idle.pc = "idle" /\ Idle.rec = NewTask /\ Idle.outer = NewTask
  BY DEF Idle
<1>2. ASSUME NEW c, ShutdownCommit(r, c)
      PROVE  StatusInv' /\ TerminalKept
  <2>1. /\ proc[r].outer.status = "running" /\ Submit(r, c, Idle, Idle) /\ UNCHANGED command
        /\ Numbered(c, proc[r].outer) /\ AttemptEventsOf(c.drafts) = {}
        /\ c.task.status = "failed"
    BY <1>2 DEF ShutdownCommit
  <2>2. c.drafts \in Seq(EventRecord)
    BY <2>1 DEF Numbered, CommitType
  <2>3. ASSUME Newest(store, proc[r].outer)
        PROVE  StatusWritten(c)
    <3>1. AllClosed(store.journal) /\ store.task.status = "running"
      BY <2>1, <2>3, StatusFacts DEF SessionInStatus, SessionInLedger
    <3> QED
      BY <2>1, <2>2, <3>1, StatusWords, QuietStatusWritten
  <2> QED
    BY <1>1, <2>1, <2>3, SubmitStatus DEF InFlight
<1>3. CASE proc' = [proc EXCEPT ![r] = Idle] /\ UNCHANGED <<store, command, effects>>
  BY <1>3, IdleInStatus, SessionStepStatus
<1> QED
  BY <1>2, <1>3, StatusFacts, ShutdownCommits

--------------------------------------------------------------------------------
(* Operator commands. *)

LEMMA ReadStatus ==
    ASSUME LedgerInv, StatusInv, NEW o \in Operators, NEW name \in Commands, Read(o, name)
    PROVE  StatusInv' /\ TerminalKept
<1> DEFINE q(asked) == [name |-> name, view |-> store, asked |-> asked]
<1>1. PICK asked \in Named(name) : command' = [command EXCEPT ![o] = q(asked)]
  BY DEF Read
<1>2. Applicable(name, store) /\ UNCHANGED <<store, proc>>
  BY DEF Read
<1>3. q(asked).name = name /\ q(asked).view = store
  OBVIOUS
<1>4. command' = [command EXCEPT ![o] = q(asked)]
  BY <1>1
<1>5. CommandInStatus(q(asked))
  <2> HIDE DEF q
  <2>1. name \in {"approve", "deny"} => store.task.status = "waiting"
    BY <1>2 DEF Applicable, Reconstructs, ApprovalsConsistent
  <2>2. name = "cancel" => store.task.status \notin Terminal
    BY <1>2 DEF Applicable
  <2> QED
    BY <1>3, <2>1, <2>2 DEF CommandInStatus
<1> HIDE DEF q
<1>6. DOMAIN command = Operators /\ \A p \in Operators : CommandInStatus(command[p])
  BY DEF LedgerInv, TypeInv, StatusInv
<1>7. \A p \in Operators : CommandInStatus(command'[p])
  BY <1>4, <1>5, <1>6
<1> QED
  BY <1>2, <1>7 DEF StatusInv, CompletionConfirmed, TerminalKept

LEMMA DecisionStatus ==
    ASSUME LedgerInv, StatusInv, NEW o \in Operators, NEW c, DecisionCommit(o, c)
    PROVE  StatusInv' /\ TerminalKept
<1> DEFINE view == command[o].view
<1>1. /\ Conclude(o, c) /\ Numbered(c, view.task) /\ AttemptEventsOf(c.drafts) = {}
      /\ \/ command[o].name = "cancel" /\ c.task.status = "cancelled"
         \/ command[o].name = "deny" /\ c.task.status = "blocked"
         \/ command[o].name = "approve" /\ c.task.status = view.task.status
  BY DEF DecisionCommit
<1>2. /\ store.journal \in Seq(EventRecord) /\ c.drafts \in Seq(EventRecord)
      /\ CommandInStatus(command[o])
  BY <1>1, ViewLedger DEF StatusInv, Numbered, CommitType
<1>3. ASSUME Newest(store, view.task)
      PROVE  StatusWritten(c)
  <2>1. view = store
    BY <1>1, <1>3, ViewLedger
  <2>2. CASE command[o].name = "cancel" /\ c.task.status = "cancelled"
    <3>1. store.task.status \notin Terminal
      BY <1>2, <2>1, <2>2 DEF CommandInStatus
    <3> QED
      BY <2>2, <3>1 DEF StatusWritten
  <2>3. CASE command[o].name \in {"approve", "deny"} /\ c.task.status \in {"blocked", "waiting"}
    <3>1. store.task.status = "waiting"
      BY <1>2, <2>1, <2>3 DEF CommandInStatus
    <3>2. AllClosed(store.journal)
      BY <3>1 DEF StatusInv
    <3> QED
      BY <1>1, <1>2, <2>3, <3>1, <3>2, StatusWords, QuietStatusWritten
  <2> QED
    BY <1>1, <1>2, <2>2, <2>3 DEF CommandInStatus
<1> HIDE DEF view
<1> QED
  BY <1>1, <1>3, ConcludeStatus

LEMMA ResolveStatus ==
    ASSUME LedgerInv, StatusInv, NEW o \in Operators, NEW c, ResolveCommit(o, c)
    PROVE  StatusInv' /\ TerminalKept
<1> DEFINE view == command[o].view
           id   == UnresolvedAttempt(view.journal)
<1>1. /\ command[o].name = "resolve" /\ Conclude(o, c) /\ Numbered(c, view.task)
      /\ \/ c.task.status = view.task.status
         \/ c.task.status = "blocked" /\ CanMove(view.task.status, "blocked")
      /\ Newest(store, view.task) => Resolves(store.journal, c.drafts, id)
  BY DEF ResolveCommit
<1>2. /\ store.journal \in Seq(EventRecord) /\ AttemptsInOrder(store.journal)
      /\ c.drafts \in Seq(EventRecord) /\ id # NoId
  BY <1>1, ViewLedger DEF Numbered, CommitType
<1>3. ASSUME Newest(store, view.task)
      PROVE  StatusWritten(c)
  <2>1. view = store
    BY <1>1, <1>3, ViewLedger
  <2>2. ~AllClosed(store.journal)
    BY <1>2, <2>1, OpenNotClosed
  <2>3. store.task.status \in {"running", "cancelled"}
    BY <2>2 DEF StatusInv
  <2>4. AllClosed(store.journal \o c.drafts)
    BY <1>1, <1>2, <1>3, BecomesClosed DEF Resolves
  <2>5. c.task.status = "blocked" /\ CanMove(view.task.status, "blocked") =>
            store.task.status = "running"
    BY <2>1, <2>3 DEF CanMove, Transitions
  <2> QED
    BY <1>1, <2>1, <2>3, <2>4, <2>5, StatusWords DEF StatusWritten
<1> HIDE DEF view, id
<1> QED
  BY <1>1, <1>3, ConcludeStatus

--------------------------------------------------------------------------------
(* The theorems. *)

LEMMA StatusInvInit == Init => StatusInv
<1> SUFFICES ASSUME Init PROVE StatusInv
  OBVIOUS
<1>1. /\ store.task.status = "pending" /\ \A r \in Runners : proc[r] = Idle
      /\ \A o \in Operators : command[o] = NoCommand
      /\ Idle.pc = "idle" /\ Idle.rec = NewTask /\ Idle.outer = NewTask
      /\ NewTask.status = "pending" /\ NoCommand.name = "none"
  BY DEF Init, CreatedStore, NewTask, Idle, NoCommand
<1>2. AllClosed(store.journal)
  <2> DEFINE j == store.journal
             e == Event("task_created")
  <2>1. j = <<e>> /\ e.type = "task_created"
    BY DEF Init, CreatedStore, Event
  <2> HIDE DEF j, e
  <2>2. Prepared(j) = {}
    BY <2>1 DEF Prepared
  <2> QED
    BY <2>2 DEF AllClosed, Attempts, j
<1>3. SessionInStatus(store, Idle)
  BY <1>1 DEF SessionInStatus, Watching, InFlight
<1>4. CommandInStatus(NoCommand) /\ CompletionConfirmed
  BY <1>1 DEF CommandInStatus, CompletionConfirmed
<1> QED
  BY <1>1, <1>2, <1>3, <1>4 DEF StatusInv

LEMMA StatusInvStep == LedgerInv /\ StatusInv /\ [Next]_vars => StatusInv' /\ TerminalKept
<1> SUFFICES ASSUME LedgerInv, StatusInv, [Next]_vars PROVE StatusInv' /\ TerminalKept
  OBVIOUS
<1>1. TypeInv
  BY DEF LedgerInv
<1>2. ASSUME NEW r \in Runners, Resume(r) \/ Step(r) \/ Crash(r)
      PROVE  StatusInv' /\ TerminalKept
  BY <1>1, <1>2, OpeningStatus, GateStatus, StartPendingCommit, StartWaitingCommit,
     RefreshCommit, InitializationFailureCommit, StartStatus, IterateStatus, PrepareCommit,
     StartExecutionCommit, AttemptStatusKept, ExecuteStatus, ConfirmCommit, ErrorCommit,
     ResolvingStatus, AdapterRaisesStatus, ShutdownStatus, CrashStatus
  DEF Step, Transact
<1>3. ASSUME NEW o \in Operators, Operate(o)
      PROVE  StatusInv' /\ TerminalKept
  BY <1>1, <1>3, ReadStatus, ApproveCommits, DenyCommits, CancelCommits, DecisionStatus,
     ResolveCommits, ResolveStatus DEF Operate
<1>4. CASE Drift \/ UNCHANGED vars
  BY <1>4 DEF Drift, vars, StatusInv, CompletionConfirmed, TerminalKept
<1> QED
  BY <1>2, <1>3, <1>4 DEF Next

LEMMA StatusInvariant == Spec => []StatusInv
<1>1. Init => StatusInv
  BY StatusInvInit
<1>2. LedgerInv /\ StatusInv /\ [Next]_vars => StatusInv'
  BY StatusInvStep
<1> QED
  BY <1>1, <1>2, LedgerInvariant, PTL DEF Spec

(* A terminal status is final, and nothing is written to a task that is    *)
(* completed, blocked or failed: neither by a session that read it before, *)
(* nor by a stale operator command, nor by a shutdown or a recovery        *)
(* (engine.py:173, execution.py:195).  Only the attempt a cancellation left *)
(* open may still be resolved.                                             *)
THEOREM TerminalFinal == Spec => TerminalIsFinal
<1>1. LedgerInv /\ StatusInv /\ [Next]_vars =>
          [/\ store.task.status \in Terminal => store'.task.status = store.task.status
           /\ store.task.status \in Terminal \ {"cancelled"} => store' = store]_vars
  BY StatusInvStep DEF TerminalKept
<1> QED
  BY <1>1, LedgerInvariant, StatusInvariant, PTL DEF Spec, TerminalIsFinal

(* A task is completed only on an observation that meets its objective,    *)
(* whatever the provider claims and whoever wrote in between: that         *)
(* observation is the journal's last, and the checkpoint's state.          *)
THEOREM CompletionOnGoal == Spec => []CompletionConfirmed
<1>1. StatusInv => CompletionConfirmed
  BY DEF StatusInv
<1> QED
  BY <1>1, StatusInvariant, PTL

================================================================================
