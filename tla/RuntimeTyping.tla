----------------------------- MODULE RuntimeTyping -----------------------------
(***************************************************************************)
(* Type correctness of the task runtime, proved for every number of        *)
(* runners and operators and every configuration, task and environment the *)
(* assumptions of RuntimeEngine admit.  Every action is shown to keep the  *)
(* strengthened invariant TypeInv and to append to the journal and nothing *)
(* else; RuntimeProofs builds on both.                                     *)
(***************************************************************************)
EXTENDS RuntimeInvariants, TLAPS, FiniteSetTheorems, SequenceTheorems

--------------------------------------------------------------------------------
(* Positions in a journal. *)

(* A nonempty set of positions has a last one. *)
LEMMA LastPosition ==
    ASSUME NEW n \in Nat, NEW K \in SUBSET (1 .. n), K # {}
    PROVE  \E k \in K : \A l \in K : l <= k
<1> DEFINE Above(k) == {l \in K : k < l}
           F == {Above(k) : k \in K}
<1>1. IsFiniteSet(K)
  <2>1. IsFiniteSet(1 .. n)
    BY FS_Interval
  <2> QED
    BY <2>1, FS_Subset
<1>2. F \subseteq FiniteSubsetsOf(K) /\ F # {}
  <2>1. F \subseteq SUBSET K
    OBVIOUS
  <2>2. FiniteSubsetsOf(K) = SUBSET K
    BY <1>1, FS_FiniteSubsetsOfFinite
  <2>3. F # {}
    OBVIOUS
  <2> HIDE DEF F
  <2> QED
    BY <2>1, <2>2, <2>3
<1>3. PICK U \in F : \A V \in F : <<V, U>> \notin StrictSubsetOrdering(K)
  <2> HIDE DEF F
  <2> QED
    BY <1>2, FS_StrictSubsetOrderingWellFounded, WFMin
<1>4. PICK k \in K : U = Above(k)
  OBVIOUS
<1>5. ASSUME NEW l \in K, l > k
      PROVE  FALSE
  <2>1. ASSUME NEW m \in K, l < m
        PROVE  k < m
    <3>1. k \in Nat /\ l \in Nat /\ m \in Nat
      OBVIOUS
    <3> QED
      BY <1>5, <2>1, <3>1
  <2>2. Above(l) \subseteq Above(k)
    BY <2>1
  <2>3. l \in Above(k) /\ l \notin Above(l)
    BY <1>5
  <2>4. <<Above(l), U>> \in StrictSubsetOrdering(K)
    BY <1>4, <2>2, <2>3 DEF StrictSubsetOrdering
  <2> QED
    BY <1>3, <2>4
<1> QED
  BY <1>5

LEMMA EventAt ==
    ASSUME NEW j \in Seq(EventRecord), NEW k \in DOMAIN j
    PROVE  /\ j[k].id \in Nat
           /\ j[k].state \in States \cup {NoVal}
<1>1. j[k] \in EventRecord
  BY LenProperties, ElementOfSeq
<1> QED
  BY <1>1 DEF EventRecord

LEMMA LatestAttemptFound ==
    ASSUME NEW j \in Seq(EventRecord), Prepared(j) # {}
    PROVE  \E k \in Prepared(j) : LatestAttempt(j) = j[k].id
<1>1. Len(j) \in Nat /\ Prepared(j) \in SUBSET (1 .. Len(j))
  BY LenProperties DEF Prepared
<1>2. \E k \in Prepared(j) : \A l \in Prepared(j) : l <= k
  BY <1>1, LastPosition
<1> QED
  BY <1>2 DEF LatestAttempt

LEMMA UnresolvedAttemptNat ==
    ASSUME NEW j \in Seq(EventRecord)
    PROVE  UnresolvedAttempt(j) \in Nat
<1>1. ASSUME NEW k \in Prepared(j)
      PROVE  j[k].id \in Nat
  BY <1>1, EventAt DEF Prepared
<1> QED
  BY <1>1, LatestAttemptFound DEF UnresolvedAttempt, LatestAttempt, NoId

LEMMA UnresolvedAttemptNamesAction ==
    ASSUME NEW j \in Seq(EventRecord), NamesActions(j), UnresolvedAttempt(j) # NoId
    PROVE  AttemptAction(j, UnresolvedAttempt(j)) \in Acts
<1>1. Prepared(j) # {} /\ UnresolvedAttempt(j) = LatestAttempt(j)
  BY DEF UnresolvedAttempt, LatestAttempt
<1>2. \E k \in Prepared(j) : j[k].id = UnresolvedAttempt(j)
  BY <1>1, LatestAttemptFound
<1>3. \A k \in Prepared(j) : j[k].act \in Acts
  BY DEF Prepared, NamesActions
<1> QED
  BY <1>2, <1>3 DEF AttemptAction

LEMMA LatestObservationType ==
    ASSUME NEW j \in Seq(EventRecord)
    PROVE  LatestObservation(j) \in States \cup {NoVal}
<1>1. Len(j) \in Nat /\ Observed(j) \in SUBSET (1 .. Len(j))
  BY LenProperties DEF Observed
<1>2. CASE Observed(j) # {}
  <2>1. \E k \in Observed(j) : \A l \in Observed(j) : l <= k
    BY <1>1, <1>2, LastPosition
  <2>2. \A k \in Observed(j) : j[k].state \in States \cup {NoVal}
    BY EventAt DEF Observed
  <2> QED
    BY <1>2, <2>1, <2>2 DEF LatestObservation
<1>3. CASE Observed(j) = {}
  BY <1>3 DEF LatestObservation
<1> QED
  BY <1>2, <1>3

--------------------------------------------------------------------------------
(* Events and commits have their types. *)

Draft(e) == e \in EventRecord /\ (e.type = "action_prepared" => e.act \in Acts)

DraftsOK(drafts) == drafts \in Seq(EventRecord) /\ NamesActions(drafts)

CommitType ==
    [ base : Nat, task : TaskRecord, drafts : Seq(EventRecord),
      create : SUBSET ApprovalRecord, update : SUBSET ApprovalRecord,
      snap : States \cup {NoVal} ]

CommitOK(c) == c \in CommitType /\ NamesActions(c.drafts)

LEMMA EventTypes ==
    /\ AttemptEvents \subseteq EventType
    /\ AttemptEvents =
           {"action_prepared", "action_execution_started", "action_execution_confirmed",
            "action_checkpoint_committed", "action_reconciliation_required",
            "action_reconciled", "action_attempt_failed"}
  BY DEF EventType, AttemptEvents, AttemptEventStatus

LEMMA TerminalStatuses ==
    ASSUME NEW status \in Terminal
    PROVE  /\ status \in Statuses /\ status # "running"
           /\ TerminalEvent[status] \in EventType /\ TerminalEvent[status] # "action_prepared"
<1>1. Terminal = {"completed", "blocked", "failed", "cancelled"}
  BY DEF Terminal, TerminalEvent
<1>2. {"completed", "blocked", "failed", "cancelled"} \subseteq Statuses
  BY DEF Statuses, Transitions
<1>3. TerminalEvent[status] # "action_prepared"
  BY <1>1 DEF TerminalEvent
<1>4. TerminalEvent[status] \in EventType
  BY DEF EventType
<1> QED
  BY <1>1, <1>2, <1>3, <1>4

LEMMA EventDraft ==
    ASSUME NEW type \in EventType, type # "action_prepared",
           NEW id \in Nat, NEW s \in States \cup {NoVal}, NEW a \in Acts \cup {NoVal}
    PROVE  /\ Draft(Event(type))
           /\ Draft([Event(type) EXCEPT !.id = id])
           /\ Draft([Event(type) EXCEPT !.id = id, !.act = a])
           /\ Draft([Event(type) EXCEPT !.state = s])
  BY DEF Draft, Event, EventRecord, NoId

LEMMA ObservationDraft ==
    ASSUME NEW s \in States
    PROVE  Draft(ObservationEvent(s))
  BY EventDraft DEF ObservationEvent, EventType

LEMMA AttemptDraft ==
    ASSUME NEW type \in AttemptEvents \ {"action_prepared"}, NEW id \in Nat,
           NEW res \in {"success", "failure", "never_started", "not_executed", "abandoned"}
    PROVE  /\ Draft(AttemptEvent(type, id))
           /\ Draft([AttemptEvent(type, id) EXCEPT !.res = res])
  BY EventTypes DEF Draft, AttemptEvent, Event, EventRecord, NoId

LEMMA PreparedDraft ==
    ASSUME NEW id \in Nat, NEW a \in Acts
    PROVE  Draft([AttemptEvent("action_prepared", id) EXCEPT !.act = a])
  BY EventTypes DEF Draft, AttemptEvent, Event, EventRecord, NoId

LEMMA DraftSequences ==
    /\ DraftsOK(<<>>)
    /\ \A e : Draft(e) => DraftsOK(<<e>>)
    /\ \A e, f : Draft(e) /\ Draft(f) => DraftsOK(<<e, f>>)
    /\ \A e, f, g : Draft(e) /\ Draft(f) /\ Draft(g) => DraftsOK(<<e, f, g>>)
  BY DEF DraftsOK, Draft, NamesActions

LEMMA DraftAppended ==
    ASSUME NEW drafts, DraftsOK(drafts), NEW e, Draft(e)
    PROVE  DraftsOK(Append(drafts, e))
<1>1. /\ Append(drafts, e) \in Seq(EventRecord)
      /\ Len(Append(drafts, e)) = Len(drafts) + 1 /\ Len(drafts) \in Nat
      /\ \A k \in 1 .. Len(drafts) : Append(drafts, e)[k] = drafts[k]
      /\ Append(drafts, e)[Len(drafts) + 1] = e
  BY AppendProperties, LenProperties DEF DraftsOK, Draft
<1>2. /\ DOMAIN Append(drafts, e) = 1 .. Len(drafts) + 1
      /\ DOMAIN drafts = 1 .. Len(drafts)
  BY <1>1, LenProperties DEF DraftsOK
<1> QED
  BY <1>1, <1>2 DEF DraftsOK, Draft, NamesActions

LEMMA DraftsJoined ==
    ASSUME NEW j, DraftsOK(j), NEW drafts, DraftsOK(drafts)
    PROVE  DraftsOK(j \o drafts) /\ Len(j \o drafts) = Len(j) + Len(drafts)
<1>1. /\ j \o drafts \in Seq(EventRecord)
      /\ Len(j \o drafts) = Len(j) + Len(drafts) /\ Len(drafts) \in Nat /\ Len(j) \in Nat
      /\ \A k \in 1 .. Len(j) + Len(drafts) :
             (j \o drafts)[k] = IF k <= Len(j) THEN j[k] ELSE drafts[k - Len(j)]
  BY ConcatProperties, LenProperties DEF DraftsOK
<1>2. /\ DOMAIN (j \o drafts) = 1 .. Len(j) + Len(drafts)
      /\ DOMAIN drafts = 1 .. Len(drafts) /\ DOMAIN j = 1 .. Len(j)
  BY <1>1, LenProperties DEF DraftsOK
<1>3. ASSUME NEW k \in 1 .. Len(j) + Len(drafts), (j \o drafts)[k].type = "action_prepared"
      PROVE  (j \o drafts)[k].act \in Acts
  <2>1. CASE k <= Len(j)
    BY <1>1, <1>2, <1>3, <2>1 DEF DraftsOK, NamesActions
  <2>2. CASE k > Len(j)
    <3>1. k - Len(j) \in DOMAIN drafts /\ (j \o drafts)[k] = drafts[k - Len(j)]
      BY <1>1, <1>2, <2>2
    <3> QED
      BY <1>3, <3>1 DEF DraftsOK, NamesActions
  <2> QED
    BY <1>1, <2>1, <2>2
<1> QED
  BY <1>1, <1>2, <1>3 DEF DraftsOK, NamesActions

LEMMA IterationCommitOK ==
    ASSUME NEW current \in TaskRecord, NEW task \in TaskRecord,
           NEW drafts, DraftsOK(drafts)
    PROVE  /\ CommitOK(IterationCommit(current, task, drafts))
           /\ IterationCommit(current, task, drafts).task.status = task.status
<1>1. Len(drafts) \in Nat
  BY LenProperties DEF DraftsOK
<1>2. current.sequence \in Nat /\ current.sequence + Len(drafts) \in Nat
  BY <1>1 DEF TaskRecord
<1>3. /\ [task EXCEPT !.sequence = current.sequence + Len(drafts)] \in TaskRecord
      /\ [task EXCEPT !.sequence = current.sequence + Len(drafts)].status = task.status
  BY <1>2 DEF TaskRecord
<1> QED
  BY <1>2, <1>3 DEF CommitOK, CommitType, DraftsOK, IterationCommit

LEMMA WithSnapshotOK ==
    ASSUME NEW c, CommitOK(c), NEW s \in States \cup {NoVal}
    PROVE  CommitOK(WithSnapshot(c, s)) /\ WithSnapshot(c, s).task = c.task
  BY DEF CommitOK, CommitType, WithSnapshot

LEMMA TerminalCommitOK ==
    ASSUME NEW current \in TaskRecord, NEW task \in TaskRecord, NEW status \in Terminal,
           NEW drafts, DraftsOK(drafts), NEW s \in States \cup {NoVal}
    PROVE  /\ CommitOK(TerminalCommit(current, task, status, drafts, s))
           /\ TerminalCommit(current, task, status, drafts, s).task.status # "running"
<1> DEFINE ended == [task EXCEPT !.status = status]
           all   == Append(drafts, Event(TerminalEvent[status]))
           c     == IterationCommit(current, ended, all)
<1>1. ended \in TaskRecord /\ ended.status = status
  BY TerminalStatuses DEF TaskRecord
<1>2. DraftsOK(all)
  <2>1. Draft(Event(TerminalEvent[status]))
    BY TerminalStatuses, EventDraft DEF NoId
  <2> QED
    BY <2>1, DraftAppended
<1>3. TerminalCommit(current, task, status, drafts, s) = WithSnapshot(c, s)
  BY DEF TerminalCommit
<1> HIDE DEF ended, all
<1>4. CommitOK(c) /\ c.task.status = status
  BY <1>1, <1>2, IterationCommitOK
<1> HIDE DEF c
<1> QED
  BY <1>3, <1>4, WithSnapshotOK, TerminalStatuses

LEMMA StoredOK ==
    ASSUME NEW s, StoreOK(s), NEW c, CommitOK(c)
    PROVE  /\ StoreOK(Stored(s, c))
           /\ Stored(s, c).journal = s.journal \o c.drafts
           /\ Len(Stored(s, c).journal) = Len(s.journal) + Len(c.drafts)
<1>1. DraftsOK(s.journal) /\ DraftsOK(c.drafts)
  BY DEF StoreOK, StoreType, CommitOK, CommitType, DraftsOK
<1>2. DraftsOK(s.journal \o c.drafts)
  BY <1>1, DraftsJoined
<1>3. {a \in s.approvals : \A u \in c.update : u.id # a.id} \cup c.create \cup c.update
          \in SUBSET ApprovalRecord
  BY DEF StoreOK, StoreType, CommitOK, CommitType
<1>4. c.task \in TaskRecord /\ c.task.sequence \in Nat /\ c.snap \in States \cup {NoVal}
  BY DEF CommitOK, CommitType, TaskRecord
<1>5. s.checkpoint \in [seq : Nat, state : States \cup {NoVal}]
  BY DEF StoreOK, StoreType
<1> QED
  BY <1>1, <1>2, <1>3, <1>4, <1>5, DraftsJoined DEF StoreOK, StoreType, Stored, DraftsOK

--------------------------------------------------------------------------------
(* Sessions. *)

Unmoved == UNCHANGED <<command, world, effects>>

(* The journal is append-only. *)
JournalGrows ==
    /\ Len(store.journal) <= Len(store'.journal)
    /\ \A k \in DOMAIN store.journal :
           k \in DOMAIN store'.journal /\ store'.journal[k] = store.journal[k]

(* What every action does: it keeps the types and only appends to the journal. *)
Advances == TypeInv' /\ JournalGrows

LEMMA JournalStays ==
    ASSUME TypeInv, UNCHANGED store
    PROVE  JournalGrows
<1>1. store.journal \in Seq(EventRecord)
  BY DEF TypeInv, StoreOK, StoreType
<1>2. Len(store.journal) \in Nat
  BY <1>1, LenProperties
<1> QED
  BY <1>2 DEF JournalGrows

LEMMA Appending ==
    ASSUME NEW j \in Seq(EventRecord), NEW drafts \in Seq(EventRecord)
    PROVE  /\ Len(j) <= Len(j \o drafts)
           /\ \A k \in DOMAIN j : k \in DOMAIN (j \o drafts) /\ (j \o drafts)[k] = j[k]
<1>1. /\ j \o drafts \in Seq(EventRecord) /\ Len(drafts) \in Nat /\ Len(j) \in Nat
      /\ Len(j \o drafts) = Len(j) + Len(drafts)
      /\ \A k \in 1 .. Len(j) + Len(drafts) :
             (j \o drafts)[k] = IF k <= Len(j) THEN j[k] ELSE drafts[k - Len(j)]
  BY ConcatProperties, LenProperties
<1>2. DOMAIN (j \o drafts) = 1 .. Len(j) + Len(drafts) /\ DOMAIN j = 1 .. Len(j)
  BY <1>1, LenProperties
<1> QED
  BY <1>1, <1>2

LEMMA JournalAppends ==
    ASSUME StoreOK(store), NEW c, CommitOK(c), store' = Stored(store, c)
    PROVE  JournalGrows
<1>1. /\ store.journal \in Seq(EventRecord) /\ c.drafts \in Seq(EventRecord)
      /\ store'.journal = store.journal \o c.drafts
  BY StoredOK DEF StoreOK, StoreType, CommitOK, CommitType
<1> QED
  BY <1>1, Appending DEF JournalGrows

LEMMA IdleOK == SessionOK(Idle)
<1>1. NewTask \in TaskRecord
  BY DEF NewTask, TaskRecord, Statuses, Transitions, NoId
<1> QED
  BY <1>1 DEF SessionOK, SessionType, Idle, NoId, Simulating, Observing, Acting

LEMMA ClosingOK ==
    ASSUME TypeInv, NEW r \in Runners,
           NEW task \in TaskRecord, NEW observation \in States \cup {NoVal}
    PROVE  SessionOK(Closing(r, task, observation)) /\ SessionOK(Abandoned(r))
<1>1. proc[r] \in SessionType
  BY DEF TypeInv
<1>2. /\ proc[r].sim \in States \cup {NoVal} /\ proc[r].outer \in TaskRecord
      /\ proc[r].outerObs \in States \cup {NoVal}
  BY <1>1 DEF SessionType
<1>3. ASSUME NEW t \in TaskRecord, NEW o \in States \cup {NoVal}
      PROVE  SessionOK(Closing(r, t, o))
  <2>1. Idle \in SessionType
    BY IdleOK DEF SessionOK
  <2>2. Closing(r, t, o) \in SessionType /\ Closing(r, t, o).pc = "closing"
    BY <1>2, <2>1 DEF Closing, SessionType
  <2> QED
    BY <2>2 DEF SessionOK, Simulating, Observing, Acting
<1> QED
  BY <1>2, <1>3 DEF Abandoned

LEMMA SubmitOK ==
    ASSUME TypeInv, NEW r \in Runners, NEW c, CommitOK(c), NEW done, SessionOK(done),
           NEW failed, SessionOK(failed), Submit(r, c, done, failed), Unmoved
    PROVE  Advances
<1>1. StoreOK(store') /\ JournalGrows
  <2>1. StoreOK(store)
    BY DEF TypeInv
  <2>2. store' = Stored(store, c) \/ store' = store
    BY DEF Submit
  <2> QED
    BY <2>1, <2>2, StoredOK, JournalAppends, JournalStays
<1>2. /\ proc' \in [Runners -> SessionType]
      /\ \A q \in Runners : SessionOK(proc'[q])
  <2>1. proc' = [proc EXCEPT ![r] = done] \/ proc' = [proc EXCEPT ![r] = failed]
    BY DEF Submit
  <2>2. done \in SessionType /\ failed \in SessionType
    BY DEF SessionOK
  <2>3. /\ proc \in [Runners -> SessionType]
        /\ \A q \in Runners : SessionOK(proc[q])
    BY DEF TypeInv
  <2> QED
    BY <2>1, <2>2, <2>3
<1> QED
  BY <1>1, <1>2 DEF Advances, TypeInv, Unmoved, CommandOK

(* A step that moves only the session of r. *)
LEMMA SessionStepOK ==
    ASSUME TypeInv, NEW r \in Runners, NEW next, SessionOK(next),
           proc' = [proc EXCEPT ![r] = next], UNCHANGED store, Unmoved
    PROVE  Advances
<1>1. next \in SessionType
  BY DEF SessionOK
<1>2. /\ proc \in [Runners -> SessionType]
      /\ \A q \in Runners : SessionOK(proc[q])
  BY DEF TypeInv
<1>3. /\ proc' \in [Runners -> SessionType]
      /\ \A q \in Runners : SessionOK(proc'[q])
  BY <1>1, <1>2
<1> QED
  BY <1>3, JournalStays DEF Advances, TypeInv, Unmoved, CommandOK

LEMMA AfterIterationOK ==
    ASSUME TypeInv, NEW r \in Runners, NEW task \in TaskRecord,
           NEW observation \in States \cup {NoVal},
           task.status = "running" =>
               observation \in States /\ (External \/ proc[r].sim \in States)
    PROVE  SessionOK(AfterIteration(r, task, observation))
<1>1. CASE task.status = "running"
  <2>1. proc[r] \in SessionType
    BY DEF TypeInv
  <2>2. /\ [Looping(r, task, observation) EXCEPT !.worked = TRUE] \in SessionType
        /\ [Looping(r, task, observation) EXCEPT !.worked = TRUE].pc = "loop"
        /\ [Looping(r, task, observation) EXCEPT !.worked = TRUE].obs = observation
        /\ [Looping(r, task, observation) EXCEPT !.worked = TRUE].sim = proc[r].sim
    BY <1>1, <2>1 DEF Looping, SessionType, NoId
  <2> QED
    BY <1>1, <2>2 DEF AfterIteration, SessionOK, Simulating, Observing, Acting
<1>2. CASE task.status # "running"
  BY <1>2, ClosingOK DEF AfterIteration
<1> QED
  BY <1>1, <1>2

LEMMA SubmitIterationOK ==
    ASSUME TypeInv, NEW r \in Runners, NEW c, CommitOK(c),
           NEW observation \in States \cup {NoVal},
           c.task.status = "running" =>
               observation \in States /\ (External \/ proc[r].sim \in States),
           SubmitIteration(r, c, observation)
    PROVE  Advances
<1>1. c.task \in TaskRecord
  BY DEF CommitOK, CommitType
<1>2. SessionOK(AfterIteration(r, c.task, observation))
  BY <1>1, AfterIterationOK
<1>3. SessionOK(Abandoned(r))
  BY <1>1, ClosingOK
<1>4. /\ Submit(r, c, AfterIteration(r, c.task, observation), Abandoned(r))
      /\ Unmoved
  BY DEF SubmitIteration, Unmoved
<1> QED
  BY <1>2, <1>3, <1>4, SubmitOK

(* An iteration that ends the task. *)
LEMMA SubmitTerminalOK ==
    ASSUME TypeInv, NEW r \in Runners, NEW current \in TaskRecord, NEW task \in TaskRecord,
           NEW status \in Terminal, NEW drafts, DraftsOK(drafts),
           NEW s \in States \cup {NoVal}, NEW observation \in States \cup {NoVal},
           SubmitIteration(r, TerminalCommit(current, task, status, drafts, s), observation)
    PROVE  Advances
<1> DEFINE c == TerminalCommit(current, task, status, drafts, s)
<1>1. CommitOK(c) /\ c.task.status # "running"
  BY TerminalCommitOK
<1>2. SubmitIteration(r, c, observation)
  OBVIOUS
<1> HIDE DEF c
<1> QED
  BY <1>1, <1>2, SubmitIterationOK

LEMMA SnapshotType ==
    ASSUME TypeInv, NEW r \in Runners, NEW observation \in States \cup {NoVal}
    PROVE  Snapshot(r, observation) \in States \cup {NoVal}
  BY DEF TypeInv, SessionType, Snapshot

LEMMA CurrentInStates ==
    ASSUME TypeInv, NEW r \in Runners, proc[r].pc \in Simulating
    PROVE  Current(r) \in States
  BY DEF TypeInv, SessionOK, Current

LEMMA LoopFacts ==
    ASSUME TypeInv, NEW r \in Runners, proc[r].pc \in Observing
    PROVE  /\ proc[r] \in SessionType /\ proc[r].rec \in TaskRecord
           /\ proc[r].obs \in States
           /\ External \/ proc[r].sim \in States
           /\ Current(r) \in States
<1>1. proc[r].pc \in Simulating
  BY DEF Observing, Simulating
<1>2. proc[r] \in SessionType /\ SessionOK(proc[r])
  BY DEF TypeInv
<1>3. External \in BOOLEAN
  BY ConfigurationAssumption
<1> QED
  BY <1>1, <1>2, <1>3, CurrentInStates DEF SessionType, SessionOK

LEMMA CountedType ==
    ASSUME NEW r, proc[r].rec \in TaskRecord
    PROVE  Counted(r) \in TaskRecord /\ Counted(r).status = proc[r].rec.status
  BY DEF Counted, TaskRecord

LEMMA WithActionType ==
    ASSUME NEW r, proc[r].rec \in TaskRecord, proc[r].obs \in States, NEW a \in Acts
    PROVE  /\ WithAction(r, a) \in TaskRecord
           /\ WithAction(r, a).status = proc[r].rec.status
<1>1. Counted(r) \in TaskRecord /\ Counted(r).status = proc[r].rec.status
  BY CountedType
<1>2. <<a, proc[r].obs>> \in Acts \X States
  OBVIOUS
<1>3. ASSUME NEW n \in Nat, NEW p \in Acts \X States
      PROVE  /\ [Counted(r) EXCEPT !.repAction = n, !.lastAction = p] \in TaskRecord
             /\ [Counted(r) EXCEPT !.repAction = n, !.lastAction = p].status
                    = proc[r].rec.status
  BY <1>1 DEF TaskRecord
<1> DEFINE n == IF Approved(r) THEN Counted(r).repAction
                ELSE IF <<a, proc[r].obs>> = proc[r].rec.lastAction
                     THEN Counted(r).repAction + 1 ELSE 1
<1>4. n \in Nat
  BY <1>1 DEF TaskRecord
<1>5. WithAction(r, a) =
          [Counted(r) EXCEPT !.repAction = n, !.lastAction = <<a, proc[r].obs>>]
  BY DEF WithAction
<1> HIDE DEF n
<1> QED
  BY <1>2, <1>3, <1>4, <1>5

LEMMA WithObservedStateType ==
    ASSUME NEW task \in TaskRecord, NEW s \in States
    PROVE  WithObservedState(task, s) \in TaskRecord
<1> DEFINE n == IF s = task.lastState THEN task.repState + 1 ELSE 1
<1>1. n \in Nat
  BY DEF TaskRecord
<1>2. WithObservedState(task, s) = [task EXCEPT !.repState = n, !.lastState = s]
  BY DEF WithObservedState
<1> HIDE DEF n
<1> QED
  BY <1>1, <1>2 DEF TaskRecord

LEMMA WithoutAuthorityType ==
    ASSUME NEW task \in TaskRecord
    PROVE  WithoutAuthority(task) \in TaskRecord
  BY DEF WithoutAuthority, TaskRecord, NoId

LEMMA NoteDraft == DraftsOK(Note)
<1>1. Draft(Event("note"))
  BY EventDraft DEF EventType, NoId
<1> QED
  BY <1>1, DraftSequences DEF Note

LEMMA SafeguardCommitOK ==
    ASSUME TypeInv, NEW r \in Runners, InLoop(r), NEW blocked \in BOOLEAN,
           NEW task \in TaskRecord, NEW drafts, DraftsOK(drafts),
           NEW s \in States \cup {NoVal}, NEW observation \in States,
           SafeguardCommit(r, blocked, task, drafts, s, observation)
    PROVE  Advances
<1>1. proc[r].rec \in TaskRecord /\ (External \/ proc[r].sim \in States)
  BY LoopFacts DEF InLoop, Observing
<1>2. Snapshot(r, observation) \in States \cup {NoVal}
  BY SnapshotType
<1>3. CASE blocked
  <2>1. SubmitIteration(r, TerminalCommit(proc[r].rec, task, "blocked", drafts,
                                          Snapshot(r, observation)), observation)
    BY <1>3 DEF SafeguardCommit
  <2>2. "blocked" \in Terminal
    BY DEF Terminal, TerminalEvent
  <2> QED
    BY <1>1, <1>2, <2>1, <2>2, SubmitTerminalOK
<1>4. CASE ~blocked
  <2> DEFINE c == IterationCommit(proc[r].rec, task, drafts)
  <2>1. SubmitIteration(r, WithSnapshot(c, s), observation)
    BY <1>4 DEF SafeguardCommit
  <2>2. CommitOK(c)
    BY <1>1, IterationCommitOK
  <2> HIDE DEF c
  <2>3. CommitOK(WithSnapshot(c, s))
    BY <2>2, WithSnapshotOK
  <2> QED
    BY <1>1, <2>1, <2>3, SubmitIterationOK
<1> QED
  BY <1>3, <1>4

--------------------------------------------------------------------------------
(* Opening a session preserves the types. *)

(* A store that can be resumed has what the session starts from. *)
LEMMA LoadedState ==
    ASSUME NEW s, StoreOK(s), Reconstructs(s), s.task.status \notin Terminal
    PROVE  \/ s.task.status = "pending"
           \/ /\ s.task.status \in {"running", "waiting"}
              /\ s.checkpoint.state \in States /\ LatestObservation(s.journal) \in States
<1>1. s.task.status \in {"pending", "running", "waiting"}
  BY DEF StoreOK, StoreType, TaskRecord, Statuses, Transitions, Terminal, TerminalEvent
<1>2. LatestObservation(s.journal) \in States \cup {NoVal}
  BY LatestObservationType DEF StoreOK, StoreType
<1>3. ASSUME s.task.status \in {"running", "waiting"}
      PROVE  LatestObservation(s.journal) # NoVal
                 /\ LatestObservation(s.journal) = s.checkpoint.state
  BY <1>3 DEF Reconstructs, CheckpointConsistent
<1> QED
  BY <1>1, <1>2, <1>3

LEMMA AtGateOK ==
    ASSUME TypeInv, NEW r \in Runners
    PROVE  SessionOK(AtGate(r))
<1>1. store.task \in TaskRecord /\ UnresolvedAttempt(store.journal) \in Nat
  BY UnresolvedAttemptNat DEF TypeInv, StoreOK, StoreType
<1>2. Idle \in SessionType /\ proc[r].sim \in States \cup {NoVal}
  BY IdleOK DEF SessionOK, TypeInv, SessionType
<1>3. AtGate(r) \in SessionType /\ AtGate(r).pc = "gate"
  BY <1>1, <1>2 DEF AtGate, SessionType
<1> QED
  BY <1>3 DEF SessionOK, Simulating, Observing, Acting

(* A store that can be run on gives the adapter a state. *)
LEMMA WithAdapterOK ==
    ASSUME TypeInv, NEW r \in Runners, Reconstructs(store), Runnable(store)
    PROVE  SessionOK(WithAdapter(r))
<1> DEFINE sim == IF External THEN NoVal
                  ELSE IF proc[r].sim # NoVal THEN proc[r].sim
                  ELSE IF store.task.status = "pending" THEN FirstState
                  ELSE store.checkpoint.state
           opened == [Idle EXCEPT !.pc = "opened", !.sim = sim]
<1>1. StoreOK(store) /\ store.task.status \notin Terminal /\ proc[r].sim \in States \cup {NoVal}
  BY DEF TypeInv, SessionType, Runnable
<1>2. sim \in States \cup {NoVal} /\ (~External => sim \in States)
  BY <1>1, LoadedState, TaskAssumption
<1>3. Idle \in SessionType
  BY IdleOK DEF SessionOK
<1>4. WithAdapter(r) = opened
  BY DEF WithAdapter
<1> HIDE DEF sim
<1>5. opened \in SessionType /\ opened.pc = "opened" /\ opened.sim = sim
  BY <1>2, <1>3 DEF SessionType
<1> HIDE DEF opened
<1> QED
  BY <1>2, <1>4, <1>5 DEF SessionOK, Simulating, Observing, Acting

LEMMA ResumeOK ==
    ASSUME TypeInv, NEW r \in Runners, Resume(r)
    PROVE  Advances
<1>1. UNCHANGED store /\ Unmoved /\ Reconstructs(store)
  BY DEF Resume, Unmoved
<1>2. CASE proc' = [proc EXCEPT ![r] = AtGate(r)]
  BY <1>1, <1>2, AtGateOK, SessionStepOK
<1>3. CASE Runnable(store) /\ proc' = [proc EXCEPT ![r] = WithAdapter(r)]
  BY <1>1, <1>3, WithAdapterOK, SessionStepOK
<1> QED
  BY <1>2, <1>3 DEF Resume

LEMMA ReopenOK ==
    ASSUME TypeInv, NEW r \in Runners, Reopen(r)
    PROVE  Advances
<1>1. UNCHANGED store /\ Unmoved
  BY DEF Reopen, Unmoved
<1>2. CASE proc' = [proc EXCEPT ![r] = Idle]
  BY <1>1, <1>2, IdleOK, SessionStepOK
<1>3. CASE /\ Reconstructs(store) /\ Runnable(store)
           /\ proc' = [proc EXCEPT ![r] = WithAdapter(r)]
  BY <1>1, <1>3, WithAdapterOK, SessionStepOK
<1> QED
  BY <1>2, <1>3 DEF Reopen

LEMMA GateOK ==
    ASSUME TypeInv, NEW r \in Runners, Gate(r)
    PROVE  Advances
<1> DEFINE rec    == proc[r].rec
           id     == proc[r].att
           status == StatusBefore(store.journal, rec.sequence + 1, id)
           event  == IF NeverStarted(status)
                     THEN [AttemptEvent("action_reconciled", id) EXCEPT !.res = "never_started"]
                     ELSE AttemptEvent("action_reconciliation_required", id)
           c      == IterationCommit(rec, rec, <<event>>)
           passed == [Idle EXCEPT !.pc = "gated", !.sim = proc[r].sim]
<1>1. rec \in TaskRecord /\ id \in Nat
  BY DEF TypeInv, SessionType
<1>2. CommitOK(c)
  <2>1. Draft(event)
    <3>1. {"action_reconciled", "action_reconciliation_required"}
              \subseteq AttemptEvents \ {"action_prepared"}
      BY EventTypes
    <3> HIDE DEF id, status
    <3> QED
      BY <1>1, <3>1, AttemptDraft
  <2> HIDE DEF event, rec
  <2>2. DraftsOK(<<event>>)
    BY <2>1, DraftSequences
  <2> QED
    BY <1>1, <2>2, IterationCommitOK
<1>3. \/ proc' = [proc EXCEPT ![r] = Idle] /\ UNCHANGED store
      \/ Submit(r, c, Idle, Idle)
      \/ Submit(r, c, passed, Idle)
  BY DEF Gate
<1>4. Unmoved
  BY DEF Gate, Unmoved
<1>5. SessionOK(passed)
  <2>1. Idle \in SessionType /\ proc[r].sim \in States \cup {NoVal}
    BY IdleOK DEF SessionOK, TypeInv, SessionType
  <2>2. passed \in SessionType /\ passed.pc = "gated"
    BY <2>1 DEF SessionType
  <2> HIDE DEF passed
  <2> QED
    BY <2>2 DEF SessionOK, Simulating, Observing, Acting
<1> HIDE DEF c, passed
<1> QED
  BY <1>2, <1>3, <1>4, <1>5, IdleOK, SubmitOK, SessionStepOK

LEMMA EnterOK ==
    ASSUME TypeInv, NEW r \in Runners, Enter(r)
    PROVE  Advances
<1> DEFINE task     == store.task
           observed == LatestObservation(store.journal)
           pc       == IF task.status # "running" THEN "start"
                       ELSE IF External THEN "refresh" ELSE "loop"
           open     == [proc[r] EXCEPT !.pc = pc, !.rec = task, !.obs = observed,
                                       !.outer = task, !.outerObs = observed]
<1>1. UNCHANGED store /\ Unmoved
  BY DEF Enter, Unmoved
<1>2. \/ proc' = [proc EXCEPT ![r] = Idle]
      \/ proc' = [proc EXCEPT ![r] = AtGate(r)]
      \/ /\ Reconstructs(store) /\ Runnable(store)
         /\ proc' = [proc EXCEPT ![r] = open]
  BY DEF Enter
<1>3. ASSUME Reconstructs(store), Runnable(store)
      PROVE  SessionOK(open)
  <2>1. StoreOK(store) /\ task \in TaskRecord /\ task.status \notin Terminal
    BY <1>3 DEF TypeInv, StoreOK, StoreType, Runnable
  <2>2. observed \in States \cup {NoVal}
    BY LatestObservationType DEF TypeInv, StoreOK, StoreType
  <2>3. \/ task.status = "pending"
        \/ task.status \in {"running", "waiting"} /\ observed \in States
    BY <1>3, <2>1, LoadedState
  <2>4. proc[r] \in SessionType /\ SessionOK(proc[r]) /\ proc[r].pc = "opened"
    BY DEF TypeInv, Enter
  <2>5. pc \in {"start", "refresh", "loop"} /\ (pc = "start" <=> task.status # "running")
    OBVIOUS
  <2>8. pc = "refresh" => External
    OBVIOUS
  <2>6. ~External => proc[r].sim \in States
    BY <2>4 DEF SessionOK, Simulating
  <2> HIDE DEF task, observed, pc
  <2>7. /\ open \in SessionType /\ open.pc = pc /\ open.rec = task
        /\ open.obs = observed /\ open.sim = proc[r].sim
    BY <2>1, <2>2, <2>4, <2>5 DEF SessionType
  <2> HIDE DEF open
  <2> QED
    BY <2>3, <2>5, <2>6, <2>7, <2>8 DEF SessionOK, Simulating, Observing, Acting
<1> HIDE DEF open
<1> QED
  BY <1>1, <1>2, <1>3, IdleOK, AtGateOK, SessionStepOK

LEMMA OpenedOK ==
    ASSUME TypeInv, NEW r \in Runners, NEW pc \in {"loop", "refresh"},
           NEW task \in TaskRecord, NEW observation \in States,
           pc = "loop" => External \/ proc[r].sim \in States,
           pc = "refresh" => External
    PROVE  SessionOK(Opened(r, pc, task, observation))
<1>1. proc[r] \in SessionType
  BY DEF TypeInv
<1>2. /\ Opened(r, pc, task, observation) \in SessionType
      /\ Opened(r, pc, task, observation).pc = pc
      /\ Opened(r, pc, task, observation).obs = observation
      /\ Opened(r, pc, task, observation).sim = proc[r].sim
  BY <1>1 DEF Opened, SessionType
<1> QED
  BY <1>2 DEF SessionOK, Simulating, Observing, Acting

LEMMA StartFacts ==
    ASSUME TypeInv, NEW r \in Runners, proc[r].pc \in {"start", "refresh"}
    PROVE  /\ proc[r].rec \in TaskRecord /\ proc[r].outerObs \in States \cup {NoVal}
           /\ proc[r].pc = "start" => (External \/ proc[r].sim \in States)
           /\ proc[r].pc = "start" /\ proc[r].rec.status = "waiting" => proc[r].obs \in States
  BY ConfigurationAssumption DEF TypeInv, SessionType, SessionOK, Simulating

LEMMA StartPendingOK ==
    ASSUME TypeInv, NEW r \in Runners, StartPending(r)
    PROVE  Advances
<1> DEFINE observed == Current(r)
           rec      == proc[r].rec
           running  == [rec EXCEPT !.status = "running"]
           drafts   == <<Event("task_started"), ObservationEvent(observed)>>
           c        == WithSnapshot(IterationCommit(rec, running, drafts), Snapshot(r, observed))
<1>1. proc[r].pc = "start" /\ Unmoved
  BY DEF StartPending, Unmoved
<1>2. rec \in TaskRecord /\ (External \/ proc[r].sim \in States)
  BY <1>1, StartFacts
<1>3. observed \in States
  BY <1>1, CurrentInStates DEF Simulating
<1>4. CommitOK(c)
  <2>1. running \in TaskRecord
    BY <1>2 DEF TaskRecord, Statuses, Transitions
  <2>2. Draft(Event("task_started"))
    BY EventDraft DEF EventType, NoId
  <2>3. Draft(ObservationEvent(observed))
    BY <1>3, ObservationDraft
  <2>4. DraftsOK(drafts)
    BY <2>2, <2>3, DraftSequences
  <2>5. Snapshot(r, observed) \in States \cup {NoVal}
    BY <1>3, SnapshotType
  <2> HIDE DEF rec, running, drafts
  <2> QED
    BY <1>2, <2>1, <2>4, <2>5, IterationCommitOK, WithSnapshotOK
<1>5. Submit(r, c, Opened(r, "loop", c.task, observed), Closing(r, rec, observed))
  BY DEF StartPending
<1>6. SessionOK(Opened(r, "loop", c.task, observed))
  <2>1. c.task \in TaskRecord
    BY <1>4 DEF CommitOK, CommitType
  <2> HIDE DEF c, observed
  <2> QED
    BY <1>2, <1>3, <2>1, OpenedOK
<1>7. SessionOK(Closing(r, rec, observed))
  BY <1>2, <1>3, ClosingOK
<1> HIDE DEF c, observed, rec
<1> QED
  BY <1>1, <1>4, <1>5, <1>6, <1>7, SubmitOK

LEMMA StartWaitingOK ==
    ASSUME TypeInv, NEW r \in Runners, StartWaiting(r)
    PROVE  Advances
<1> DEFINE rec     == proc[r].rec
           running == [rec EXCEPT !.status = "running"]
           c       == IterationCommit(rec, running, <<Event("task_started")>>)
           pc      == IF External THEN "refresh" ELSE "loop"
<1>1. proc[r].pc = "start" /\ rec.status = "waiting" /\ Unmoved
  BY DEF StartWaiting, Unmoved
<1>2. /\ rec \in TaskRecord /\ (External \/ proc[r].sim \in States)
      /\ proc[r].obs \in States
  BY <1>1, StartFacts
<1>3. CommitOK(c)
  <2>1. running \in TaskRecord
    BY <1>2 DEF TaskRecord, Statuses, Transitions
  <2>2. Draft(Event("task_started"))
    BY EventDraft DEF EventType, NoId
  <2>3. DraftsOK(<<Event("task_started")>>)
    BY <2>2, DraftSequences
  <2> HIDE DEF rec, running
  <2> QED
    BY <1>2, <2>1, <2>3, IterationCommitOK
<1>4. Submit(r, c, Opened(r, pc, c.task, proc[r].obs), Abandoned(r))
  BY DEF StartWaiting
<1>5. SessionOK(Opened(r, pc, c.task, proc[r].obs))
  <2>1. c.task \in TaskRecord
    BY <1>3 DEF CommitOK, CommitType
  <2>2. pc \in {"loop", "refresh"} /\ (pc = "refresh" => External)
    OBVIOUS
  <2> HIDE DEF c, pc
  <2> QED
    BY <1>2, <2>1, <2>2, OpenedOK
<1>6. SessionOK(Abandoned(r))
  BY <1>2, ClosingOK
<1> HIDE DEF c, pc
<1> QED
  BY <1>1, <1>3, <1>4, <1>5, <1>6, SubmitOK

LEMMA RefreshOK ==
    ASSUME TypeInv, NEW r \in Runners, Refresh(r)
    PROVE  Advances
<1> DEFINE rec    == proc[r].rec
           drafts == <<ObservationEvent(world)>>
           c      == WithSnapshot(IterationCommit(rec, rec, drafts), Snapshot(r, world))
<1>1. proc[r].pc = "refresh" /\ External /\ Unmoved
  BY DEF Refresh, Unmoved, TypeInv, SessionOK
<1>2. rec \in TaskRecord /\ world \in States
  BY <1>1, StartFacts DEF TypeInv
<1>3. CommitOK(c)
  <2>1. DraftsOK(drafts)
    BY <1>2, ObservationDraft, DraftSequences
  <2>2. Snapshot(r, world) \in States \cup {NoVal}
    BY <1>2, SnapshotType
  <2> HIDE DEF rec, drafts
  <2> QED
    BY <1>2, <2>1, <2>2, IterationCommitOK, WithSnapshotOK
<1>4. Submit(r, c, Opened(r, "loop", c.task, world), Closing(r, rec, world))
  BY DEF Refresh
<1>5. SessionOK(Opened(r, "loop", c.task, world))
  <2>1. c.task \in TaskRecord
    BY <1>3 DEF CommitOK, CommitType
  <2> HIDE DEF c
  <2> QED
    BY <1>1, <1>2, <2>1, OpenedOK
<1>6. SessionOK(Closing(r, rec, world))
  BY <1>2, ClosingOK
<1> HIDE DEF c, rec
<1> QED
  BY <1>1, <1>3, <1>4, <1>5, <1>6, SubmitOK

LEMMA InitializationFailureOK ==
    ASSUME TypeInv, NEW r \in Runners, InitializationFailure(r)
    PROVE  Advances
<1> DEFINE rec    == proc[r].rec
           prefix == IF rec.status = "pending" THEN <<Event("task_started")>> ELSE <<>>
           c      == TerminalCommit(rec, rec, "failed", prefix, NoVal)
<1>1. proc[r].pc \in {"start", "refresh"} /\ Unmoved
  BY DEF InitializationFailure, Unmoved
<1>2. rec \in TaskRecord /\ proc[r].outerObs \in States \cup {NoVal}
  BY <1>1, StartFacts
<1>3. CommitOK(c)
  <2>1. Draft(Event("task_started"))
    BY EventDraft DEF EventType, NoId
  <2>2. DraftsOK(prefix)
    BY <2>1, DraftSequences
  <2>3. "failed" \in Terminal
    BY DEF Terminal, TerminalEvent
  <2> HIDE DEF rec, prefix
  <2> QED
    BY <1>2, <2>2, <2>3, TerminalCommitOK
<1>4. Submit(r, c, Closing(r, c.task, proc[r].outerObs), Abandoned(r))
  BY DEF InitializationFailure
<1>5. c.task \in TaskRecord
  BY <1>3 DEF CommitOK, CommitType
<1> HIDE DEF c
<1>6. SessionOK(Closing(r, c.task, proc[r].outerObs)) /\ SessionOK(Abandoned(r))
  BY <1>2, <1>5, ClosingOK
<1> QED
  BY <1>1, <1>3, <1>4, <1>6, SubmitOK

--------------------------------------------------------------------------------
(* One iteration up to its decision preserves the types. *)

LEMMA YieldOK ==
    ASSUME TypeInv, NEW r \in Runners, Yield(r)
    PROVE  Advances
<1>1. proc[r].rec \in TaskRecord /\ proc[r].obs \in States
  BY LoopFacts DEF Yield, InLoop, Observing
<1>2. SessionOK(Closing(r, proc[r].rec, proc[r].obs))
  BY <1>1, ClosingOK
<1> QED
  BY <1>2, SessionStepOK DEF Yield, Unmoved

LEMMA TerminalWords ==
    /\ "completed" \in Terminal /\ "blocked" \in Terminal
    /\ "failed" \in Terminal /\ "cancelled" \in Terminal
    /\ \A status \in {"pending", "running", "waiting"} : status \notin Terminal
  BY DEF Terminal, TerminalEvent

LEMMA CancelSeenOK ==
    ASSUME TypeInv, NEW r \in Runners, CancelSeen(r)
    PROVE  Advances
<1> DEFINE rec  == proc[r].rec
           task == [rec EXCEPT !.cancelRequested = TRUE]
<1>1. rec \in TaskRecord /\ proc[r].obs \in States
  BY LoopFacts DEF CancelSeen, InLoop, Observing
<1>2. task \in TaskRecord
  BY <1>1 DEF TaskRecord
<1>3. Snapshot(r, proc[r].obs) \in States \cup {NoVal}
  BY <1>1, SnapshotType
<1>4. SubmitIteration(r, TerminalCommit(rec, task, "cancelled", <<>>, Snapshot(r, proc[r].obs)),
                      proc[r].obs)
  BY DEF CancelSeen
<1> HIDE DEF rec, task
<1> QED
  BY <1>1, <1>2, <1>3, <1>4, TerminalWords, DraftSequences, SubmitTerminalOK

LEMMA IterationLimitOK ==
    ASSUME TypeInv, NEW r \in Runners, IterationLimit(r)
    PROVE  Advances
<1>1. proc[r].rec \in TaskRecord /\ proc[r].obs \in States
  BY LoopFacts DEF IterationLimit, InLoop, Observing
<1>2. Snapshot(r, proc[r].obs) \in States \cup {NoVal}
  BY <1>1, SnapshotType
<1>3. SubmitIteration(r, TerminalCommit(proc[r].rec, proc[r].rec, "blocked", Note,
                                        Snapshot(r, proc[r].obs)), proc[r].obs)
  BY DEF IterationLimit
<1> QED
  BY <1>1, <1>2, <1>3, TerminalWords, NoteDraft, SubmitTerminalOK

LEMMA IteratingFacts ==
    ASSUME TypeInv, NEW r \in Runners, Iterating(r)
    PROVE  /\ InLoop(r) /\ proc[r].rec \in TaskRecord /\ proc[r].obs \in States
           /\ External \/ proc[r].sim \in States
           /\ Counted(r) \in TaskRecord
           /\ Snapshot(r, proc[r].obs) \in States \cup {NoVal}
  BY LoopFacts, CountedType, SnapshotType DEF Iterating, InLoop, Observing

LEMMA EvaluatedOK ==
    ASSUME TypeInv, NEW r \in Runners, Evaluated(r)
    PROVE  Advances
<1> DEFINE status == IF proc[r].obs \in Goal THEN "completed" ELSE "blocked"
<1>1. status \in Terminal
  BY TerminalWords
<1>2. SubmitIteration(r, TerminalCommit(proc[r].rec, Counted(r), status, Note,
                                        Snapshot(r, proc[r].obs)), proc[r].obs)
  BY DEF Evaluated
<1> HIDE DEF status
<1> QED
  BY <1>1, <1>2, IteratingFacts, NoteDraft, SubmitTerminalOK DEF Evaluated

LEMMA ProviderStopsOK ==
    ASSUME TypeInv, NEW r \in Runners, ProviderStops(r)
    PROVE  Advances
<1>1. PICK status \in ProviderStopStatuses :
          SubmitIteration(r, TerminalCommit(proc[r].rec, Counted(r), status, Note,
                                            Snapshot(r, proc[r].obs)), proc[r].obs)
  BY DEF ProviderStops
<1>2. status \in Terminal
  BY TerminalWords DEF ProviderStopStatuses
<1>3. Iterating(r)
  BY DEF ProviderStops, Deciding, Undecided
<1> QED
  BY <1>1, <1>2, <1>3, IteratingFacts, NoteDraft, SubmitTerminalOK

LEMMA FalseCompletionOK ==
    ASSUME TypeInv, NEW r \in Runners, FalseCompletion(r)
    PROVE  Advances
<1> DEFINE task    == [Counted(r) EXCEPT !.failures = @ + 1]
           blocked == BlockOnFalseCompletion \/ task.failures >= MaxConsecutiveFailures
<1>1. Iterating(r)
  BY DEF FalseCompletion, Deciding, Undecided
<1>2. task \in TaskRecord
  BY <1>1, IteratingFacts DEF TaskRecord
<1>3. blocked \in BOOLEAN
  OBVIOUS
<1>4. SafeguardCommit(r, blocked, task, Note, NoVal, proc[r].obs)
  BY DEF FalseCompletion
<1> HIDE DEF task, blocked
<1> QED
  BY <1>1, <1>2, <1>3, <1>4, IteratingFacts, NoteDraft, SafeguardCommitOK

LEMMA WaitOK ==
    ASSUME TypeInv, NEW r \in Runners, Wait(r)
    PROVE  Advances
<1> DEFINE observed == IF External THEN world ELSE proc[r].obs
           task     == WithObservedState(Counted(r), observed)
           blocked  == task.repState >= RepeatedStateLimit
           drafts   == IF External THEN <<ObservationEvent(observed)>> ELSE Note
           s        == IF External THEN observed ELSE NoVal
<1>1. Iterating(r)
  BY DEF Wait, Deciding, Undecided
<1>2. observed \in States
  BY <1>1, IteratingFacts DEF TypeInv
<1>3. SafeguardCommit(r, blocked, task, drafts, s, observed)
  BY DEF Wait
<1> HIDE DEF observed
<1>4. task \in TaskRecord
  BY <1>1, <1>2, IteratingFacts, WithObservedStateType
<1>5. DraftsOK(drafts)
  BY <1>2, ObservationDraft, DraftSequences, NoteDraft
<1>6. s \in States \cup {NoVal} /\ blocked \in BOOLEAN
  BY <1>2
<1> HIDE DEF task, blocked, drafts, s
<1> QED
  BY <1>1, <1>2, <1>3, <1>4, <1>5, <1>6, IteratingFacts, SafeguardCommitOK

LEMMA ChosenType ==
    ASSUME NEW r, proc[r].rec \in TaskRecord
    PROVE  Chosen(r) \subseteq Acts
  BY DEF Chosen, Approved, TaskRecord

LEMMA RepeatedActionOK ==
    ASSUME TypeInv, NEW r \in Runners, RepeatedAction(r)
    PROVE  Advances
<1>1. PICK a \in Chosen(r) :
          SafeguardCommit(r, TRUE, WithAction(r, a), Note, NoVal, proc[r].obs)
  BY DEF RepeatedAction
<1>2. Iterating(r)
  BY DEF RepeatedAction, Undecided
<1>3. a \in Acts
  BY <1>1, <1>2, IteratingFacts, ChosenType
<1>4. WithAction(r, a) \in TaskRecord
  BY <1>2, <1>3, IteratingFacts, WithActionType
<1> QED
  BY <1>1, <1>2, <1>4, IteratingFacts, NoteDraft, SafeguardCommitOK

LEMMA RejectActionOK ==
    ASSUME TypeInv, NEW r \in Runners, RejectAction(r)
    PROVE  Advances
<1> DEFINE task(a)     == [WithAction(r, a) EXCEPT !.failures = @ + 1]
           blocked(a)  == task(a).failures >= MaxConsecutiveFailures
           observed(v) == IF v = "stale" THEN world ELSE proc[r].obs
           drafts(v)   == IF v = "stale" THEN <<ObservationEvent(observed(v))>> ELSE Note
           s(v)        == IF v = "stale" THEN observed(v) ELSE NoVal
<1>1. PICK a \in Chosen(r) : \E v \in Validations(r, a) :
          SafeguardCommit(r, blocked(a), task(a), drafts(v), s(v), observed(v))
  BY DEF RejectAction
<1>v. PICK v \in Validations(r, a) :
          SafeguardCommit(r, blocked(a), task(a), drafts(v), s(v), observed(v))
  BY <1>1
<1>2. Iterating(r)
  BY DEF RejectAction, Undecided
<1>3. a \in Acts
  BY <1>2, IteratingFacts, ChosenType
<1>4. task(a) \in TaskRecord /\ blocked(a) \in BOOLEAN
  <2>1. WithAction(r, a) \in TaskRecord
    BY <1>2, <1>3, IteratingFacts, WithActionType
  <2> QED
    BY <2>1 DEF TaskRecord
<1>5. observed(v) \in States
  BY <1>2, IteratingFacts DEF TypeInv
<1> HIDE DEF observed
<1>6. DraftsOK(drafts(v)) /\ s(v) \in States \cup {NoVal}
  BY <1>5, ObservationDraft, DraftSequences, NoteDraft
<1> HIDE DEF task, blocked, drafts, s
<1> QED
  BY <1>v, <1>2, <1>4, <1>5, <1>6, IteratingFacts, SafeguardCommitOK

LEMMA RequestApprovalOK ==
    ASSUME TypeInv, NEW r \in Runners, RequestApproval(r)
    PROVE  Advances
<1> DEFINE rec     == proc[r].rec
           id      == rec.sequence + 1
           task(a) == [WithAction(r, a) EXCEPT !.status = "waiting"]
           e(a)    == [Event("approval_requested") EXCEPT !.id = id, !.act = a]
           b(a)    == IterationCommit(rec, task(a), <<e(a)>>)
           c(a)    == [b(a) EXCEPT !.create = {[id |-> id, act |-> a, status |-> "pending"]}]
<1>1. PICK a \in Chosen(r) : MayExecute(r, a) /\ SubmitIteration(r, c(a), proc[r].obs)
  BY DEF RequestApproval
<1>2. Iterating(r)
  BY <1>1 DEF MayExecute, Undecided
<1>3. a \in Acts /\ rec \in TaskRecord /\ id \in Nat
  BY <1>2, IteratingFacts, ChosenType DEF TaskRecord
<1>4. task(a) \in TaskRecord
  <2>1. WithAction(r, a) \in TaskRecord
    BY <1>2, <1>3, IteratingFacts, WithActionType
  <2> QED
    BY <2>1 DEF TaskRecord, Statuses, Transitions
<1>5. DraftsOK(<<e(a)>>)
  <2>1. Draft(e(a))
    BY <1>3, EventDraft DEF EventType
  <2> HIDE DEF e
  <2> QED
    BY <2>1, DraftSequences
<1>6. CommitOK(b(a))
  <2> HIDE DEF task, e, rec
  <2> QED
    BY <1>3, <1>4, <1>5, IterationCommitOK
<1>7. CommitOK(c(a))
  <2>1. [id |-> id, act |-> a, status |-> "pending"] \in ApprovalRecord
    BY <1>3 DEF ApprovalRecord
  <2> HIDE DEF b, id
  <2> QED
    BY <1>6, <2>1 DEF CommitOK, CommitType
<1> HIDE DEF c
<1> QED
  BY <1>1, <1>2, <1>7, IteratingFacts, SubmitIterationOK

LEMMA IterateOK ==
    ASSUME TypeInv, NEW r \in Runners, Iterate(r)
    PROVE  Advances
  BY YieldOK, CancelSeenOK, IterationLimitOK, EvaluatedOK, ProviderStopsOK,
     FalseCompletionOK, WaitOK, RepeatedActionOK, RejectActionOK, RequestApprovalOK
  DEF Iterate

--------------------------------------------------------------------------------
(* The action transaction and the failure paths preserve the types. *)

LEMMA PrepareOK ==
    ASSUME TypeInv, NEW r \in Runners, Prepare(r)
    PROVE  Advances
<1> DEFINE rec     == proc[r].rec
           id      == rec.sequence + 1
           e(a)    == [AttemptEvent("action_prepared", id) EXCEPT !.act = a]
           c(a)    == IterationCommit(rec, WithAction(r, a), <<e(a)>>)
           next(a) == [proc[r] EXCEPT !.pc = "prepared", !.rec = c(a).task, !.act = a,
                                      !.att = id, !.auth = rec.approvedId]
<1>1. PICK a \in Chosen(r) : MayExecute(r, a) /\ Submit(r, c(a), next(a), Abandoned(r))
  BY DEF Prepare
<1>2. Iterating(r) /\ Unmoved
  BY <1>1 DEF MayExecute, Undecided, Prepare, Unmoved
<1>3. a \in Acts /\ rec \in TaskRecord /\ id \in Nat /\ rec.approvedId \in Nat
  BY <1>2, IteratingFacts, ChosenType DEF TaskRecord
<1>4. CommitOK(c(a))
  <2>1. WithAction(r, a) \in TaskRecord
    BY <1>2, <1>3, IteratingFacts, WithActionType
  <2>2. Draft(e(a))
    BY <1>3, PreparedDraft
  <2>3. DraftsOK(<<e(a)>>)
    <3> HIDE DEF e
    <3> QED
      BY <2>2, DraftSequences
  <2> HIDE DEF e, rec
  <2> QED
    BY <1>3, <2>1, <2>3, IterationCommitOK
<1>5. SessionOK(next(a))
  <2>1. c(a).task \in TaskRecord
    BY <1>4 DEF CommitOK, CommitType
  <2>2. proc[r] \in SessionType
    BY DEF TypeInv
  <2> HIDE DEF c, id
  <2>3. /\ next(a) \in SessionType /\ next(a).pc = "prepared" /\ next(a).act = a
        /\ next(a).obs = proc[r].obs /\ next(a).sim = proc[r].sim
    BY <1>3, <2>1, <2>2 DEF SessionType
  <2> HIDE DEF next
  <2> QED
    BY <1>2, <1>3, <2>3, IteratingFacts DEF SessionOK, Simulating, Observing, Acting
<1>6. SessionOK(Abandoned(r))
  BY <1>3, ClosingOK
<1> HIDE DEF c, next
<1> QED
  BY <1>1, <1>2, <1>4, <1>5, <1>6, SubmitOK

LEMMA StartExecutionOK ==
    ASSUME TypeInv, NEW r \in Runners, StartExecution(r)
    PROVE  Advances
<1> DEFINE rec  == proc[r].rec
           e    == AttemptEvent("action_execution_started", proc[r].att)
           c    == IterationCommit(rec, rec, <<e>>)
           next == [proc[r] EXCEPT !.pc = "started", !.rec = c.task]
<1>1. /\ proc[r].pc = "prepared" /\ Unmoved
      /\ Submit(r, c, next, Abandoned(r))
  BY DEF StartExecution, Unmoved
<1>2. /\ proc[r] \in SessionType /\ SessionOK(proc[r])
      /\ rec \in TaskRecord /\ proc[r].att \in Nat /\ proc[r].outerObs \in States \cup {NoVal}
  BY DEF TypeInv, SessionType
<1>3. CommitOK(c)
  <2>1. Draft(e)
    BY <1>2, EventTypes, AttemptDraft
  <2> HIDE DEF e, rec
  <2> QED
    BY <1>2, <2>1, DraftSequences, IterationCommitOK
<1>4. SessionOK(next)
  <2>1. c.task \in TaskRecord
    BY <1>3 DEF CommitOK, CommitType
  <2> HIDE DEF c
  <2>2. /\ next \in SessionType /\ next.pc = "started" /\ next.act = proc[r].act
        /\ next.obs = proc[r].obs /\ next.sim = proc[r].sim
    BY <1>2, <2>1 DEF SessionType
  <2> HIDE DEF next
  <2> QED
    BY <1>1, <1>2, <2>2 DEF SessionOK, Simulating, Observing, Acting
<1>5. SessionOK(Abandoned(r))
  BY <1>2, ClosingOK
<1> HIDE DEF c, next
<1> QED
  BY <1>1, <1>3, <1>4, <1>5, SubmitOK

(* What the adapter does keeps the world, the history and the simulation typed. *)
LEMMA ExecuteOK ==
    ASSUME TypeInv, NEW r \in Runners, Execute(r)
    PROVE  Advances
<1>1. /\ proc[r].pc = "started" /\ UNCHANGED <<store, command>>
      /\ proc[r] \in SessionType /\ SessionOK(proc[r])
  BY DEF Execute, TypeInv
<1>2. /\ proc[r].act \in Acts /\ proc[r].obs \in States /\ proc[r].att \in Nat
      /\ proc[r].auth \in Nat /\ (~External => proc[r].sim \in States)
  BY <1>1 DEF SessionOK, SessionType, Simulating, Observing, Acting
<1>3. \A s \in States : Effect[proc[r].act][s] \in States
  BY <1>2, TaskAssumption
<1>4. world \in States /\ effects \in Seq(EffectRecord)
  BY DEF TypeInv
<1>5. world' \in States /\ effects' \in Seq(EffectRecord)
  <2>1. CASE Apply(r)
    <3>1. [att |-> proc[r].att, act |-> proc[r].act, auth |-> proc[r].auth, seen |-> proc[r].obs]
              \in EffectRecord
      BY <1>2 DEF EffectRecord
    <3>2. effects' \in Seq(EffectRecord)
      BY <1>4, <2>1, <3>1, AppendProperties DEF Apply
    <3>3. world' \in States
      BY <1>3, <1>4, <2>1 DEF Apply
    <3> QED
      BY <3>2, <3>3
  <2>2. CASE UNCHANGED <<world, effects>>
    BY <1>4, <2>2
  <2> QED
    BY <2>1, <2>2 DEF Execute
<1> DEFINE pc(answer)   == IF answer = "raised" THEN "error" ELSE "executed"
           sim          == IF External THEN proc[r].sim ELSE Effect[proc[r].act][proc[r].sim]
           next(answer) == [proc[r] EXCEPT !.pc = pc(answer), !.success = (answer = "success"),
                                           !.sim = sim]
<1>6. PICK answer : proc' = [proc EXCEPT ![r] = next(answer)]
  BY DEF Execute
<1>7. SessionOK(next(answer))
  <2>1. sim \in States \cup {NoVal} /\ (~External => sim \in States)
    BY <1>1, <1>2, <1>3 DEF SessionType
  <2>2. pc(answer) \in {"error", "executed"} /\ (answer = "success") \in BOOLEAN
    OBVIOUS
  <2> HIDE DEF pc, sim
  <2>3. /\ next(answer) \in SessionType /\ next(answer).pc = pc(answer) /\ next(answer).sim = sim
        /\ next(answer).act = proc[r].act /\ next(answer).obs = proc[r].obs
    BY <1>1, <2>1, <2>2 DEF SessionType
  <2> HIDE DEF next
  <2> QED
    BY <1>2, <2>1, <2>2, <2>3 DEF SessionOK, Simulating, Observing, Acting
<1>8. /\ proc' \in [Runners -> SessionType]
      /\ \A q \in Runners : SessionOK(proc'[q])
  <2>1. next(answer) \in SessionType
    BY <1>7 DEF SessionOK
  <2>2. /\ proc \in [Runners -> SessionType]
        /\ \A q \in Runners : SessionOK(proc[q])
    BY DEF TypeInv
  <2> HIDE DEF next
  <2> QED
    BY <1>6, <1>7, <2>1, <2>2
<1> QED
  BY <1>1, <1>5, <1>8, JournalStays DEF Advances, TypeInv, CommandOK

LEMMA OutcomeType ==
    ASSUME NEW r, proc[r] \in SessionType, proc[r].act \in Acts, NEW after \in States
    PROVE  /\ Outcome(r, after) \in TaskRecord
           /\ Outcome(r, after).status \in {"blocked", "failed", "running"}
<1> DEFINE cleared == WithoutAuthority(proc[r].rec)
           judged  == IF ~Verified(r, after) THEN cleared
                      ELSE IF ~proc[r].success THEN [cleared EXCEPT !.failures = @ + 1]
                      ELSE [cleared EXCEPT !.failures = 0, !.spend = @ + Cost[proc[r].act]]
           counted == WithObservedState(judged, after)
           failing == ~proc[r].success /\ judged.failures >= MaxConsecutiveFailures
           status  == IF ~Verified(r, after) THEN "failed"
                      ELSE IF failing \/ counted.repState >= RepeatedStateLimit THEN "blocked"
                      ELSE IF after \in Dead THEN "failed" ELSE "running"
<1>1. cleared \in TaskRecord
  BY WithoutAuthorityType DEF SessionType
<1>2. Cost[proc[r].act] \in Nat
  BY TaskAssumption
<1> HIDE DEF cleared
<1>3. judged \in TaskRecord
  <2>1. [cleared EXCEPT !.failures = @ + 1] \in TaskRecord
    BY <1>1 DEF TaskRecord
  <2>2. ASSUME NEW n \in Nat
        PROVE  [cleared EXCEPT !.failures = 0, !.spend = n] \in TaskRecord
    BY <1>1 DEF TaskRecord
  <2>3. cleared.spend + Cost[proc[r].act] \in Nat
    BY <1>1, <1>2 DEF TaskRecord
  <2>4. [cleared EXCEPT !.failures = 0, !.spend = @ + Cost[proc[r].act]] \in TaskRecord
    BY <2>2, <2>3
  <2> QED
    BY <1>1, <2>1, <2>4
<1> HIDE DEF judged
<1>4. counted \in TaskRecord
  BY <1>3, WithObservedStateType
<1>5. status \in {"blocked", "failed", "running"}
  OBVIOUS
<1>6. Outcome(r, after) = [counted EXCEPT !.status = status]
  BY DEF Outcome, cleared, judged
<1> HIDE DEF counted, status
<1>7. status \in Statuses
  BY <1>5 DEF Statuses, Transitions
<1> QED
  BY <1>4, <1>5, <1>6, <1>7 DEF TaskRecord

LEMMA ConfirmOK ==
    ASSUME TypeInv, NEW r \in Runners, Confirm(r)
    PROVE  Advances
<1> DEFINE after  == Current(r)
           att    == proc[r].att
           rec    == proc[r].rec
           result == IF Verified(r, after) /\ proc[r].success THEN "success" ELSE "failure"
           task   == Outcome(r, after)
           e      == [AttemptEvent("action_execution_confirmed", att) EXCEPT !.res = result]
           drafts == << ObservationEvent(after), e,
                        AttemptEvent("action_checkpoint_committed", att) >>
           s      == IF proc[r].success THEN Snapshot(r, after) ELSE NoVal
           c      == WithSnapshot(IterationCommit(rec, task, drafts), s)
           ending == TerminalCommit(rec, task, task.status, drafts, Snapshot(r, after))
<1>1. proc[r].pc = "executed"
  BY DEF Confirm
<1>2. /\ proc[r] \in SessionType /\ rec \in TaskRecord /\ att \in Nat
      /\ proc[r].act \in Acts /\ after \in States /\ (External \/ proc[r].sim \in States)
  BY <1>1, LoopFacts DEF TypeInv, SessionOK, SessionType, Observing, Acting
<1>3. /\ task \in TaskRecord
      /\ task.status \in {"blocked", "failed", "running"}
  BY <1>2, OutcomeType
<1>4. Snapshot(r, after) \in States \cup {NoVal} /\ s \in States \cup {NoVal}
  BY <1>2, SnapshotType
<1>5. DraftsOK(drafts)
  <2>1. Draft(ObservationEvent(after))
    BY <1>2, ObservationDraft
  <2>2. {"action_execution_confirmed", "action_checkpoint_committed"}
            \subseteq AttemptEvents \ {"action_prepared"}
    BY EventTypes
  <2>3. result \in {"success", "failure"}
    OBVIOUS
  <2> HIDE DEF result, att
  <2>4. Draft(e) /\ Draft(AttemptEvent("action_checkpoint_committed", att))
    BY <1>2, <2>2, <2>3, AttemptDraft
  <2> HIDE DEF e, after
  <2> QED
    BY <2>1, <2>4, DraftSequences
<1>6. CASE task.status = "running"
  <2>1. SubmitIteration(r, c, after)
    BY <1>6 DEF Confirm
  <2> HIDE DEF task, drafts, s, rec, after
  <2>2. CommitOK(c)
    BY <1>2, <1>3, <1>4, <1>5, IterationCommitOK, WithSnapshotOK
  <2> HIDE DEF c
  <2> QED
    BY <1>2, <2>1, <2>2, SubmitIterationOK
<1>7. CASE task.status # "running"
  <2>1. SubmitIteration(r, ending, after)
    BY <1>7 DEF Confirm
  <2>2. task.status \in Terminal
    BY <1>3, <1>7, TerminalWords
  <2> HIDE DEF task, drafts, rec, after
  <2> QED
    BY <1>2, <1>3, <1>4, <1>5, <2>1, <2>2, SubmitTerminalOK
<1> QED
  BY <1>6, <1>7

LEMMA AdapterRaisesOK ==
    ASSUME TypeInv, NEW r \in Runners, AdapterRaises(r)
    PROVE  Advances
<1>1. UNCHANGED store /\ Unmoved /\ External
  BY DEF AdapterRaises, Unmoved
<1>2. proc[r] \in SessionType
  BY DEF TypeInv
<1>3. ASSUME NEW task \in TaskRecord
      PROVE  SessionOK([proc[r] EXCEPT !.pc = "error", !.rec = task])
  BY <1>2 DEF SessionOK, SessionType, Simulating, Observing, Acting
<1>4. CASE Undecided(r) /\ proc' = [proc EXCEPT ![r] =
                [proc[r] EXCEPT !.pc = "error", !.rec = Counted(r)]]
  <2>1. Counted(r) \in TaskRecord
    BY <1>4, IteratingFacts DEF Undecided
  <2> QED
    BY <1>1, <1>3, <1>4, <2>1, SessionStepOK
<1>5. CASE proc' = [proc EXCEPT ![r] = [proc[r] EXCEPT !.pc = "error"]]
  <2>1. SessionOK([proc[r] EXCEPT !.pc = "error"])
    BY <1>2 DEF SessionOK, SessionType, Simulating, Observing, Acting
  <2> QED
    BY <1>1, <1>5, <2>1, SessionStepOK
<1> QED
  BY <1>4, <1>5 DEF AdapterRaises

LEMMA ErrorOK ==
    ASSUME TypeInv, NEW r \in Runners, Error(r)
    PROVE  Advances
<1> DEFINE rec    == proc[r].rec
           e      == AttemptEvent("action_attempt_failed", proc[r].att)
           drafts == IF proc[r].att = NoId THEN <<>> ELSE <<e>>
<1>1. /\ rec \in TaskRecord /\ proc[r].att \in Nat /\ proc[r].obs \in States \cup {NoVal}
  BY DEF TypeInv, SessionType
<1>2. Draft(e)
  BY <1>1, EventTypes, AttemptDraft
<1>3. DraftsOK(drafts)
  <2> HIDE DEF e
  <2> QED
    BY <1>2, DraftSequences
<1>4. Snapshot(r, proc[r].obs) \in States \cup {NoVal}
  BY <1>1, SnapshotType
<1>5. SubmitIteration(r, TerminalCommit(rec, rec, "failed", drafts, Snapshot(r, proc[r].obs)),
                      proc[r].obs)
  BY DEF Error
<1> HIDE DEF rec, drafts
<1> QED
  BY <1>1, <1>3, <1>4, <1>5, TerminalWords, SubmitTerminalOK

LEMMA ShutdownOK ==
    ASSUME TypeInv, NEW r \in Runners, Shutdown(r)
    PROVE  Advances
<1> DEFINE rec == proc[r].outer
           c   == TerminalCommit(rec, rec, "failed", <<>>, Snapshot(r, proc[r].outerObs))
<1>1. rec \in TaskRecord /\ proc[r].outerObs \in States \cup {NoVal}
  BY DEF TypeInv, SessionType
<1>2. Snapshot(r, proc[r].outerObs) \in States \cup {NoVal}
  BY <1>1, SnapshotType
<1>3. \/ proc' = [proc EXCEPT ![r] = Idle] /\ UNCHANGED store
      \/ Submit(r, c, Idle, Idle)
  BY DEF Shutdown
<1>4. Unmoved
  BY DEF Shutdown, Unmoved
<1> HIDE DEF rec
<1>5. CommitOK(c)
  BY <1>1, <1>2, TerminalWords, DraftSequences, TerminalCommitOK
<1> HIDE DEF c
<1> QED
  BY <1>3, <1>4, <1>5, IdleOK, SubmitOK, SessionStepOK

LEMMA CrashOK ==
    ASSUME TypeInv, NEW r \in Runners, Crash(r)
    PROVE  Advances
  BY IdleOK, SessionStepOK DEF Crash, Unmoved

LEMMA StepOK ==
    ASSUME TypeInv, NEW r \in Runners, Step(r)
    PROVE  Advances
  BY GateOK, ReopenOK, EnterOK, StartPendingOK, StartWaitingOK, RefreshOK, InitializationFailureOK,
     IterateOK, PrepareOK, StartExecutionOK, ExecuteOK, ConfirmOK,
     AdapterRaisesOK, ErrorOK, ShutdownOK
  DEF Step, Transact

--------------------------------------------------------------------------------
(* Operator commands preserve the types. *)

LEMMA CreatedStoreOK == StoreOK(CreatedStore)
<1>1. NewTask \in TaskRecord
  BY DEF NewTask, TaskRecord, Statuses, Transitions, NoId
<1>2. DraftsOK(<<Event("task_created")>>)
  <2>1. Draft(Event("task_created"))
    BY EventDraft DEF EventType, NoId
  <2> QED
    BY <2>1, DraftSequences
<1> QED
  BY <1>1, <1>2 DEF StoreOK, StoreType, CreatedStore, NoCheckpoint, DraftsOK

LEMMA NoCommandOK == NoCommand \in CommandType /\ CommandOK(NoCommand)
<1>1. CreatedStore \in StoreType /\ StoreOK(CreatedStore)
  BY CreatedStoreOK DEF StoreOK
<1> QED
  BY <1>1 DEF NoCommand, CommandType, CommandOK, NoId

LEMMA ConcludeOK ==
    ASSUME TypeInv, NEW o \in Operators, NEW c, CommitOK(c), Conclude(o, c)
    PROVE  Advances
<1>1. StoreOK(store') /\ JournalGrows
  <2>1. StoreOK(store)
    BY DEF TypeInv
  <2>2. store' = Stored(store, c) \/ store' = store
    BY DEF Conclude
  <2> QED
    BY <2>1, <2>2, StoredOK, JournalAppends, JournalStays
<1>2. /\ command' \in [Operators -> CommandType]
      /\ \A q \in Operators : CommandOK(command'[q])
  <2>1. command' = [command EXCEPT ![o] = NoCommand]
    BY DEF Conclude
  <2>2. /\ command \in [Operators -> CommandType]
        /\ \A q \in Operators : CommandOK(command[q])
    BY DEF TypeInv, CommandType
  <2> QED
    BY <2>1, <2>2, NoCommandOK
<1> QED
  BY <1>1, <1>2 DEF Advances, TypeInv, Conclude, CommandType, SessionOK

LEMMA ViewFacts ==
    ASSUME TypeInv, NEW o \in Operators
    PROVE  LET view == command[o].view
           IN  /\ StoreOK(view) /\ view.task \in TaskRecord
               /\ view.journal \in Seq(EventRecord) /\ NamesActions(view.journal)
               /\ view.approvals \in SUBSET ApprovalRecord
               /\ view.checkpoint.state \in States \cup {NoVal}
  BY DEF TypeInv, CommandOK, StoreOK, StoreType

LEMMA ReadOK ==
    ASSUME TypeInv, NEW o \in Operators, NEW name \in Commands, Read(o, name)
    PROVE  Advances
<1>0. PICK asked \in Named(name) :
          command' = [command EXCEPT ![o] = [name |-> name, view |-> store, asked |-> asked]]
  BY DEF Read
<1> DEFINE q == [name |-> name, view |-> store, asked |-> asked]
<1>1. q \in CommandType /\ CommandOK(q)
  <2>1. StoreOK(store) /\ store \in StoreType /\ Applicable(name, store)
    BY DEF TypeInv, StoreOK, Read
  <2>2. q \in CommandType /\ q.name = name /\ q.view = store
    <3>1. \A a \in store.approvals : a.id \in Nat
      BY <2>1 DEF StoreType, ApprovalRecord
    <3>2. asked \in Nat
      BY <3>1 DEF Named, NoId
    <3> QED
      BY <2>1, <3>2 DEF CommandType
  <2> HIDE DEF q
  <2>3. name \in {"approve", "deny"} => Pending(store.approvals) # {}
    BY <2>1 DEF Applicable
  <2>4. name = "resolve" => UnresolvedAttempt(store.journal) # NoId
    BY <2>1 DEF Applicable
  <2> QED
    BY <2>1, <2>2, <2>3, <2>4 DEF CommandOK, CommandType
<1>2. command' = [command EXCEPT ![o] = q] /\ UNCHANGED <<store, proc, world, effects>>
  BY <1>0 DEF Read
<1> HIDE DEF q
<1>3. /\ command' \in [Operators -> CommandType]
      /\ \A p \in Operators : CommandOK(command'[p])
  <2>1. /\ command \in [Operators -> CommandType]
        /\ \A p \in Operators : CommandOK(command[p])
    BY DEF TypeInv, CommandType
  <2> QED
    BY <1>1, <1>2, <2>1
<1> QED
  BY <1>2, <1>3, JournalStays DEF Advances, TypeInv, CommandType, SessionOK

LEMMA DecideOK ==
    ASSUME NEW view, StoreOK(view), Pending(view.approvals) # {},
           NEW status \in {"approved", "denied"}, NEW task \in TaskRecord,
           NEW drafts \in {<<>>, <<Event("task_blocked")>>}
    PROVE  CommitOK(Decide(view, status, task, drafts))
<1> DEFINE pending == CHOOSE a \in Pending(view.approvals) : TRUE
           type    == IF status = "approved" THEN "approval_granted" ELSE "approval_denied"
           e       == [Event(type) EXCEPT !.id = pending.id]
           c       == IterationCommit(view.task, task, <<e>> \o drafts)
           u       == [pending EXCEPT !.status = status]
<1>1. pending \in ApprovalRecord /\ view.task \in TaskRecord
  BY DEF Pending, StoreOK, StoreType
<1>2. u \in ApprovalRecord
  BY <1>1 DEF ApprovalRecord
<1>3. pending.id \in Nat /\ type \in EventType /\ type # "action_prepared"
  BY <1>1 DEF ApprovalRecord, EventType
<1> HIDE DEF pending, type
<1>4. Draft(e)
  BY <1>3, EventDraft
<1> HIDE DEF e
<1>5. DraftsOK(<<e>>) /\ DraftsOK(drafts)
  <2>1. Draft(Event("task_blocked"))
    <3>1. "task_blocked" \in EventType
      BY TerminalWords DEF EventType, TerminalEvent
    <3> QED
      BY <3>1, EventDraft DEF NoId
  <2> QED
    BY <1>4, <2>1, DraftSequences
<1>6. DraftsOK(<<e>> \o drafts)
  BY <1>5, DraftsJoined
<1>7. CommitOK(c)
  BY <1>1, <1>6, IterationCommitOK
<1>8. Decide(view, status, task, drafts) = [c EXCEPT !.update = {u}]
  BY DEF Decide, pending, type, e
<1> HIDE DEF c, u
<1> QED
  BY <1>2, <1>7, <1>8 DEF CommitOK, CommitType

LEMMA ApproveOK ==
    ASSUME TypeInv, NEW o \in Operators, Approve(o)
    PROVE  Advances
<1> DEFINE view    == command[o].view
           pending == CHOOSE a \in Pending(view.approvals) : TRUE
           task    == [view.task EXCEPT !.approvedAction = pending.act, !.approvedId = pending.id]
<1>1. StoreOK(view) /\ view.task \in TaskRecord /\ Pending(view.approvals) # {}
  BY ViewFacts DEF Approve, TypeInv, CommandOK
<1>2. pending.act \in Acts /\ pending.id \in Nat
  <2>1. pending \in ApprovalRecord
    BY <1>1 DEF Pending, StoreOK, StoreType
  <2> QED
    BY <2>1 DEF ApprovalRecord
<1>3. Conclude(o, Decide(view, "approved", task, <<>>))
  BY DEF Approve
<1> HIDE DEF pending
<1>4. task \in TaskRecord
  BY <1>1, <1>2 DEF TaskRecord
<1> HIDE DEF task, view
<1> QED
  BY <1>1, <1>3, <1>4, DecideOK, ConcludeOK

LEMMA DenyOK ==
    ASSUME TypeInv, NEW o \in Operators, Deny(o)
    PROVE  Advances
<1> DEFINE view == command[o].view
           task == [view.task EXCEPT !.status = "blocked"]
           c    == Decide(view, "denied", task, <<Event("task_blocked")>>)
<1>1. /\ StoreOK(view) /\ view.task \in TaskRecord /\ Pending(view.approvals) # {}
      /\ view.checkpoint.state \in States \cup {NoVal}
  BY ViewFacts DEF Deny, TypeInv, CommandOK
<1>2. task \in TaskRecord
  BY <1>1 DEF TaskRecord, Statuses, Transitions
<1>3. Conclude(o, WithSnapshot(c, view.checkpoint.state))
  BY DEF Deny
<1> HIDE DEF task, view
<1>4. CommitOK(c)
  BY <1>1, <1>2, DecideOK
<1> HIDE DEF c
<1> QED
  BY <1>1, <1>3, <1>4, WithSnapshotOK, ConcludeOK

LEMMA CancelOK ==
    ASSUME TypeInv, NEW o \in Operators, Cancel(o)
    PROVE  Advances
<1> DEFINE view == command[o].view
           task == [view.task EXCEPT !.cancelRequested = TRUE]
<1>1. view.task \in TaskRecord /\ view.checkpoint.state \in States \cup {NoVal}
  BY ViewFacts
<1>2. task \in TaskRecord
  BY <1>1 DEF TaskRecord
<1>3. Conclude(o, TerminalCommit(view.task, task, "cancelled", <<>>, view.checkpoint.state))
  BY DEF Cancel
<1> HIDE DEF task, view
<1> QED
  BY <1>1, <1>2, <1>3, TerminalWords, DraftSequences, TerminalCommitOK, ConcludeOK

LEMMA ResolveOK ==
    ASSUME TypeInv, NEW o \in Operators, Resolve(o)
    PROVE  Advances
<1> DEFINE view      == command[o].view
           id        == UnresolvedAttempt(view.journal)
           cleared   == WithoutAuthority(view.task)
           event     == AttemptEvent("action_reconciled", id)
           closed(x) == [event EXCEPT !.res = x]
           result(s) == ExpectedResult(view, id, s)
           charge(s) == RecoveredCost(view, id, result(s))
           paid(s)   == [cleared EXCEPT !.spend = @ + charge(s)]
           done(s)   == IterationCommit(view.task, paid(s),
                                        <<ObservationEvent(s), closed(result(s))>>)
           skipped   == IterationCommit(view.task, cleared, <<closed("not_executed")>>)
           ended     == TerminalCommit(view.task, cleared, "blocked", <<closed("abandoned")>>,
                                       view.checkpoint.state)
<1>1. /\ view.task \in TaskRecord /\ view.checkpoint.state \in States \cup {NoVal}
      /\ view.journal \in Seq(EventRecord) /\ NamesActions(view.journal)
  BY ViewFacts
<1>2. id \in Nat /\ AttemptAction(view.journal, id) \in Acts
  <2>1. UnresolvedAttempt(view.journal) # NoId
    BY DEF Resolve, TypeInv, CommandOK
  <2> QED
    BY <1>1, <2>1, UnresolvedAttemptNat, UnresolvedAttemptNamesAction
<1>3. cleared \in TaskRecord /\ cleared.spend \in Nat
  BY <1>1, WithoutAuthorityType DEF TaskRecord
<1>4. ASSUME NEW x \in {"success", "failure", "not_executed", "abandoned"}
      PROVE  Draft(closed(x))
  <2> HIDE DEF id
  <2> QED
    BY <1>2, <1>4, EventTypes, AttemptDraft
<1>5. \/ \E s \in States : result(s) # "none" /\ Conclude(o, WithSnapshot(done(s), s))
      \/ Conclude(o, skipped)
      \/ Conclude(o, ended)
  BY DEF Resolve
<1> HIDE DEF closed, cleared
<1>6. ASSUME NEW s \in States, result(s) # "none", Conclude(o, WithSnapshot(done(s), s))
      PROVE  Advances
  <2>1. result(s) \in {"success", "failure"}
    BY <1>6 DEF ExpectedResult
  <2>2. charge(s) \in Nat
    BY <1>2, TaskAssumption DEF RecoveredCost
  <2> HIDE DEF result, charge
  <2>3. paid(s) \in TaskRecord
    BY <1>3, <2>2 DEF TaskRecord
  <2>4. DraftsOK(<<ObservationEvent(s), closed(result(s))>>)
    BY <1>4, <2>1, ObservationDraft, DraftSequences
  <2> HIDE DEF paid, view
  <2>5. CommitOK(done(s))
    BY <1>1, <2>3, <2>4, IterationCommitOK
  <2> HIDE DEF done
  <2> QED
    BY <1>6, <2>5, WithSnapshotOK, ConcludeOK
<1>7. ASSUME Conclude(o, skipped)
      PROVE  Advances
  <2>1. DraftsOK(<<closed("not_executed")>>)
    BY <1>4, DraftSequences
  <2> HIDE DEF view
  <2>2. CommitOK(skipped)
    BY <1>1, <1>3, <2>1, IterationCommitOK
  <2> HIDE DEF skipped
  <2> QED
    BY <1>7, <2>2, ConcludeOK
<1>8. ASSUME Conclude(o, ended)
      PROVE  Advances
  <2>1. DraftsOK(<<closed("abandoned")>>)
    BY <1>4, DraftSequences
  <2> HIDE DEF view
  <2>2. CommitOK(ended)
    BY <1>1, <1>3, <2>1, TerminalWords, TerminalCommitOK
  <2> HIDE DEF ended
  <2> QED
    BY <1>8, <2>2, ConcludeOK
<1> QED
  BY <1>5, <1>6, <1>7, <1>8

--------------------------------------------------------------------------------
(* Type correctness. *)

LEMMA TypeInvInit == Init => TypeInv
<1> SUFFICES ASSUME Init PROVE TypeInv
  OBVIOUS
<1>1. Idle \in SessionType /\ SessionOK(Idle)
  BY IdleOK DEF SessionOK
<1>2. effects \in Seq(EffectRecord)
  BY DEF Init
<1> QED
  BY <1>1, <1>2, CreatedStoreOK, NoCommandOK, TaskAssumption DEF Init, TypeInv, CommandType

LEMMA NextAdvances ==
    ASSUME TypeInv, [Next]_vars
    PROVE  Advances
<1>1. ASSUME NEW r \in Runners, Resume(r) \/ Step(r) \/ Crash(r)
      PROVE  Advances
  BY <1>1, ResumeOK, StepOK, CrashOK
<1>2. ASSUME NEW o \in Operators, Operate(o)
      PROVE  Advances
  BY <1>2, ReadOK, ApproveOK, DenyOK, CancelOK, ResolveOK DEF Operate
<1>3. CASE Drift
  <2>1. world' \in States /\ UNCHANGED <<store, proc, command, effects>>
    BY <1>3 DEF Drift
  <2>2. TypeInv'
    BY <2>1 DEF TypeInv, SessionOK, CommandOK
  <2> QED
    BY <2>1, <2>2, JournalStays DEF Advances
<1>4. CASE UNCHANGED vars
  <2>1. TypeInv'
    BY <1>4 DEF vars, TypeInv, SessionOK, CommandOK
  <2> QED
    BY <1>4, <2>1, JournalStays DEF Advances, vars
<1> QED
  BY <1>1, <1>2, <1>3, <1>4 DEF Next

(* Every reachable state has its type: the records, the sessions' locals   *)
(* and the history, whatever the runners, the operators and the            *)
(* environment do.                                                         *)
THEOREM TypeCorrect == Spec => []TypeOK
<1>1. TypeInv => TypeOK
  BY DEF TypeInv, TypeOK, StoreOK, EffectRecord
<1>2. TypeInv /\ [Next]_vars => TypeInv'
  BY NextAdvances DEF Advances
<1> QED
  BY <1>1, <1>2, TypeInvInit, PTL DEF Spec

================================================================================
