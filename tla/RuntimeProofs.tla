----------------------------- MODULE RuntimeProofs -----------------------------
(***************************************************************************)
(* Safety of the task runtime, for every number of runners and operators   *)
(* and every configuration, task and environment: an attempt is carried    *)
(* out at most once.                                                       *)
(***************************************************************************)
EXTENDS RuntimeTyping

(* A step of r after which r holds no attempt, and that has no effect. *)
LetsGo(r) ==
    /\ effects' = effects
    /\ ~(proc'[r].pc \in {"prepared", "started"})
    /\ \A q \in Runners : q # r => proc'[q] = proc[q]

LEMMA SubmitLetsGo ==
    ASSUME TypeInv, NEW r \in Runners, NEW c, NEW done, NEW failed,
           done.pc \notin {"prepared", "started"}, failed.pc \notin {"prepared", "started"},
           Submit(r, c, done, failed), UNCHANGED effects
    PROVE  LetsGo(r)
<1>1. DOMAIN proc = Runners
  BY DEF TypeInv
<1>2. proc' = [proc EXCEPT ![r] = done] \/ proc' = [proc EXCEPT ![r] = failed]
  BY DEF Submit
<1> QED
  BY <1>1, <1>2 DEF LetsGo

LEMMA SessionStepLetsGo ==
    ASSUME TypeInv, NEW r \in Runners, NEW next, next.pc \notin {"prepared", "started"},
           proc' = [proc EXCEPT ![r] = next], UNCHANGED effects
    PROVE  LetsGo(r)
<1>1. DOMAIN proc = Runners
  BY DEF TypeInv
<1> QED
  BY <1>1 DEF LetsGo

LEMMA ClosingPC ==
    ASSUME NEW r, NEW task, NEW observation
    PROVE  /\ Closing(r, task, observation).pc = "closing"
           /\ Abandoned(r).pc = "closing" /\ Idle.pc = "idle"
  BY DEF Closing, Abandoned, Idle

LEMMA SubmitIterationLetsGo ==
    ASSUME TypeInv, NEW r \in Runners, NEW c, NEW observation,
           SubmitIteration(r, c, observation)
    PROVE  LetsGo(r)
<1>1. AfterIteration(r, c.task, observation).pc \in {"loop", "closing"}
  <2>1. proc[r] \in SessionType
    BY DEF TypeInv
  <2>2. [Looping(r, c.task, observation) EXCEPT !.worked = TRUE].pc = "loop"
    BY <2>1 DEF Looping, SessionType
  <2> QED
    BY <2>2, ClosingPC DEF AfterIteration
<1> QED
  BY <1>1, ClosingPC, SubmitLetsGo DEF SubmitIteration

LEMMA IterateLetsGo ==
    ASSUME TypeInv, NEW r \in Runners, Iterate(r)
    PROVE  LetsGo(r)
<1>1. CASE Yield(r)
  BY <1>1, ClosingPC, SessionStepLetsGo DEF Yield
<1>2. ASSUME NEW blocked, NEW task, NEW drafts, NEW s, NEW observation,
             SafeguardCommit(r, blocked, task, drafts, s, observation)
      PROVE  LetsGo(r)
  BY <1>2, SubmitIterationLetsGo DEF SafeguardCommit
<1>3. CASE CancelSeen(r) \/ IterationLimit(r) \/ Evaluated(r) \/ ProviderStops(r)
  BY <1>3, SubmitIterationLetsGo DEF CancelSeen, IterationLimit, Evaluated, ProviderStops
<1>4. CASE FalseCompletion(r) \/ Wait(r) \/ RepeatedAction(r) \/ RejectAction(r)
  BY <1>2, <1>4 DEF FalseCompletion, Wait, RepeatedAction, RejectAction
<1>5. CASE RequestApproval(r)
  BY <1>5, SubmitIterationLetsGo DEF RequestApproval
<1> QED
  BY <1>1, <1>3, <1>4, <1>5 DEF Iterate

(* Every step of r but those of the attempt itself. *)
LEMMA OtherStepLetsGo ==
    ASSUME TypeInv, NEW r \in Runners,
           \/ Resume(r) \/ Crash(r) \/ Gate(r) \/ Reopen(r) \/ Enter(r)
           \/ StartPending(r) \/ StartWaiting(r) \/ Refresh(r) \/ InitializationFailure(r)
           \/ Iterate(r) \/ Confirm(r) \/ AdapterRaises(r) \/ Error(r) \/ Shutdown(r)
    PROVE  LetsGo(r)
<1>1. proc[r] \in SessionType
  BY DEF TypeInv
<1>2. CASE Resume(r) \/ Reopen(r)
  <2>1. AtGate(r).pc = "gate" /\ WithAdapter(r).pc = "opened"
    BY DEF AtGate, WithAdapter, Idle
  <2> QED
    BY <1>2, <2>1, ClosingPC, SessionStepLetsGo DEF Resume, Reopen
<1>3. CASE Crash(r)
  BY <1>3, ClosingPC, SessionStepLetsGo DEF Crash
<1>4. CASE Gate(r)
  <2> DEFINE passed == [Idle EXCEPT !.pc = "gated", !.sim = proc[r].sim]
  <2>1. \/ proc' = [proc EXCEPT ![r] = Idle]
        \/ \E c : Submit(r, c, Idle, Idle) \/ Submit(r, c, passed, Idle)
    BY <1>4 DEF Gate
  <2>2. UNCHANGED effects /\ passed.pc = "gated"
    BY <1>4 DEF Gate, Idle
  <2> HIDE DEF passed
  <2> QED
    BY <2>1, <2>2, ClosingPC, SessionStepLetsGo, SubmitLetsGo
<1>5. CASE Enter(r)
  <2> DEFINE pc == IF store.task.status # "running" THEN "start"
                   ELSE IF External THEN "refresh" ELSE "loop"
             opened(t, o) == [proc[r] EXCEPT !.pc = pc, !.rec = t, !.obs = o,
                                             !.outer = t, !.outerObs = o]
  <2>1. \E next \in {Idle, AtGate(r), opened(store.task, LatestObservation(store.journal))} :
            proc' = [proc EXCEPT ![r] = next]
    BY <1>5 DEF Enter
  <2>2. \A t, o : opened(t, o).pc = pc
    BY <1>1 DEF SessionType
  <2>3. AtGate(r).pc = "gate" /\ pc \notin {"prepared", "started"} /\ UNCHANGED effects
    BY <1>5 DEF AtGate, Idle, Enter
  <2> HIDE DEF opened, pc
  <2>4. PICK next \in {Idle, AtGate(r), opened(store.task, LatestObservation(store.journal))} :
            proc' = [proc EXCEPT ![r] = next]
    BY <2>1
  <2>5. next.pc \notin {"prepared", "started"}
    BY <2>2, <2>3, ClosingPC
  <2> QED
    BY <2>3, <2>4, <2>5, SessionStepLetsGo
<1>6. ASSUME NEW pc \in {"refresh", "loop"}, NEW task, NEW observation
      PROVE  Opened(r, pc, task, observation).pc \notin {"prepared", "started"}
  BY <1>1 DEF Opened, SessionType
<1>7. CASE StartPending(r)
  BY <1>6, <1>7, ClosingPC, SubmitLetsGo DEF StartPending
<1>8. CASE StartWaiting(r)
  BY <1>6, <1>8, ClosingPC, SubmitLetsGo DEF StartWaiting
<1>9. CASE Refresh(r)
  BY <1>6, <1>9, ClosingPC, SubmitLetsGo DEF Refresh
<1>10. CASE InitializationFailure(r)
  BY <1>10, ClosingPC, SubmitLetsGo DEF InitializationFailure
<1>11. CASE Iterate(r)
  BY <1>11, IterateLetsGo
<1>12. CASE Confirm(r) \/ Error(r)
  BY <1>12, SubmitIterationLetsGo DEF Confirm, Error
<1>13. CASE AdapterRaises(r)
  <2>1. \/ proc' = [proc EXCEPT ![r] = [proc[r] EXCEPT !.pc = "error", !.rec = Counted(r)]]
        \/ proc' = [proc EXCEPT ![r] = [proc[r] EXCEPT !.pc = "error"]]
    BY <1>13 DEF AdapterRaises
  <2>2. /\ [proc[r] EXCEPT !.pc = "error", !.rec = Counted(r)].pc = "error"
        /\ [proc[r] EXCEPT !.pc = "error"].pc = "error"
    BY <1>1 DEF SessionType
  <2>3. UNCHANGED effects
    BY <1>13 DEF AdapterRaises
  <2> QED
    BY <2>1, <2>2, <2>3, SessionStepLetsGo
<1>14. CASE Shutdown(r)
  BY <1>14, ClosingPC, SessionStepLetsGo, SubmitLetsGo DEF Shutdown
<1> QED
  BY <1>2, <1>3, <1>4, <1>5, <1>7, <1>8, <1>9, <1>10, <1>11, <1>12, <1>13, <1>14

--------------------------------------------------------------------------------
(* The inductive invariant: what is held and what is done stay apart. *)

AtMostOnceInv == TypeInv /\ AttemptsHeldOnce /\ ExecutedAtMostOnce

LEMMA LengthGrows ==
    ASSUME TypeInv, Advances
    PROVE  /\ Len(store.journal) \in Nat /\ Len(store'.journal) \in Nat
           /\ Len(store.journal) <= Len(store'.journal)
           /\ effects \in Seq(EffectRecord)
           /\ \A i \in DOMAIN effects : effects[i].att \in Nat
           /\ \A q \in Runners : proc[q].att \in Nat /\ proc'[q].att \in Nat
<1>1. effects \in Seq(EffectRecord) /\ \A i \in DOMAIN effects : effects[i] \in EffectRecord
  BY LenProperties, ElementOfSeq DEF TypeInv
<1> QED
  BY <1>1, LenProperties
  DEF TypeInv, Advances, JournalGrows, StoreOK, StoreType, SessionType, EffectRecord

(* A step with no effect after which every runner holds what it held or nothing. *)
LEMMA HeldOrLetGo ==
    ASSUME AtMostOnceInv, Advances, UNCHANGED effects,
           \A q \in Runners : Holding(q)' => Holding(q) /\ proc'[q].att = proc[q].att
    PROVE  AtMostOnceInv'
<1>1. TypeInv'
  BY DEF Advances
<1>2. AttemptsHeldOnce'
  BY LengthGrows DEF AtMostOnceInv, AttemptsHeldOnce, Holding
<1>3. ExecutedAtMostOnce'
  BY DEF AtMostOnceInv, ExecutedAtMostOnce
<1> QED
  BY <1>1, <1>2, <1>3 DEF AtMostOnceInv

LEMMA LettingGo ==
    ASSUME AtMostOnceInv, Advances, NEW r \in Runners, LetsGo(r)
    PROVE  AtMostOnceInv'
  BY HeldOrLetGo DEF LetsGo, Holding

LEMMA OneMore ==
    ASSUME NEW j \in Seq(EventRecord), NEW e
    PROVE  Len(j \o <<e>>) = Len(j) + 1
<1>1. j \in Seq(EventRecord \cup {e}) /\ <<e>> \in Seq(EventRecord \cup {e})
  <2>1. /\ Len(j) \in Nat /\ j \in [1 .. Len(j) -> EventRecord]
    BY LenProperties
  <2> QED
    BY <2>1
<1>2. Len(<<e>>) = 1
  OBVIOUS
<1> QED
  BY <1>1, <1>2, ConcatProperties

(* The write-ahead commit gives the attempt the number of its own journal  *)
(* position, which nothing done or held can have.                          *)
LEMMA PrepareKeeps ==
    ASSUME AtMostOnceInv, Advances, NEW r \in Runners, Prepare(r)
    PROVE  AtMostOnceInv'
<1> DEFINE id == proc[r].rec.sequence + 1
           c(a) == IterationCommit(proc[r].rec, WithAction(r, a),
                       <<[AttemptEvent("action_prepared", id) EXCEPT !.act = a]>>)
           next(a) == [proc[r] EXCEPT !.pc = "prepared", !.rec = c(a).task, !.act = a,
                                      !.att = id, !.auth = proc[r].rec.approvedId]
<1>1. PICK a : Submit(r, c(a), next(a), Abandoned(r))
  BY DEF Prepare
<1>2. UNCHANGED effects /\ TypeInv /\ TypeInv'
  BY DEF Prepare, AtMostOnceInv, Advances
<1>3. next(a).pc = "prepared" /\ next(a).att = id
  BY <1>2 DEF TypeInv, SessionType
<1>4. c(a).base = proc[r].rec.sequence /\ Len(c(a).drafts) = 1
  BY DEF IterationCommit
<1>5. CASE proc' = [proc EXCEPT ![r] = Abandoned(r)]
  BY <1>2, <1>5, ClosingPC, SessionStepLetsGo, LettingGo
<1>6. CASE Accepts(store, c(a)) /\ store' = Stored(store, c(a))
           /\ proc' = [proc EXCEPT ![r] = next(a)]
  <2>1. Len(store.journal) = proc[r].rec.sequence
    BY <1>4, <1>6 DEF Accepts, EventsContiguous
  <2>2. Len(store'.journal) = Len(store.journal) + 1
    <3>1. store'.journal = store.journal \o c(a).drafts
      BY <1>6 DEF Stored
    <3>2. store.journal \in Seq(EventRecord) /\ store'.journal \in Seq(EventRecord)
      BY <1>2 DEF TypeInv, StoreOK, StoreType
    <3>3. c(a).drafts = <<[AttemptEvent("action_prepared", id) EXCEPT !.act = a]>>
      BY DEF IterationCommit
    <3> QED
      BY <3>1, <3>2, <3>3, OneMore
  <2>3. /\ Len(store.journal) \in Nat
        /\ id = Len(store.journal) + 1 /\ id = Len(store'.journal)
    BY <1>2, <2>1, <2>2, LengthGrows
  <2>4. /\ proc'[r].pc = "prepared" /\ proc'[r].att = id
        /\ \A q \in Runners : q # r => proc'[q] = proc[q]
    BY <1>2, <1>3, <1>6 DEF TypeInv
  <2> HIDE DEF id, c, next
  <2>5. AttemptsHeldOnce
    BY DEF AtMostOnceInv
  <2>6. ASSUME NEW i \in DOMAIN effects
        PROVE  effects[i].att < id
    BY <1>2, <2>3, <2>5, LengthGrows DEF AttemptsHeldOnce
  <2>7. ASSUME NEW q \in Runners, q # r, Holding(q)
        PROVE  proc[q].att < id
    BY <1>2, <2>3, <2>5, <2>7, LengthGrows DEF AttemptsHeldOnce
  <2>8. AttemptsHeldOnce'
    <3>1. \A i \in DOMAIN effects' : effects'[i].att <= Len(store'.journal)
      BY <1>2, <2>3, <2>6, LengthGrows
    <3>2. ASSUME NEW q \in Runners, Holding(q)'
          PROVE  /\ proc'[q].att <= Len(store'.journal)
                 /\ \A i \in DOMAIN effects' : effects'[i].att # proc'[q].att
      <4>1. CASE q = r
        BY <1>2, <2>3, <2>4, <2>6, <4>1, LengthGrows
      <4>2. CASE q # r
        BY <1>2, <2>3, <2>4, <2>5, <2>7, <3>2, <4>2, LengthGrows
        DEF AttemptsHeldOnce, Holding
      <4> QED
        BY <4>1, <4>2
    <3>3. ASSUME NEW p \in Runners, NEW q \in Runners, Holding(p)', Holding(q)',
                 proc'[q].att = proc'[p].att
          PROVE  q = p
      <4>1. CASE p # r /\ q # r
        BY <2>4, <2>5, <3>3, <4>1 DEF AttemptsHeldOnce, Holding
      <4>2. CASE p = r /\ q # r
        BY <1>2, <2>3, <2>4, <2>7, <3>3, <4>2, LengthGrows DEF Holding
      <4>3. CASE p # r /\ q = r
        BY <1>2, <2>3, <2>4, <2>7, <3>3, <4>3, LengthGrows DEF Holding
      <4> QED
        BY <4>1, <4>2, <4>3
    <3> QED
      BY <3>1, <3>2, <3>3 DEF AttemptsHeldOnce
  <2> QED
    BY <1>2, <2>8 DEF AtMostOnceInv, ExecutedAtMostOnce
<1> HIDE DEF c, next
<1> QED
  BY <1>1, <1>5, <1>6 DEF Submit

LEMMA StartExecutionKeeps ==
    ASSUME AtMostOnceInv, Advances, NEW r \in Runners, StartExecution(r)
    PROVE  AtMostOnceInv'
<1> DEFINE next(t) == [proc[r] EXCEPT !.pc = "started", !.rec = t]
<1>1. /\ TypeInv /\ UNCHANGED effects /\ Holding(r)
      /\ \E t : \/ proc' = [proc EXCEPT ![r] = next(t)]
                \/ proc' = [proc EXCEPT ![r] = Abandoned(r)]
  BY DEF AtMostOnceInv, StartExecution, Submit, Holding
<1>2. \A t : next(t).pc = "started" /\ next(t).att = proc[r].att
  BY <1>1 DEF TypeInv, SessionType
<1> HIDE DEF next
<1>3. CASE \E t : proc' = [proc EXCEPT ![r] = next(t)]
  BY <1>1, <1>2, <1>3, HeldOrLetGo DEF TypeInv, Holding
<1>4. CASE proc' = [proc EXCEPT ![r] = Abandoned(r)]
  BY <1>1, <1>4, ClosingPC, SessionStepLetsGo, LettingGo
<1> QED
  BY <1>1, <1>3, <1>4

(* The effect is that of the attempt r alone held; r holds it no longer. *)
LEMMA ExecuteKeeps ==
    ASSUME AtMostOnceInv, Advances, NEW r \in Runners, Execute(r)
    PROVE  AtMostOnceInv'
<1> DEFINE next(pc, ok, s) == [proc[r] EXCEPT !.pc = pc, !.success = ok, !.sim = s]
<1>1. TypeInv /\ TypeInv' /\ AttemptsHeldOnce /\ ExecutedAtMostOnce /\ Holding(r)
  BY DEF AtMostOnceInv, Advances, Execute, Holding
<1>a. PICK answer :
        proc' = [proc EXCEPT ![r] =
            next(IF answer = "raised" THEN "error" ELSE "executed", answer = "success",
                 IF External THEN proc[r].sim ELSE Effect[proc[r].act][proc[r].sim])]
  BY Zenon DEF Execute
<1> DEFINE pc == IF answer = "raised" THEN "error" ELSE "executed"
           ok == answer = "success"
           s  == IF External THEN proc[r].sim ELSE Effect[proc[r].act][proc[r].sim]
<1>2. pc \in {"error", "executed"} /\ proc' = [proc EXCEPT ![r] = next(pc, ok, s)]
  BY <1>a
<1> HIDE DEF pc, ok, s
<1>3. next(pc, ok, s).pc = pc
  BY <1>1 DEF TypeInv, SessionType
<1>4. ~Holding(r)' /\ \A q \in Runners : q # r => proc'[q] = proc[q]
  <2> HIDE DEF next
  <2> QED
    BY <1>1, <1>2, <1>3 DEF TypeInv, Holding
<1> DEFINE e == [att |-> proc[r].att, act |-> proc[r].act,
                 auth |-> proc[r].auth, seen |-> proc[r].obs]
<1>5. UNCHANGED store /\ (UNCHANGED effects \/ effects' = Append(effects, e))
  BY DEF Execute, Apply
<1>6. e.att = proc[r].att
  OBVIOUS
<1> HIDE DEF next, e
<1>7. CASE UNCHANGED effects
  BY <1>4, <1>7, HeldOrLetGo DEF Holding
<1>8. CASE effects' = Append(effects, e)
  <2>1. /\ Len(effects) \in Nat /\ DOMAIN effects = 1 .. Len(effects)
        /\ DOMAIN effects' = 1 .. Len(effects) + 1
        /\ \A i \in DOMAIN effects : effects'[i] = effects[i]
        /\ effects'[Len(effects) + 1] = e
    <3>1. effects \in Seq(EffectRecord) /\ effects' \in Seq(EffectRecord)
      BY <1>1 DEF TypeInv
    <3> QED
      BY <1>8, <3>1, LenProperties
  <2>2. \A i \in DOMAIN effects' : i \in DOMAIN effects \/ i = Len(effects) + 1
    BY <2>1
  <2>3. ExecutedAtMostOnce'
    BY <1>1, <1>6, <2>1, <2>2 DEF ExecutedAtMostOnce, AttemptsHeldOnce
  <2>4. AttemptsHeldOnce'
    <3>1. \A i \in DOMAIN effects' : effects'[i].att <= Len(store'.journal)
      BY <1>1, <1>5, <1>6, <2>1, <2>2 DEF AttemptsHeldOnce
    <3>2. ASSUME NEW q \in Runners, Holding(q)'
          PROVE  /\ proc'[q].att <= Len(store'.journal)
                 /\ \A i \in DOMAIN effects' : effects'[i].att # proc'[q].att
                 /\ \A p \in Runners : Holding(p)' /\ proc'[p].att = proc'[q].att => p = q
      <4>1. q # r /\ proc'[q] = proc[q] /\ Holding(q) /\ proc[q].att # proc[r].att
        BY <1>1, <1>4, <3>2 DEF Holding, AttemptsHeldOnce
      <4> QED
        BY <1>1, <1>4, <1>5, <1>6, <2>1, <2>2, <4>1 DEF Holding, AttemptsHeldOnce
    <3> QED
      BY <3>1, <3>2 DEF AttemptsHeldOnce
  <2> QED
    BY <1>1, <2>3, <2>4 DEF AtMostOnceInv
<1> QED
  BY <1>5, <1>7, <1>8

LEMMA AtMostOnceStep == AtMostOnceInv /\ [Next]_vars => AtMostOnceInv'
<1> SUFFICES ASSUME AtMostOnceInv, [Next]_vars PROVE AtMostOnceInv'
  OBVIOUS
<1>1. TypeInv /\ Advances
  BY NextAdvances DEF AtMostOnceInv
<1>2. ASSUME NEW r \in Runners, Resume(r) \/ Step(r) \/ Crash(r)
      PROVE  AtMostOnceInv'
  <2>1. CASE Prepare(r)
    BY <1>1, <2>1, PrepareKeeps
  <2>2. CASE StartExecution(r)
    BY <1>1, <2>2, StartExecutionKeeps
  <2>3. CASE Execute(r)
    BY <1>1, <2>3, ExecuteKeeps
  <2>4. CASE ~(Prepare(r) \/ StartExecution(r) \/ Execute(r))
    BY <1>1, <1>2, <2>4, OtherStepLetsGo, LettingGo DEF Step, Transact
  <2> QED
    BY <2>1, <2>2, <2>3, <2>4
<1>3. ASSUME NEW o \in Operators, Operate(o)
      PROVE  AtMostOnceInv'
  <2>1. UNCHANGED <<proc, effects>>
    BY <1>3 DEF Operate, Read, Approve, Deny, Cancel, Resolve, Conclude
  <2> QED
    BY <1>1, <2>1, HeldOrLetGo DEF Holding
<1>4. CASE Drift \/ UNCHANGED vars
  BY <1>1, <1>4, HeldOrLetGo DEF Drift, vars, Holding
<1> QED
  BY <1>2, <1>3, <1>4 DEF Next

(* An attempt is carried out at most once, however many runners share the  *)
(* task, wherever they crash and whatever the operators decide meanwhile:  *)
(* the write-ahead commit numbers it, and no second session can adopt it.  *)
THEOREM AtMostOnce == Spec => []ExecutedAtMostOnce
<1>1. Init => AtMostOnceInv
  BY TypeInvInit, ClosingPC DEF Init, AtMostOnceInv, AttemptsHeldOnce, ExecutedAtMostOnce, Holding
<1>2. AtMostOnceInv => ExecutedAtMostOnce
  BY DEF AtMostOnceInv
<1> QED
  BY <1>1, <1>2, AtMostOnceStep, PTL DEF Spec

================================================================================
