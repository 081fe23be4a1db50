---------------------------- MODULE RuntimeAuthority ----------------------------
(***************************************************************************)
(* The operator's authority: what is executed was permitted, and, where    *)
(* the operator must be asked, was granted; and a grant is used once.      *)
(***************************************************************************)
EXTENDS RuntimeFinality

GrantsInv == AuthorityInv /\ AuthorityOnceInv

(* What the steps of the runtime are proved from. *)
RuntimeInv == LedgerInv /\ StatusInv /\ GrantsInv

Cleared(t) == t.approvedId = NoId /\ t.approvedAction = NoVal

(* What a transaction must establish of the authority it writes: it leaves *)
(* it as stored, and closes no attempt that was started unless it ends the *)
(* task; or it takes it away; or it grants a pending request.              *)
AuthorityWritten(c) ==
    /\ c.create = {} \/ \E a : c.create = {a} /\ a.id # NoId
    /\ c.update = {} \/ \E u : c.update = {u}
    /\ c.create = {} \/ c.update = {}
    /\ \/ Cleared(c.task)
       \/ /\ SameMeans(c.task, store.task)
          /\ \/ c.task.status \in Terminal
             \/ ClosedIn(c.drafts) \cap StartedIn(store.journal) = {}
       \/ \E a \in Pending(store.approvals) :
              /\ c.update = {Grant(a.id, a.act)} /\ a.act # NoVal
              /\ c.task.approvedId = a.id /\ c.task.approvedAction = a.act

--------------------------------------------------------------------------------
(* One transaction. *)

(* An authority was granted, if there is one. *)
Known(s, auth) == auth # NoId => \E a : Grant(auth, a) \in s.approvals

LEMMA RuntimeFacts ==
    ASSUME RuntimeInv, NEW r \in Runners
    PROVE  /\ LedgerInv /\ StatusInv /\ TypeInv /\ store \in StoreType
           /\ store.task \in TaskRecord /\ store.journal \in Seq(EventRecord)
           /\ AttemptsInOrder(store.journal) /\ Newest(store, store.task)
           /\ proc[r] \in SessionType /\ proc[r].rec \in TaskRecord
           /\ proc[r].outer \in TaskRecord
           /\ SessionInLedger(store, proc[r]) /\ SessionInStatus(store, proc[r])
           /\ SessionGranted(store, proc[r]) /\ HoldsAuthority(store, proc[r])
           /\ proc[r].rec.sequence <= Len(store.journal)
           /\ proc[r].outer.sequence <= Len(store.journal)
           /\ NewTask \in TaskRecord /\ NewTask.sequence <= Len(store.journal)
           /\ Granted(store, store.task) /\ Cleared(NewTask)
           /\ Newest(store, NewTask) => SameMeans(NewTask, store.task)
<1>1. LedgerInv /\ StatusInv /\ AttemptsInOrder(store.journal)
  BY DEF RuntimeInv, LedgerInv
<1>2. /\ SessionGranted(store, proc[r]) /\ HoldsAuthority(store, proc[r])
      /\ Granted(store, store.task)
      /\ Newest(store, NewTask) => SameMeans(NewTask, store.task)
  BY DEF RuntimeInv, GrantsInv, AuthorityInv, AuthorityOnceInv
<1>3. Cleared(NewTask)
  BY DEF Cleared, NewTask
<1> QED
  BY <1>1, <1>2, <1>3, StatusFacts

(* An approved request stays what it is. *)
LEMMA GrantsKept ==
    ASSUME NEW s, NEW c, \A a, b \in s.approvals : a.id = b.id => a = b, Accepts(s, c)
    PROVE  \A id, act : Grant(id, act) \in s.approvals => Grant(id, act) \in Stored(s, c).approvals
<1>1. ASSUME NEW id, NEW act, Grant(id, act) \in s.approvals, NEW u \in c.update
      PROVE  u.id # id
  <2> DEFINE g == Grant(id, act)
  <2>1. PICK b \in s.approvals : b.id = u.id /\ b.status = "pending"
    BY DEF Accepts, ApprovalResolvable
  <2>2. g.id = id /\ g.status = "approved" /\ g \in s.approvals
    BY <1>1 DEF Grant
  <2> HIDE DEF g
  <2>3. g.id # b.id
    BY <2>1, <2>2
  <2> QED
    BY <2>1, <2>2, <2>3
<1>2. \A id, act : Grant(id, act).id = id
  BY DEF Grant
<1> QED
  BY <1>1, <1>2 DEF Stored

LEMMA ApprovalsStored ==
    ASSUME RuntimeInv, NEW c, Accepts(store, c), store' = Stored(store, c), AuthorityWritten(c)
    PROVE  /\ \A a, b \in store'.approvals : a.id = b.id => a = b
           /\ \A a \in store'.approvals : a.id # NoId
           /\ \A id, act : Grant(id, act) \in store.approvals => Grant(id, act) \in store'.approvals
           /\ \A t : Granted(store, t) => Granted(store', t)
           /\ \A p : SessionGranted(store, p) => SessionGranted(store', p)
           /\ Granted(store', store'.task)
<1>1. /\ \A a, b \in store.approvals : a.id = b.id => a = b
      /\ \A a \in store.approvals : a.id # NoId
      /\ Granted(store, store.task)
  BY DEF RuntimeInv, GrantsInv, AuthorityInv
<1> DEFINE kept == {a \in store.approvals : \A u \in c.update : u.id # a.id}
<1>2. store'.approvals = kept \cup c.create \cup c.update /\ store'.task = c.task
  BY DEF Stored
<1>3. \A id, act : Grant(id, act) \in store.approvals => Grant(id, act) \in store'.approvals
  BY <1>1, GrantsKept
<1>4. /\ \A a \in c.create : a.id # NoId /\ \A b \in store.approvals : b.id # a.id
      /\ \A u \in c.update : u.id # NoId
      /\ \A a, b \in c.create : a = b
      /\ \A a, b \in c.update : a = b
      /\ c.create = {} \/ c.update = {}
  BY <1>1 DEF AuthorityWritten, Accepts, ApprovalInsertable, ApprovalResolvable
<1> HIDE DEF AuthorityWritten
<1>5. \A a, b \in store'.approvals : a.id = b.id => a = b
  BY <1>1, <1>2, <1>4
<1>6. \A a \in store'.approvals : a.id # NoId
  BY <1>1, <1>2, <1>4
<1>7. \A t : Granted(store, t) => Granted(store', t)
  BY <1>3 DEF Granted
<1>8. \A p : SessionGranted(store, p) => SessionGranted(store', p)
  BY <1>3, <1>7 DEF SessionGranted
<1>9. Granted(store', c.task)
  <2>1. CASE Cleared(c.task)
    BY <2>1 DEF Cleared, Granted
  <2>2. CASE SameMeans(c.task, store.task)
    BY <1>1, <1>7, <2>2 DEF SameMeans, Granted
  <2>3. ASSUME NEW a \in Pending(store.approvals), c.update = {Grant(a.id, a.act)}, a.act # NoVal,
               c.task.approvedId = a.id, c.task.approvedAction = a.act
        PROVE  Granted(store', c.task)
    <3>1. a.id # NoId
      BY <1>1, <2>3 DEF Pending
    <3>2. Grant(a.id, a.act) \in store'.approvals
      BY <1>2, <2>3
    <3> QED
      BY <2>3, <3>1, <3>2 DEF Granted
  <2> QED
    BY <2>1, <2>2, <2>3 DEF AuthorityWritten
<1> QED
  BY <1>2, <1>3, <1>5, <1>6, <1>7, <1>8, <1>9

(* Nothing closes the attempt of an authority that is still in use. *)
LEMMA InUseKept ==
    ASSUME RuntimeInv, NEW c, NEW t, Numbered(c, t), Accepts(store, c),
           store' = Stored(store, c), TerminalKept, AuthorityWritten(c),
           NEW auth, Known(store, auth), NEW att \in StartedIn(store.journal),
           InUse(store, auth, att)
    PROVE  InUse(store', auth, att)
<1> SUFFICES ASSUME auth # NoId, store'.task.status \notin Terminal, store'.task.approvedId = auth
             PROVE  att \notin ClosedIn(store'.journal)
  BY DEF InUse
<1>1. /\ store \in StoreType
      /\ \A a, b \in store.approvals : a.id = b.id => a = b
  BY DEF RuntimeInv, LedgerInv, TypeInv, StoreOK, GrantsInv, AuthorityInv
<1>2. /\ store.journal \in Seq(EventRecord) /\ c.drafts \in Seq(EventRecord)
      /\ store'.journal = store.journal \o c.drafts /\ store'.task = c.task
  BY <1>1, NumberedStored
<1>3. store.task.status \notin Terminal
  BY DEF TerminalKept
<1>4. ~Cleared(c.task)
  BY <1>2 DEF Cleared
<1>5. ASSUME NEW a \in Pending(store.approvals)
      PROVE  c.task.approvedId # a.id
  <2>1. PICK act : Grant(auth, act) \in store.approvals
    BY DEF Known
  <2>2. Grant(auth, act).id = auth /\ Grant(auth, act).status = "approved"
    BY DEF Grant
  <2>3. a \in store.approvals /\ a.status = "pending"
    BY <1>5 DEF Pending
  <2> QED
    BY <1>1, <1>2, <2>1, <2>2, <2>3
<1>6. /\ SameMeans(c.task, store.task)
      /\ ClosedIn(c.drafts) \cap StartedIn(store.journal) = {}
  BY <1>2, <1>4, <1>5 DEF AuthorityWritten
<1>7. att \notin ClosedIn(store.journal)
  BY <1>2, <1>3, <1>6 DEF InUse, SameMeans
<1> QED
  BY <1>2, <1>6, <1>7, AttemptsJoined

(* GrantsInv without its sessions and commands. *)
GrantRecords ==
    /\ \A a, b \in store.approvals : a.id = b.id => a = b
    /\ \A a \in store.approvals : a.id # NoId
    /\ Granted(store, store.task)
    /\ Newest(store, NewTask) => SameMeans(NewTask, store.task)
    /\ \A i \in DOMAIN effects : InUse(store, effects[i].auth, effects[i].att)
    /\ AuthorizedExecution /\ ApprovalUsedOnce

InAuthority(s, p) == SessionGranted(s, p) /\ HoldsAuthority(s, p)

(* No effect and no other session uses the authority of r's next step. *)
FreshUse(r, p) ==
    /\ \A i \in DOMAIN effects : OneUse(effects[i], p)
    /\ \A q \in Runners \ {r} : proc[q].pc = "started" => OneUse(proc[q], p)

LEMMA GrantsStored ==
    ASSUME RuntimeInv, NEW c, NEW t, Numbered(c, t), Accepts(store, c),
           store' = Stored(store, c), UNCHANGED effects, TerminalKept, AuthorityWritten(c)
    PROVE  /\ GrantRecords'
           /\ \A q \in Runners : InAuthority(store', proc[q])
           /\ \A o \in Operators : Granted(store', command[o].view.task)
           /\ \A u : Granted(store, u) => Granted(store', u)
           /\ Granted(store', c.task) /\ store'.task = c.task
           /\ \A u \in TaskRecord : u.sequence <= Len(store.journal) => ~Newest(store', u)
<1>1. /\ \A a, b \in store'.approvals : a.id = b.id => a = b
      /\ \A a \in store'.approvals : a.id # NoId
      /\ \A id, act : Grant(id, act) \in store.approvals => Grant(id, act) \in store'.approvals
      /\ \A u : Granted(store, u) => Granted(store', u)
      /\ \A p : SessionGranted(store, p) => SessionGranted(store', p)
      /\ Granted(store', store'.task)
  BY ApprovalsStored
<1>2. /\ store \in StoreType /\ store'.task = c.task /\ NewTask \in TaskRecord
      /\ NewTask.sequence <= Len(store.journal)
  <2>1. store \in StoreType
    BY DEF RuntimeInv, LedgerInv, TypeInv, StoreOK
  <2>2. NewTask \in TaskRecord
    <3>1. Idle.rec = NewTask /\ Idle \in SessionType
      BY IdleOK DEF SessionOK, Idle
    <3> QED
      BY <3>1 DEF SessionType
  <2>3. NewTask.sequence <= Len(store.journal)
    <3>1. store.journal \in Seq(EventRecord) /\ AttemptsInOrder(store.journal)
      BY <2>1 DEF RuntimeInv, LedgerInv, StoreType
    <3> QED
      BY <3>1, NewTaskUnburdened DEF Unburdened
  <2> QED
    BY <2>1, <2>2, <2>3 DEF Stored
<1>3. \A u \in TaskRecord : u.sequence <= Len(store.journal) => ~Newest(store', u)
  BY <1>2, NoLongerNewest
<1>4. \A i \in DOMAIN effects :
          /\ effects[i].att \in StartedIn(store.journal)
          /\ InUse(store, effects[i].auth, effects[i].att)
          /\ effects[i].auth # NoId => Grant(effects[i].auth, effects[i].act) \in store.approvals
          /\ <<effects[i].act, effects[i].seen>> \in Permitted
          /\ effects[i].act \in ApprovalActs => effects[i].auth # NoId
  BY DEF RuntimeInv, LedgerInv, EffectsStarted, GrantsInv, AuthorityInv, AuthorityOnceInv,
         AuthorizedExecution, Grant
<1>5. ASSUME NEW i \in DOMAIN effects
      PROVE  InUse(store', effects[i].auth, effects[i].att)
  <2>1. Known(store, effects[i].auth)
    BY <1>4 DEF Known
  <2> QED
    BY <1>4, <2>1, InUseKept
<1>6. AuthorizedExecution'
  BY <1>1, <1>4 DEF AuthorizedExecution, Grant
<1>7. ApprovalUsedOnce'
  BY DEF RuntimeInv, GrantsInv, AuthorityOnceInv, ApprovalUsedOnce
<1>8. GrantRecords'
  BY <1>1, <1>2, <1>3, <1>5, <1>6, <1>7 DEF GrantRecords
<1>9. ASSUME NEW q \in Runners
      PROVE  InAuthority(store', proc[q])
  <2>1. /\ SessionGranted(store, proc[q]) /\ HoldsAuthority(store, proc[q])
        /\ SessionInLedger(store, proc[q])
        /\ proc[q].rec \in TaskRecord /\ proc[q].outer \in TaskRecord
        /\ proc[q].rec.sequence <= Len(store.journal)
        /\ proc[q].outer.sequence <= Len(store.journal)
    BY RuntimeFacts
  <2>2. ASSUME proc[q].pc = "started"
        PROVE  InUse(store', proc[q].auth, proc[q].att)
    <3>1. Known(store, proc[q].auth) /\ proc[q].att \in StartedIn(store.journal)
      BY <2>1, <2>2 DEF SessionGranted, SessionInLedger, Known
    <3>2. InUse(store, proc[q].auth, proc[q].att)
      BY <2>1, <2>2 DEF HoldsAuthority
    <3> QED
      BY <3>1, <3>2, InUseKept
  <2>3. ~Newest(store', proc[q].rec) /\ ~Newest(store', proc[q].outer)
    BY <1>3, <2>1
  <2>4. HoldsAuthority(store', proc[q])
    BY <2>1, <2>2, <2>3 DEF HoldsAuthority
  <2> QED
    BY <1>1, <2>1, <2>4 DEF InAuthority
<1>10. \A o \in Operators : Granted(store', command[o].view.task)
  BY <1>1 DEF RuntimeInv, GrantsInv, AuthorityInv
<1> QED
  BY <1>1, <1>2, <1>3, <1>8, <1>9, <1>10

(* The next state of session r, and what it must establish. *)
LEMMA NextAuthority ==
    ASSUME RuntimeInv, NEW r \in Runners, NEW next, proc' = [proc EXCEPT ![r] = next],
           UNCHANGED <<command, effects>>, GrantRecords',
           \A q \in Runners : InAuthority(store', proc[q]),
           \A o \in Operators : Granted(store', command[o].view.task),
           InAuthority(store', next), next.pc = "started" => FreshUse(r, next)
    PROVE  GrantsInv'
<1>1. DOMAIN proc = Runners
  BY DEF RuntimeInv, LedgerInv, TypeInv
<1>2. \A q \in Runners : proc'[q] = IF q = r THEN next ELSE proc[q]
  BY <1>1
<1>3. \A q \in Runners : InAuthority(store', proc'[q])
  BY <1>2
<1>4. \A o \in Operators : Granted(store', command'[o].view.task)
  OBVIOUS
<1>5. AuthorityInv'
  BY <1>3, <1>4 DEF AuthorityInv, GrantRecords, InAuthority
<1>6. ASSUME NEW p \in Runners, proc'[p].pc = "started"
      PROVE  /\ \A i \in DOMAIN effects' : OneUse(effects'[i], proc'[p])
             /\ \A q \in Runners : proc'[q].pc = "started" => OneUse(proc'[q], proc'[p])
  <2>1. ASSUME proc[p].pc = "started"
        PROVE  /\ \A i \in DOMAIN effects : OneUse(effects[i], proc[p])
               /\ \A q \in Runners : proc[q].pc = "started" => OneUse(proc[q], proc[p])
    BY <2>1 DEF RuntimeInv, GrantsInv, AuthorityOnceInv
  <2>2. CASE p # r
    BY <1>2, <1>6, <2>1, <2>2 DEF FreshUse, OneUse
  <2>3. CASE p = r
    BY <1>2, <1>6, <2>3 DEF FreshUse, OneUse
  <2> QED
    BY <2>2, <2>3
<1>7. AuthorityOnceInv'
  BY <1>3, <1>6 DEF AuthorityOnceInv, GrantRecords, InAuthority
<1> QED
  BY <1>5, <1>7 DEF GrantsInv

(* A step of session r without a transaction. *)
LEMMA SessionStepAuthority ==
    ASSUME RuntimeInv, NEW r \in Runners, NEW next, proc' = [proc EXCEPT ![r] = next],
           UNCHANGED <<store, command, effects>>,
           InAuthority(store, next), next.pc # "started"
    PROVE  GrantsInv'
<1>1. GrantRecords
  BY DEF RuntimeInv, GrantsInv, AuthorityInv, AuthorityOnceInv, GrantRecords
<1>2. GrantRecords'
  BY <1>1 DEF GrantRecords, AuthorizedExecution, ApprovalUsedOnce
<1>3. /\ \A q \in Runners : InAuthority(store, proc[q])
      /\ \A o \in Operators : Granted(store, command[o].view.task)
  BY DEF RuntimeInv, GrantsInv, AuthorityInv, AuthorityOnceInv, InAuthority
<1> QED
  BY <1>2, <1>3, NextAuthority

(* A record whose authority is granted, and the stored one if it is newest. *)
Authentic(s, t) == Granted(s, t) /\ (Newest(s, t) => SameMeans(t, s.task))

(* A session that holds no attempt. *)
LEMMA RestingInAuthority ==
    ASSUME NEW s, NEW p, p.pc \notin {"prepared", "started"},
           Authentic(s, p.rec), Authentic(s, p.outer)
    PROVE  InAuthority(s, p)
  BY DEF Authentic, InAuthority, SessionGranted, HoldsAuthority

LEMMA AuthenticRecords ==
    ASSUME RuntimeInv, NEW r \in Runners
    PROVE  /\ Authentic(store, NewTask) /\ Authentic(store, store.task)
           /\ Authentic(store, proc[r].rec) /\ Authentic(store, proc[r].outer)
  BY RuntimeFacts DEF Authentic, Cleared, Granted, SessionGranted, HoldsAuthority, SameMeans

LEMMA LeavingInAuthority ==
    ASSUME RuntimeInv, NEW r \in Runners, NEW p, p.pc \notin {"prepared", "started"},
           p.rec \in {NewTask, store.task, proc[r].rec},
           p.outer \in {NewTask, store.task, proc[r].outer, proc[r].rec}
    PROVE  InAuthority(store, p)
  BY AuthenticRecords, RestingInAuthority

(* A transaction of session r; next is what an accepted one leads to. *)
LEMMA SubmitAuthority ==
    ASSUME RuntimeInv, TerminalKept, NEW r \in Runners, NEW c, NEW t, Numbered(c, t),
           NEW done, NEW failed, Submit(r, c, done, failed), UNCHANGED <<command, effects>>,
           failed.pc \notin {"prepared", "started"}, failed.rec = NewTask,
           failed.outer \in {NewTask, proc[r].outer, proc[r].rec},
           done.rec \in {c.task, NewTask}, done.outer \in {c.task, NewTask, proc[r].outer},
           ASSUME Newest(store, t), Accepts(store, c), store' = Stored(store, c)
           PROVE  /\ AuthorityWritten(c)
                  /\ done.pc \in {"prepared", "started"} => InAuthority(store', done)
                  /\ done.pc = "started" => FreshUse(r, done)
    PROVE  GrantsInv'
<1>1. CASE Accepts(store, c) /\ store' = Stored(store, c)
  <2>1. PICK next \in {done, failed} : proc' = [proc EXCEPT ![r] = next]
    BY DEF Submit
  <2>2. Newest(store, t)
    BY <1>1, NumberedStored DEF RuntimeInv, LedgerInv, TypeInv, StoreOK
  <2>3. /\ AuthorityWritten(c)
        /\ done.pc \in {"prepared", "started"} => InAuthority(store', done)
        /\ done.pc = "started" => FreshUse(r, done)
    BY <1>1, <2>2
  <2>4. /\ GrantRecords'
        /\ \A q \in Runners : InAuthority(store', proc[q])
        /\ \A o \in Operators : Granted(store', command[o].view.task)
        /\ \A u : Granted(store, u) => Granted(store', u)
        /\ Granted(store', c.task) /\ store'.task = c.task
        /\ \A u \in TaskRecord : u.sequence <= Len(store.journal) => ~Newest(store', u)
    BY <1>1, <2>3, GrantsStored
  <2>5. ASSUME NEW u \in {NewTask, proc[r].rec, proc[r].outer}
        PROVE  Authentic(store', u)
    <3>1. u \in TaskRecord /\ u.sequence <= Len(store.journal)
      BY RuntimeFacts
    <3>2. Granted(store, u)
      BY AuthenticRecords DEF Authentic
    <3> QED
      BY <2>4, <3>1, <3>2 DEF Authentic
  <2>6. Authentic(store', c.task)
    BY <2>4 DEF Authentic, SameMeans
  <2>7. InAuthority(store', done)
    BY <2>3, <2>5, <2>6, RestingInAuthority
  <2>8. InAuthority(store', failed)
    BY <2>5, RestingInAuthority
  <2> QED
    BY <2>1, <2>3, <2>4, <2>7, <2>8, NextAuthority
<1>2. CASE store' = store /\ proc' = [proc EXCEPT ![r] = failed]
  <2>1. InAuthority(store, failed)
    BY LeavingInAuthority
  <2> QED
    BY <1>2, <2>1, SessionStepAuthority
<1> QED
  BY <1>1, <1>2 DEF Submit

(* A transaction of session r that leaves the authority as the session read *)
(* it, or takes it away, and decides no request.                           *)
LEMMA KeptAuthority ==
    ASSUME RuntimeInv, NEW c, NEW t, Authentic(store, t), Newest(store, t), c.update = {},
           c.create = {} \/ \E a : c.create = {a} /\ a.id # NoId,
           \/ Cleared(c.task)
           \/ /\ SameMeans(c.task, t)
              /\ \/ c.task.status \in Terminal
                 \/ ClosedIn(c.drafts) \cap StartedIn(store.journal) = {}
    PROVE  AuthorityWritten(c)
<1>1. CASE Cleared(c.task)
  BY <1>1, Zenon DEF AuthorityWritten
<1>2. CASE /\ SameMeans(c.task, t)
           /\ \/ c.task.status \in Terminal
              \/ ClosedIn(c.drafts) \cap StartedIn(store.journal) = {}
  <2>1. SameMeans(c.task, store.task)
    BY <1>2 DEF Authentic, SameMeans
  <2> QED
    BY <1>2, <2>1, Zenon DEF AuthorityWritten
<1> QED
  BY <1>1, <1>2

(* A transaction of operator o. *)
LEMMA ConcludeAuthority ==
    ASSUME RuntimeInv, TerminalKept, NEW o \in Operators, NEW c, NEW t, Numbered(c, t),
           Conclude(o, c),
           ASSUME Newest(store, t), Accepts(store, c)
           PROVE  AuthorityWritten(c)
    PROVE  GrantsInv'
<1>1. /\ UNCHANGED <<proc, effects>> /\ command' = [command EXCEPT ![o] = NoCommand]
      /\ DOMAIN command = Operators
  BY DEF Conclude, RuntimeInv, LedgerInv, TypeInv
<1>2. \A s : Granted(s, NoCommand.view.task)
  BY DEF NoCommand, CreatedStore, NewTask, Granted
<1>3. ASSUME GrantRecords', \A q \in Runners : InAuthority(store', proc[q]),
             \A p \in Operators : Granted(store', command[p].view.task)
      PROVE  GrantsInv'
  <2>1. \A p \in Operators : Granted(store', command'[p].view.task)
    BY <1>1, <1>2, <1>3
  <2>2. \A r \in Runners : InAuthority(store', proc'[r])
    BY <1>1, <1>3
  <2>3. AuthorityInv'
    BY <1>3, <2>1, <2>2 DEF AuthorityInv, GrantRecords, InAuthority
  <2>4. (\A r \in Runners : proc[r].pc = "started" =>
            /\ \A i \in DOMAIN effects : OneUse(effects[i], proc[r])
            /\ \A q \in Runners : proc[q].pc = "started" => OneUse(proc[q], proc[r]))'
    BY <1>1 DEF RuntimeInv, GrantsInv, AuthorityOnceInv
  <2>5. AuthorityOnceInv'
    BY <1>3, <2>2, <2>4 DEF AuthorityOnceInv, GrantRecords, InAuthority
  <2> QED
    BY <2>3, <2>5 DEF GrantsInv
<1>4. CASE Accepts(store, c) /\ store' = Stored(store, c)
  <2>1. Newest(store, t)
    BY <1>4, NumberedStored DEF RuntimeInv, LedgerInv, TypeInv, StoreOK
  <2>2. AuthorityWritten(c)
    BY <1>4, <2>1
  <2> QED
    BY <1>1, <1>3, <1>4, <2>2, GrantsStored
<1>5. CASE UNCHANGED store
  <2>1. GrantRecords
    BY DEF RuntimeInv, GrantsInv, AuthorityInv, AuthorityOnceInv, GrantRecords
  <2>2. GrantRecords'
    BY <1>1, <1>5, <2>1 DEF GrantRecords, AuthorizedExecution, ApprovalUsedOnce
  <2>3. /\ \A q \in Runners : InAuthority(store, proc[q])
        /\ \A p \in Operators : Granted(store, command[p].view.task)
    BY DEF RuntimeInv, GrantsInv, AuthorityInv, AuthorityOnceInv, InAuthority
  <2> QED
    BY <1>3, <1>5, <2>2, <2>3
<1> QED
  BY <1>4, <1>5 DEF Conclude

--------------------------------------------------------------------------------
(* The actions of a session. *)

LEMMA OpeningAuthority ==
    ASSUME RuntimeInv, NEW r \in Runners, Resume(r) \/ Reopen(r) \/ Enter(r)
    PROVE  GrantsInv'
<1> DEFINE pc       == IF store.task.status # "running" THEN "start"
                       ELSE IF External THEN "refresh" ELSE "loop"
           observed == LatestObservation(store.journal)
           open     == [proc[r] EXCEPT !.pc = pc, !.rec = store.task, !.obs = observed,
                                       !.outer = store.task, !.outerObs = observed]
<1>1. UNCHANGED <<store, command, effects>>
  BY DEF Resume, Reopen, Enter
<1>2. /\ AtGate(r).pc = "gate" /\ AtGate(r).rec = store.task /\ AtGate(r).outer = NewTask
      /\ WithAdapter(r).pc = "opened" /\ WithAdapter(r).rec = NewTask
      /\ WithAdapter(r).outer = NewTask
      /\ Idle.pc = "idle" /\ Idle.rec = NewTask /\ Idle.outer = NewTask
  BY DEF AtGate, WithAdapter, Idle
<1>3. proc[r] \in SessionType
  BY RuntimeFacts
<1>4. /\ open.pc \notin {"prepared", "started"} /\ open.rec = store.task
      /\ open.outer = store.task
  BY <1>3 DEF SessionType
<1> HIDE DEF open
<1>5. ASSUME NEW next \in {Idle, AtGate(r), WithAdapter(r), open},
             proc' = [proc EXCEPT ![r] = next]
      PROVE  GrantsInv'
  <2>1. InAuthority(store, next) /\ next.pc # "started"
    BY <1>2, <1>4, LeavingInAuthority
  <2> QED
    BY <1>1, <1>5, <2>1, SessionStepAuthority
<1>6. CASE Resume(r)
  BY <1>5, <1>6 DEF Resume
<1>7. CASE Reopen(r)
  BY <1>5, <1>7 DEF Reopen
<1>8. CASE Enter(r)
  BY <1>5, <1>8 DEF Enter, open
<1> QED
  BY <1>6, <1>7, <1>8

LEMMA IdleInAuthority ==
    ASSUME RuntimeInv, NEW r \in Runners
    PROVE  InAuthority(store, Idle) /\ Idle.pc = "idle" /\ Idle.rec = NewTask /\ Idle.outer = NewTask
<1>1. Idle.pc = "idle" /\ Idle.rec = NewTask /\ Idle.outer = NewTask
  BY DEF Idle
<1> QED
  BY <1>1, LeavingInAuthority

LEMMA NoAttemptClosed ==
    ASSUME NEW d, AttemptEventsOf(d) = {} \/ Closings(d) = {}
    PROVE  ClosedIn(d) = {}
  BY NoAttemptEvents DEF ClosedIn, AttemptsAt

LEMMA GateAuthority ==
    ASSUME RuntimeInv, TerminalKept, NEW r \in Runners, Gate(r)
    PROVE  GrantsInv'
<1>1. ASSUME NEW c, NEW done, GateCommit(r, c, done)
      PROVE  GrantsInv'
  <2>1. /\ Submit(r, c, done, Idle) /\ UNCHANGED <<command, effects>>
        /\ Numbered(c, proc[r].rec) /\ SameMeans(c.task, proc[r].rec)
        /\ c.create = {} /\ c.update = {}
        /\ done.pc \in {"idle", "gated"} /\ done.rec = NewTask /\ done.outer = NewTask
    BY <1>1 DEF GateCommit
  <2>2. ASSUME Newest(store, proc[r].rec)
        PROVE  AuthorityWritten(c)
    <3>1. ClosedIn(c.drafts) \cap StartedIn(store.journal) = {}
      BY <1>1, <2>2 DEF GateCommit
    <3> QED
      BY <2>1, <2>2, <3>1, AuthenticRecords, KeptAuthority
  <2> QED
    BY <2>1, <2>2, IdleInAuthority, SubmitAuthority
<1> QED
  BY <1>1, GateCommits, IdleInAuthority, SessionStepAuthority DEF RuntimeInv

(* A transaction about no attempt. *)
LEMMA QuietAuthority ==
    ASSUME RuntimeInv, NEW c, NEW t, Authentic(store, t), Newest(store, t),
           AttemptEventsOf(c.drafts) = {}, SameMeans(c.task, t), c.update = {},
           c.create = {} \/ \E a : c.create = {a} /\ a.id # NoId
    PROVE  AuthorityWritten(c)
<1>1. ClosedIn(c.drafts) = {}
  BY NoAttemptClosed
<1> QED
  BY <1>1, KeptAuthority

LEMMA AbandonedFields ==
    ASSUME NEW r \in Runners
    PROVE  /\ Abandoned(r).pc = "closing" /\ Abandoned(r).rec = NewTask
           /\ Abandoned(r).outer = proc[r].outer
<1>1. /\ Closing(r, proc[r].outer, proc[r].outerObs).pc = "closing"
      /\ Closing(r, proc[r].outer, proc[r].outerObs).rec = NewTask
      /\ Closing(r, proc[r].outer, proc[r].outerObs).outer = proc[r].outer
  BY ClosingFields
<1> QED
  BY <1>1 DEF Abandoned

LEMMA StartAuthority ==
    ASSUME RuntimeInv, TerminalKept, NEW r \in Runners, NEW c, NEW done, NEW failed,
           StartCommit(r, c, done, failed)
    PROVE  GrantsInv'
<1>1. /\ Submit(r, c, done, failed) /\ UNCHANGED <<command, effects>>
      /\ failed = Abandoned(r) \/ \E s \in States : failed = Closing(r, proc[r].rec, s)
      /\ Numbered(c, proc[r].rec) /\ AttemptEventsOf(c.drafts) = {}
      /\ SameMeans(c.task, proc[r].rec) /\ c.create = {} /\ c.update = {}
      /\ done.outer = c.task /\ done.rec \in {c.task, NewTask}
      /\ done.pc \in {"loop", "refresh", "closing"}
  BY DEF StartCommit
<1>2. /\ failed.pc = "closing" /\ failed.rec = NewTask
      /\ failed.outer \in {proc[r].outer, proc[r].rec}
  BY <1>1, AbandonedFields, ClosingFields
<1>3. ASSUME Newest(store, proc[r].rec)
      PROVE  AuthorityWritten(c)
  BY <1>1, <1>3, AuthenticRecords, QuietAuthority
<1> QED
  BY <1>1, <1>2, <1>3, SubmitAuthority

(* The commit of an iteration. *)
LEMMA IterationAuthority ==
    ASSUME RuntimeInv, TerminalKept, NEW r \in Runners, NEW c, NEW observation,
           Numbered(c, proc[r].rec), SubmitIteration(r, c, observation),
           ASSUME Newest(store, proc[r].rec), Accepts(store, c), store' = Stored(store, c)
           PROVE  AuthorityWritten(c)
    PROVE  GrantsInv'
<1> DEFINE done  == AfterIteration(r, c.task, observation)
           loops == [Looping(r, c.task, observation) EXCEPT !.worked = TRUE]
<1>1. Submit(r, c, done, Abandoned(r)) /\ UNCHANGED <<command, effects>>
  BY DEF SubmitIteration
<1>2. proc[r] \in SessionType
  BY RuntimeFacts
<1>3. loops.pc = "loop" /\ loops.rec = c.task /\ loops.outer = proc[r].outer
  BY <1>2 DEF Looping, SessionType
<1>4. done = loops \/ done = Closing(r, c.task, observation)
  BY DEF AfterIteration
<1> HIDE DEF loops, done
<1>5. /\ done.pc \in {"loop", "closing"} /\ done.rec \in {c.task, NewTask}
      /\ done.outer \in {c.task, proc[r].outer}
  BY <1>3, <1>4, ClosingFields
<1> QED
  BY <1>1, <1>5, AbandonedFields, SubmitAuthority

LEMMA LoopAuthority ==
    ASSUME RuntimeInv, TerminalKept, NEW r \in Runners, NEW c, NEW observation,
           LoopCommit(r, c, observation)
    PROVE  GrantsInv'
<1>1. /\ SubmitIteration(r, c, observation) /\ Numbered(c, proc[r].rec)
      /\ AttemptEventsOf(c.drafts) = {} /\ SameMeans(c.task, proc[r].rec)
      /\ c.update = {}
      /\ c.create = {} \/ \E a : c.create = {a} /\ a.id = proc[r].rec.sequence + 1
  BY DEF LoopCommit
<1>2. proc[r].rec.sequence \in Nat
  <2> DEFINE rec == proc[r].rec
  <2>1. rec \in TaskRecord
    BY RuntimeFacts
  <2> HIDE DEF rec
  <2> QED
    BY <2>1 DEF TaskRecord, rec
<1>3. c.create = {} \/ \E a : c.create = {a} /\ a.id # NoId
  BY <1>1, <1>2 DEF NoId
<1>4. ASSUME Newest(store, proc[r].rec)
      PROVE  AuthorityWritten(c)
  BY <1>1, <1>3, <1>4, AuthenticRecords, QuietAuthority
<1> QED
  BY <1>1, <1>4, IterationAuthority

LEMMA IterateAuthority ==
    ASSUME RuntimeInv, TerminalKept, NEW r \in Runners, Iterate(r)
    PROVE  GrantsInv'
<1>1. CASE Yield(r)
  <2> DEFINE next == Closing(r, proc[r].rec, proc[r].obs)
  <2>1. proc' = [proc EXCEPT ![r] = next] /\ UNCHANGED <<store, command, effects>>
    BY <1>1 DEF Yield
  <2>2. next.pc = "closing" /\ next.rec = NewTask /\ next.outer = proc[r].rec
    BY ClosingFields
  <2> HIDE DEF next
  <2>3. InAuthority(store, next)
    BY <2>2, LeavingInAuthority
  <2> QED
    BY <2>1, <2>2, <2>3, SessionStepAuthority
<1> QED
  BY <1>1, RuntimeFacts, IterateCommits, LoopAuthority

LEMMA ResolvingAuthority ==
    ASSUME RuntimeInv, TerminalKept, NEW r \in Runners, NEW c, NEW after,
           ResolvingCommit(r, c, after)
    PROVE  GrantsInv'
<1>1. /\ SubmitIteration(r, c, after) /\ Numbered(c, proc[r].rec)
      /\ c.create = {} /\ c.update = {}
      /\ \/ Cleared(c.task)
         \/ c.task.status \in Terminal /\ SameMeans(c.task, proc[r].rec)
  BY StatusWords DEF ResolvingCommit, Cleared
<1>2. ASSUME Newest(store, proc[r].rec)
      PROVE  AuthorityWritten(c)
  BY <1>1, <1>2, AuthenticRecords, KeptAuthority
<1> QED
  BY <1>1, <1>2, IterationAuthority

LEMMA ShutdownAuthority ==
    ASSUME RuntimeInv, TerminalKept, NEW r \in Runners, Shutdown(r)
    PROVE  GrantsInv'
<1>1. ASSUME NEW c, ShutdownCommit(r, c)
      PROVE  GrantsInv'
  <2>1. /\ Submit(r, c, Idle, Idle) /\ UNCHANGED <<command, effects>>
        /\ Numbered(c, proc[r].outer) /\ AttemptEventsOf(c.drafts) = {}
        /\ SameMeans(c.task, proc[r].outer) /\ c.create = {} /\ c.update = {}
    BY <1>1 DEF ShutdownCommit
  <2>2. ASSUME Newest(store, proc[r].outer)
        PROVE  AuthorityWritten(c)
    BY <2>1, <2>2, AuthenticRecords, QuietAuthority
  <2> QED
    BY <2>1, <2>2, IdleInAuthority, SubmitAuthority
<1> QED
  BY <1>1, RuntimeFacts, ShutdownCommits, IdleInAuthority, SessionStepAuthority

LEMMA CrashAuthority ==
    ASSUME RuntimeInv, NEW r \in Runners, Crash(r)
    PROVE  GrantsInv'
  BY IdleInAuthority, SessionStepAuthority DEF Crash

LEMMA AdapterRaisesAuthority ==
    ASSUME RuntimeInv, NEW r \in Runners, AdapterRaises(r)
    PROVE  GrantsInv'
<1>1. /\ UNCHANGED <<store, command, effects>> /\ proc[r] \in SessionType
      /\ proc[r].rec \in TaskRecord /\ Authentic(store, proc[r].rec)
      /\ Authentic(store, proc[r].outer)
  BY RuntimeFacts, AuthenticRecords DEF AdapterRaises
<1>2. ASSUME NEW rec, SameMeans(rec, proc[r].rec), rec.sequence = proc[r].rec.sequence,
             NEW next, proc' = [proc EXCEPT ![r] = next],
             next.pc = "error", next.rec = rec, next.outer = proc[r].outer
      PROVE  GrantsInv'
  <2>1. Authentic(store, next.rec)
    BY <1>1, <1>2 DEF Authentic, Granted, SameMeans, Newest
  <2>2. InAuthority(store, next)
    BY <1>1, <1>2, <2>1, RestingInAuthority
  <2> QED
    BY <1>1, <1>2, <2>2, SessionStepAuthority
<1>3. CASE proc' = [proc EXCEPT ![r] = [proc[r] EXCEPT !.pc = "error", !.rec = Counted(r)]]
  <2> DEFINE counted == Counted(r)
             next    == [proc[r] EXCEPT !.pc = "error", !.rec = counted]
  <2>1. counted.sequence = proc[r].rec.sequence /\ SameMeans(counted, proc[r].rec)
    BY <1>1 DEF Counted, TaskRecord, SameMeans
  <2> HIDE DEF counted
  <2>2. next.pc = "error" /\ next.rec = counted /\ next.outer = proc[r].outer
    BY <1>1 DEF SessionType
  <2>3. proc' = [proc EXCEPT ![r] = next]
    BY <1>3 DEF counted
  <2> HIDE DEF next
  <2> QED
    BY <1>2, <2>1, <2>2, <2>3
<1>4. CASE proc' = [proc EXCEPT ![r] = [proc[r] EXCEPT !.pc = "error"]]
  <2> DEFINE next == [proc[r] EXCEPT !.pc = "error"]
  <2>1. next.pc = "error" /\ next.rec = proc[r].rec /\ next.outer = proc[r].outer
    BY <1>1 DEF SessionType
  <2>2. proc' = [proc EXCEPT ![r] = next] /\ SameMeans(proc[r].rec, proc[r].rec)
    BY <1>4 DEF SameMeans
  <2> HIDE DEF next
  <2> QED
    BY <1>2, <2>1, <2>2
<1> QED
  BY <1>3, <1>4 DEF AdapterRaises

(* Where an attempt is about to start, nothing else uses its authority: what *)
(* used it would be open, and one attempt is open at a time.                 *)
LEMMA OneOpenUse ==
    ASSUME RuntimeInv, NEW r \in Runners, Newest(store, proc[r].rec), proc[r].pc = "prepared",
           NEW e, e.att \in StartedIn(store.journal), InUse(store, e.auth, e.att),
           NEW p, p.att = proc[r].att, p.auth = proc[r].auth
    PROVE  OneUse(e, p)
<1> SUFFICES ASSUME e.auth # NoId, e.auth = p.auth
             PROVE  e.att = p.att
  BY DEF OneUse
<1>1. /\ SessionInLedger(store, proc[r]) /\ SessionInStatus(store, proc[r])
      /\ HoldsAuthority(store, proc[r])
      /\ store.journal \in Seq(EventRecord) /\ AttemptsInOrder(store.journal)
  BY RuntimeFacts
<1>2. store.task.status \notin Terminal
  BY <1>1, StatusWords DEF SessionInStatus, InFlight
<1>3. store.task.approvedId = e.auth
  BY <1>1 DEF HoldsAuthority, SameMeans
<1>4. e.att \notin ClosedIn(store.journal)
  BY <1>2, <1>3 DEF InUse
<1>5. e.att \in Prepared(store.journal)
  BY <1>1, InOrder
<1>6. p.att \in Prepared(store.journal) \ ClosedIn(store.journal)
  BY <1>1 DEF SessionInLedger, Acting
<1> QED
  BY <1>1, <1>4, <1>5, <1>6, OneOpen

(* What the policy allows is permitted, and an action that needs approval is *)
(* chosen with the authority that names it.                                  *)
LEMMA PreparedInAuthority ==
    ASSUME RuntimeInv, NEW r \in Runners, NEW act, MayExecute(r, act), act \in Chosen(r),
           NeedsApproval(act) => Approved(r)
    PROVE  /\ <<act, proc[r].obs>> \in Permitted
           /\ act \in ApprovalActs => proc[r].rec.approvedId # NoId
           /\ proc[r].rec.approvedId # NoId =>
                  Grant(proc[r].rec.approvedId, act) \in store.approvals
<1>1. Granted(store, proc[r].rec)
  BY RuntimeFacts DEF SessionGranted
<1>2. <<act, proc[r].obs>> \in Permitted
  BY DEF MayExecute, PolicyAllows
<1>3. Approved(r) = (proc[r].rec.approvedId # NoId)
  BY <1>1 DEF Granted, Approved
<1>4. Approved(r) => act = proc[r].rec.approvedAction
  BY DEF Chosen
<1> QED
  BY <1>1, <1>2, <1>3, <1>4 DEF Granted, NeedsApproval

LEMMA AttemptAuthority ==
    ASSUME RuntimeInv, TerminalKept, NEW r \in Runners, NEW c, NEW next,
           AttemptCommit(r, c, next)
    PROVE  GrantsInv'
<1>1. /\ Submit(r, c, next, Abandoned(r)) /\ UNCHANGED <<command, effects>>
      /\ Numbered(c, proc[r].rec) /\ c.create = {} /\ c.update = {}
      /\ Closings(c.drafts) = {} /\ SameMeans(c.task, proc[r].rec)
      /\ next.rec = c.task /\ next.outer = proc[r].outer /\ next.obs = proc[r].obs
      /\ next.pc \in {"prepared", "started"}
  BY DEF AttemptCommit
<1>2. /\ SessionGranted(store, proc[r]) /\ HoldsAuthority(store, proc[r])
      /\ SessionInLedger(store, proc[r]) /\ store \in StoreType
      /\ proc[r].outer \in TaskRecord /\ proc[r].outer.sequence <= Len(store.journal)
  BY RuntimeFacts
<1>3. ClosedIn(c.drafts) = {}
  BY <1>1, NoAttemptClosed
<1>4. ASSUME Newest(store, proc[r].rec)
      PROVE  AuthorityWritten(c)
  BY <1>1, <1>3, <1>4, AuthenticRecords, KeptAuthority
<1>5. CASE next.pc = "prepared"
  <2>1. /\ MayExecute(r, next.act) /\ next.act \in Chosen(r)
        /\ NeedsApproval(next.act) => Approved(r)
        /\ next.auth = proc[r].rec.approvedId
    BY <1>5 DEF AttemptCommit
  <2>2. /\ <<next.act, next.obs>> \in Permitted
        /\ next.act \in ApprovalActs => next.auth # NoId
        /\ next.auth # NoId => Grant(next.auth, next.act) \in store.approvals
        /\ next.auth = next.rec.approvedId
    BY <1>1, <2>1, PreparedInAuthority DEF SameMeans
  <2>3. ASSUME Newest(store, proc[r].rec), Accepts(store, c), store' = Stored(store, c)
        PROVE  InAuthority(store', next)
    <3>1. /\ Granted(store', proc[r].outer) /\ Granted(store', c.task)
          /\ next.auth # NoId => Grant(next.auth, next.act) \in store'.approvals
          /\ store'.task = c.task
      <4>1. AuthorityWritten(c) /\ store'.task = c.task
        BY <1>4, <2>3 DEF Stored
      <4> QED
        BY <1>2, <2>2, <2>3, <4>1, ApprovalsStored DEF SessionGranted
    <3>2. ~Newest(store', next.outer)
      BY <1>1, <1>2, <2>3, NoLongerNewest
    <3> QED
      BY <1>1, <1>5, <2>2, <3>1, <3>2
      DEF InAuthority, SessionGranted, HoldsAuthority, SameMeans
  <2> QED
    BY <1>1, <1>4, <1>5, <2>3, AbandonedFields, SubmitAuthority
<1>6. CASE next.pc = "started"
  <2>1. /\ proc[r].pc = "prepared" /\ next.act = proc[r].act
        /\ next.att = proc[r].att /\ next.auth = proc[r].auth
    BY <1>6 DEF AttemptCommit
  <2>2. ASSUME Newest(store, proc[r].rec), Accepts(store, c), store' = Stored(store, c)
        PROVE  InAuthority(store', next) /\ FreshUse(r, next)
    <3>1. /\ Granted(store', proc[r].outer) /\ Granted(store', c.task)
          /\ next.auth # NoId => Grant(next.auth, next.act) \in store'.approvals
          /\ store'.task = c.task
      <4>1. AuthorityWritten(c) /\ store'.task = c.task
        BY <1>4, <2>2 DEF Stored
      <4> QED
        BY <1>2, <2>1, <2>2, <4>1, ApprovalsStored DEF SessionGranted
    <3>2. ~Newest(store', next.outer)
      BY <1>1, <1>2, <2>2, NoLongerNewest
    <3>3. next.att \notin ClosedIn(store'.journal)
      <4>1. proc[r].att \notin ClosedIn(store.journal)
        BY <1>2, <2>1, <2>2 DEF SessionInLedger
      <4>2. /\ store.journal \in Seq(EventRecord) /\ c.drafts \in Seq(EventRecord)
            /\ store'.journal = store.journal \o c.drafts
        BY <1>1, <1>2, <2>2, NumberedStored
      <4> QED
        BY <1>3, <2>1, <4>1, <4>2, AttemptsJoined
    <3>4. InAuthority(store', next)
      BY <1>1, <1>2, <1>6, <2>1, <3>1, <3>2, <3>3
      DEF InAuthority, SessionGranted, HoldsAuthority, SameMeans, InUse
    <3>5. ASSUME NEW i \in DOMAIN effects
          PROVE  OneUse(effects[i], next)
      <4>1. /\ effects[i].att \in StartedIn(store.journal)
            /\ InUse(store, effects[i].auth, effects[i].att)
        BY DEF RuntimeInv, LedgerInv, EffectsStarted, GrantsInv, AuthorityOnceInv
      <4> QED
        BY <2>1, <2>2, <4>1, OneOpenUse
    <3>6. ASSUME NEW q \in Runners, proc[q].pc = "started"
          PROVE  OneUse(proc[q], next)
      <4>1. SessionInLedger(store, proc[q]) /\ HoldsAuthority(store, proc[q])
        BY RuntimeFacts
      <4>2. proc[q].att \in StartedIn(store.journal) /\ InUse(store, proc[q].auth, proc[q].att)
        BY <3>6, <4>1 DEF SessionInLedger, HoldsAuthority
      <4> QED
        BY <2>1, <2>2, <4>2, OneOpenUse
    <3> QED
      BY <3>4, <3>5, <3>6 DEF FreshUse
  <2> QED
    BY <1>1, <1>4, <1>6, <2>2, AbandonedFields, SubmitAuthority
<1> QED
  BY <1>1, <1>5, <1>6

LEMMA ExecuteAuthority ==
    ASSUME RuntimeInv, NEW r \in Runners, Execute(r)
    PROVE  GrantsInv'
<1> DEFINE next(pc, ok, s) == [proc[r] EXCEPT !.pc = pc, !.success = ok, !.sim = s]
           e == [att |-> proc[r].att, act |-> proc[r].act, auth |-> proc[r].auth,
                 seen |-> proc[r].obs]
<1>1. /\ UNCHANGED <<store, command>> /\ proc[r].pc = "started"
      /\ effects' = Append(effects, e) \/ UNCHANGED effects
  BY Zenon DEF Execute, Apply
<1>2. PICK pc, ok, s : /\ proc' = [proc EXCEPT ![r] = next(pc, ok, s)]
                       /\ pc \in {"error", "executed"}
  BY Zenon DEF Execute
<1>3. /\ proc[r] \in SessionType /\ SessionGranted(store, proc[r])
      /\ SessionInLedger(store, proc[r]) /\ HoldsAuthority(store, proc[r])
      /\ Authentic(store, proc[r].rec) /\ Authentic(store, proc[r].outer)
  BY RuntimeFacts, AuthenticRecords
<1> DEFINE p == next(pc, ok, s)
<1>4. p.pc = pc /\ p.rec = proc[r].rec /\ p.outer = proc[r].outer
  BY <1>3 DEF SessionType
<1>5. proc' = [proc EXCEPT ![r] = p] /\ p.pc \notin {"prepared", "started"}
  BY <1>2, <1>4
<1> HIDE DEF p, next
<1>6. InAuthority(store, p)
  BY <1>3, <1>4, <1>5, RestingInAuthority
<1>7. CASE UNCHANGED effects
  BY <1>1, <1>5, <1>6, <1>7, SessionStepAuthority
<1>8. CASE effects' = Append(effects, e)
  <2>1. /\ e.att = proc[r].att /\ e.act = proc[r].act /\ e.auth = proc[r].auth
        /\ e.seen = proc[r].obs
    OBVIOUS
  <2> HIDE DEF e
  <2>2. effects \in Seq(EffectRecord)
    BY DEF RuntimeInv, LedgerInv, TypeInv
  <2>3. \A i \in DOMAIN effects' : \/ i \in DOMAIN effects /\ effects'[i] = effects[i]
                                   \/ i = Len(effects) + 1 /\ effects'[i] = e
    <3>1. DOMAIN effects = 1 .. Len(effects) /\ Len(effects) \in Nat
      BY <2>2, LenProperties
    <3> DEFINE n == Len(effects)
    <3>2. /\ DOMAIN effects' = 1 .. n + 1 /\ effects'[n + 1] = e
          /\ \A i \in 1 .. n : effects'[i] = effects[i]
      BY <1>8, <2>2, <3>1
    <3>3. DOMAIN effects = 1 .. n /\ n \in Nat
      BY <3>1
    <3> HIDE DEF n
    <3>4. \A i \in DOMAIN effects' : \/ i \in DOMAIN effects /\ effects'[i] = effects[i]
                                     \/ i = n + 1 /\ effects'[i] = e
      BY <3>2, <3>3
    <3> QED
      BY <3>4 DEF n
  <2>4. /\ \A i \in DOMAIN effects : InUse(store, effects[i].auth, effects[i].att)
        /\ AuthorizedExecution /\ ApprovalUsedOnce
        /\ \A i \in DOMAIN effects : OneUse(effects[i], proc[r])
        /\ \A q \in Runners : proc[q].pc = "started" => OneUse(proc[q], proc[r])
        /\ \A i \in DOMAIN effects : effects[i].att # proc[r].att
    BY <1>1 DEF RuntimeInv, GrantsInv, AuthorityInv, AuthorityOnceInv, LedgerInv,
                AttemptsHeldOnce, Holding
  <2>5. /\ <<e.act, e.seen>> \in Permitted
        /\ e.act \in ApprovalActs => e.auth # NoId
        /\ e.auth # NoId => Grant(e.auth, e.act) \in store.approvals
        /\ InUse(store, e.auth, e.att)
    BY <1>1, <1>3, <2>1 DEF SessionGranted, HoldsAuthority
  <2>6. AuthorizedExecution'
    <3>1. ASSUME NEW i \in DOMAIN effects'
          PROVE  /\ <<effects'[i].act, effects'[i].seen>> \in Permitted
                 /\ effects'[i].act \in ApprovalActs => effects'[i].auth # NoId
                 /\ effects'[i].auth # NoId =>
                        Grant(effects'[i].auth, effects'[i].act) \in store.approvals
      BY <2>3, <2>4, <2>5 DEF AuthorizedExecution, Grant
    <3> QED
      BY <1>1, <3>1 DEF AuthorizedExecution, Grant
  <2>7. \A i \in DOMAIN effects' : InUse(store', effects'[i].auth, effects'[i].att)
    BY <1>1, <2>3, <2>4, <2>5
  <2>8. \A i \in DOMAIN effects : ~(effects[i].auth # NoId /\ effects[i].auth = e.auth)
    BY <2>1, <2>4 DEF OneUse
  <2>9. ApprovalUsedOnce'
    BY <2>3, <2>4, <2>8 DEF ApprovalUsedOnce
  <2>10. /\ DOMAIN proc = Runners
         /\ \A q \in Runners : proc'[q] = IF q = r THEN p ELSE proc[q]
    BY <1>5 DEF RuntimeInv, LedgerInv, TypeInv
  <2>11. \A q \in Runners : InAuthority(store', proc'[q])
    BY <1>1, <1>6, <2>10 DEF RuntimeInv, GrantsInv, AuthorityInv, AuthorityOnceInv, InAuthority
  <2>12. ASSUME NEW q \in Runners, proc'[q].pc = "started"
         PROVE  /\ \A i \in DOMAIN effects' : OneUse(effects'[i], proc'[q])
                /\ \A o \in Runners : proc'[o].pc = "started" => OneUse(proc'[o], proc'[q])
    <3>1. q # r /\ proc'[q] = proc[q]
      BY <1>5, <2>10, <2>12
    <3>2. /\ \A i \in DOMAIN effects : OneUse(effects[i], proc[q])
          /\ \A o \in Runners : proc[o].pc = "started" => OneUse(proc[o], proc[q])
      BY <2>12, <3>1 DEF RuntimeInv, GrantsInv, AuthorityOnceInv
    <3>3. OneUse(e, proc[q])
      BY <1>1, <2>1, <3>2 DEF OneUse
    <3> QED
      BY <1>5, <2>3, <2>10, <3>1, <3>2, <3>3
  <2>13. \A o \in Operators : Granted(store', command'[o].view.task)
    BY <1>1 DEF RuntimeInv, GrantsInv, AuthorityInv
  <2>14. AuthorityInv'
    BY <1>1, <2>6, <2>11, <2>13 DEF AuthorityInv, InAuthority, RuntimeInv, GrantsInv
  <2>15. AuthorityOnceInv'
    BY <1>1, <2>7, <2>9, <2>11, <2>12
    DEF AuthorityOnceInv, InAuthority, RuntimeInv, GrantsInv
  <2> QED
    BY <2>14, <2>15 DEF GrantsInv
<1> QED
  BY <1>1, <1>7, <1>8

--------------------------------------------------------------------------------
(* The operator's commands. *)

LEMMA ReadAuthority ==
    ASSUME RuntimeInv, NEW o \in Operators, NEW name \in Commands, Read(o, name)
    PROVE  GrantsInv'
<1> DEFINE q(asked) == [name |-> name, view |-> store, asked |-> asked]
<1>1. PICK asked \in Named(name) : command' = [command EXCEPT ![o] = q(asked)]
  BY DEF Read
<1>2. UNCHANGED <<store, proc, effects>> /\ q(asked).view = store
  BY DEF Read
<1>3. command' = [command EXCEPT ![o] = q(asked)]
  BY <1>1
<1> HIDE DEF q
<1>4. /\ DOMAIN command = Operators /\ Granted(store, store.task)
      /\ \A p \in Operators : Granted(store, command[p].view.task)
  BY DEF RuntimeInv, LedgerInv, TypeInv, GrantsInv, AuthorityInv
<1>5. \A p \in Operators : Granted(store, command'[p].view.task)
  BY <1>2, <1>3, <1>4
<1>6. AuthorityInv'
  BY <1>2, <1>5 DEF RuntimeInv, GrantsInv, AuthorityInv, AuthorizedExecution
<1>7. AuthorityOnceInv'
  BY <1>2 DEF RuntimeInv, GrantsInv, AuthorityOnceInv, ApprovalUsedOnce
<1> QED
  BY <1>6, <1>7 DEF GrantsInv

(* An approval makes the pending request the authority of the task; the    *)
(* other decisions end the task.                                           *)
LEMMA DecisionAuthority ==
    ASSUME RuntimeInv, TerminalKept, NEW o \in Operators, NEW c, DecisionCommit(o, c)
    PROVE  GrantsInv'
<1> DEFINE view == command[o].view
<1>1. Conclude(o, c) /\ Numbered(c, view.task) /\ c.create = {} /\ command[o].name # "none"
  BY DEF DecisionCommit
<1>2. ASSUME Newest(store, view.task)
      PROVE  AuthorityWritten(c)
  <2>1. view = store /\ store \in StoreType
    BY <1>1, <1>2, ViewLedger DEF RuntimeInv, LedgerInv, TypeInv, StoreOK
  <2>2. CASE /\ c.task.status \in {"cancelled", "blocked"} /\ SameMeans(c.task, view.task)
             /\ c.update = {} \/ \E u : c.update = {u}
    BY <1>1, <2>1, <2>2, StatusWords, Zenon DEF AuthorityWritten
  <2>3. ASSUME NEW pending \in Pending(view.approvals),
               c.update = {[pending EXCEPT !.status = "approved"]},
               c.task.approvedId = pending.id, c.task.approvedAction = pending.act
        PROVE  AuthorityWritten(c)
    <3>1. pending \in ApprovalRecord /\ pending \in Pending(store.approvals)
      BY <2>1, <2>3 DEF StoreType, Pending
    <3>2. /\ [pending EXCEPT !.status = "approved"] = Grant(pending.id, pending.act)
          /\ pending.act # NoVal
      BY <3>1, NoValAssumption DEF ApprovalRecord, Grant
    <3> QED
      BY <1>1, <2>3, <3>1, <3>2, Zenon DEF AuthorityWritten
  <2> QED
    BY <2>2, <2>3 DEF DecisionCommit
<1> HIDE DEF view
<1> QED
  BY <1>1, <1>2, ConcludeAuthority

LEMMA ResolveAuthority ==
    ASSUME RuntimeInv, TerminalKept, NEW o \in Operators, NEW c, ResolveCommit(o, c)
    PROVE  GrantsInv'
<1>1. /\ Conclude(o, c) /\ Numbered(c, command[o].view.task)
      /\ c.create = {} /\ c.update = {} /\ Cleared(c.task)
  BY DEF ResolveCommit, Cleared
<1>2. AuthorityWritten(c)
  BY <1>1, Zenon DEF AuthorityWritten
<1> QED
  BY <1>1, <1>2, ConcludeAuthority

--------------------------------------------------------------------------------
(* The theorems. *)

LEMMA GrantsInvInit == Init => GrantsInv
<1> SUFFICES ASSUME Init PROVE GrantsInv
  OBVIOUS
<1>1. /\ \A r \in Runners : proc[r] = Idle
      /\ \A o \in Operators : command[o] = NoCommand
      /\ NoCommand.view.task = NewTask /\ store.task = NewTask /\ store.approvals = {}
      /\ DOMAIN effects = {}
  BY DEF Init, NoCommand, CreatedStore
<1>2. Idle.pc = "idle" /\ Idle.rec = NewTask /\ Idle.outer = NewTask
  BY DEF Idle
<1>3. Granted(store, NewTask) /\ SameMeans(NewTask, store.task)
  BY <1>1 DEF Granted, NewTask, SameMeans
<1>4. SessionGranted(store, Idle) /\ HoldsAuthority(store, Idle)
  BY <1>2, <1>3 DEF SessionGranted, HoldsAuthority
<1> QED
  BY <1>1, <1>2, <1>3, <1>4
  DEF GrantsInv, AuthorityInv, AuthorityOnceInv, AuthorizedExecution, ApprovalUsedOnce

LEMMA GrantsInvStep == RuntimeInv /\ [Next]_vars => GrantsInv'
<1> SUFFICES ASSUME RuntimeInv, [Next]_vars PROVE GrantsInv'
  OBVIOUS
<1>1. LedgerInv /\ TypeInv /\ TerminalKept
  BY StatusInvStep DEF RuntimeInv, LedgerInv
<1>2. ASSUME NEW r \in Runners, Resume(r) \/ Step(r) \/ Crash(r)
      PROVE  GrantsInv'
  BY <1>1, <1>2, OpeningAuthority, GateAuthority, StartPendingCommit, StartWaitingCommit,
     RefreshCommit, InitializationFailureCommit, StartAuthority, IterateAuthority,
     PrepareCommit, StartExecutionCommit, AttemptAuthority, ExecuteAuthority, ConfirmCommit,
     ErrorCommit, ResolvingAuthority, AdapterRaisesAuthority, ShutdownAuthority, CrashAuthority
  DEF Step, Transact
<1>3. ASSUME NEW o \in Operators, Operate(o)
      PROVE  GrantsInv'
  BY <1>1, <1>3, ReadAuthority, ApproveCommits, DenyCommits, CancelCommits, DecisionAuthority,
     ResolveCommits, ResolveAuthority DEF Operate
<1>4. CASE Drift \/ UNCHANGED vars
  BY <1>4 DEF Drift, vars, RuntimeInv, GrantsInv, AuthorityInv, AuthorityOnceInv,
              AuthorizedExecution, ApprovalUsedOnce
<1> QED
  BY <1>2, <1>3, <1>4 DEF Next

LEMMA GrantsInvariant == Spec => []GrantsInv
<1>1. Init => GrantsInv
  BY GrantsInvInit
<1>2. LedgerInv /\ StatusInv /\ GrantsInv /\ [Next]_vars => GrantsInv'
  BY GrantsInvStep DEF RuntimeInv
<1> QED
  BY <1>1, <1>2, LedgerInvariant, StatusInvariant, PTL DEF Spec

(* Whatever is carried out was permitted by the constraints in the state   *)
(* the session last observed, and if it needs approval the operator granted *)
(* that very action, which stays on record (policy/engine.py,               *)
(* iteration.py): however the grant, a denial, a crash and a stale session *)
(* fall together.                                                          *)
THEOREM Authorized == Spec => []AuthorizedExecution
<1>1. GrantsInv => AuthorizedExecution
  BY DEF GrantsInv, AuthorityInv
<1> QED
  BY <1>1, GrantsInvariant, PTL

(* One grant is used for one attempt: the commit that resolves the attempt *)
(* takes the authority away, and a recovery or a second runner that was    *)
(* loaded before cannot use it again (action_execution.py:109).            *)
THEOREM GrantsUsedOnce == Spec => []ApprovalUsedOnce
<1>1. GrantsInv => ApprovalUsedOnce
  BY DEF GrantsInv, AuthorityOnceInv
<1> QED
  BY <1>1, GrantsInvariant, PTL

================================================================================
