----------------------------- MODULE RuntimeLedger -----------------------------
(***************************************************************************)
(* The journal and the effects of the task runtime are a write-ahead       *)
(* ledger: RuntimeEngine implements ActionLedger, for every number of      *)
(* runners and operators and every configuration, task and environment.    *)
(***************************************************************************)
EXTENDS RuntimeProofs

--------------------------------------------------------------------------------
(* Journals and what is appended to them. *)

LEMMA JoinedAt ==
    ASSUME NEW j \in Seq(EventRecord), NEW d \in Seq(EventRecord)
    PROVE  /\ j \o d \in Seq(EventRecord)
           /\ Len(j) \in Nat /\ Len(d) \in Nat /\ Len(j \o d) = Len(j) + Len(d)
           /\ DOMAIN j = 1 .. Len(j) /\ DOMAIN d = 1 .. Len(d)
           /\ DOMAIN (j \o d) = 1 .. Len(j) + Len(d)
           /\ \A k \in 1 .. Len(j) : (j \o d)[k] = j[k]
           /\ \A k \in 1 .. Len(d) : (j \o d)[Len(j) + k] = d[k]
           /\ \A k \in 1 .. Len(j) + Len(d) :
                  k \in 1 .. Len(j) \/ (k > Len(j) /\ k - Len(j) \in 1 .. Len(d)
                                        /\ (j \o d)[k] = d[k - Len(j)])
<1>1. /\ j \o d \in Seq(EventRecord) /\ Len(d) \in Nat /\ Len(j) \in Nat
      /\ Len(j \o d) = Len(j) + Len(d)
      /\ \A k \in 1 .. Len(j) + Len(d) :
             (j \o d)[k] = IF k <= Len(j) THEN j[k] ELSE d[k - Len(j)]
  BY ConcatProperties, LenProperties
<1>2. /\ DOMAIN (j \o d) = 1 .. Len(j) + Len(d) /\ DOMAIN j = 1 .. Len(j)
      /\ DOMAIN d = 1 .. Len(d)
  BY <1>1, LenProperties
<1>3. \A k \in 1 .. Len(j) : (j \o d)[k] = j[k]
  BY <1>1
<1>4. ASSUME NEW k \in 1 .. Len(d)
      PROVE  (j \o d)[Len(j) + k] = d[k]
  BY <1>1
<1>5. ASSUME NEW k \in 1 .. Len(j) + Len(d), k \notin 1 .. Len(j)
      PROVE  k > Len(j) /\ k - Len(j) \in 1 .. Len(d) /\ (j \o d)[k] = d[k - Len(j)]
  BY <1>1, <1>5
<1> QED
  BY <1>1, <1>2, <1>3, <1>4, <1>5

LEMMA OneEvent ==
    ASSUME NEW e, NEW d \in Seq(EventRecord), d = <<e>>
    PROVE  e \in EventRecord /\ DOMAIN d = {1} /\ d[1] = e
<1>1. Len(d) = 1 /\ d[1] = e
  OBVIOUS
<1>2. d \in [1 .. Len(d) -> EventRecord] /\ DOMAIN d = 1 .. Len(d)
  BY LenProperties
<1>3. 1 .. 1 = {1}
  OBVIOUS
<1> QED
  BY <1>1, <1>2, <1>3

(* The attempts that events of E name. *)
NamedBy(journal, E) == AttemptsAt(journal, {k \in DOMAIN journal : journal[k] \in E})

LEMMA NamedJoined ==
    ASSUME NEW j \in Seq(EventRecord), NEW d \in Seq(EventRecord), NEW E
    PROVE  NamedBy(j \o d, E) = NamedBy(j, E) \cup NamedBy(d, E)
<1> DEFINE jd == j \o d
<1>1. ASSUME NEW k \in DOMAIN jd, jd[k] \in E
      PROVE  \/ \E l \in DOMAIN j : j[l] \in E /\ j[l].id = jd[k].id
             \/ \E l \in DOMAIN d : d[l] \in E /\ d[l].id = jd[k].id
  BY <1>1, JoinedAt
<1>2. ASSUME NEW k \in DOMAIN j, j[k] \in E
      PROVE  \E l \in DOMAIN jd : jd[l] \in E /\ jd[l].id = j[k].id
  <2>1. k \in DOMAIN jd /\ jd[k] = j[k]
    BY JoinedAt
  <2> QED
    BY <1>2, <2>1
<1>3. ASSUME NEW k \in DOMAIN d, d[k] \in E
      PROVE  \E l \in DOMAIN jd : jd[l] \in E /\ jd[l].id = d[k].id
  <2>1. Len(j) + k \in DOMAIN jd /\ jd[Len(j) + k] = d[k]
    BY JoinedAt
  <2> QED
    BY <1>3, <2>1
<1> HIDE DEF jd
<1>4. AttemptsAt(jd, {k \in DOMAIN jd : jd[k] \in E})
          = AttemptsAt(j, {k \in DOMAIN j : j[k] \in E})
                \cup AttemptsAt(d, {k \in DOMAIN d : d[k] \in E})
  BY <1>1, <1>2, <1>3 DEF AttemptsAt
<1> QED
  BY <1>4 DEF jd, NamedBy

ClosingTypes == {"action_checkpoint_committed", "action_reconciled", "action_attempt_failed"}

LEMMA ClosingsByType ==
    ASSUME NEW j
    PROVE  /\ Closings(j) = {k \in DOMAIN j : j[k].type \in ClosingTypes}
           /\ Voidings(j) = {k \in DOMAIN j : /\ j[k].type \in ClosingTypes
                                              /\ j[k].res = "never_started"}
           /\ Prepared(j) \subseteq AttemptEventsOf(j)
           /\ Starts(j) \subseteq AttemptEventsOf(j)
           /\ Closings(j) \subseteq AttemptEventsOf(j)
           /\ Closings(j) \cap (Prepared(j) \cup Starts(j)) = {}
  BY DEF Closings, Voidings, ClosingTypes, AttemptEvents, AttemptEventStatus, Resolved, Prepared, Starts, AttemptEventsOf

LEMMA AttemptsJoined ==
    ASSUME NEW j \in Seq(EventRecord), NEW d \in Seq(EventRecord)
    PROVE  /\ StartedIn(j \o d) = StartedIn(j) \cup StartedIn(d)
           /\ ClosedIn(j \o d) = ClosedIn(j) \cup ClosedIn(d)
           /\ AttemptsAt(j \o d, Voidings(j \o d))
                  = AttemptsAt(j, Voidings(j)) \cup AttemptsAt(d, Voidings(d))
           /\ Attempts(j \o d) = Attempts(j) \cup Attempts(d)
<1> DEFINE SE == {e \in EventRecord : e.type = "action_execution_started"}
           CE == {e \in EventRecord : e.type \in ClosingTypes}
           VE == {e \in EventRecord : e.type \in ClosingTypes /\ e.res = "never_started"}
           PE == {e \in EventRecord : e.type = "action_prepared"}
<1>1. ASSUME NEW i \in Seq(EventRecord)
      PROVE  /\ Starts(i) = {k \in DOMAIN i : i[k] \in SE}
             /\ Closings(i) = {k \in DOMAIN i : i[k] \in CE}
             /\ Voidings(i) = {k \in DOMAIN i : i[k] \in VE}
             /\ Prepared(i) = {k \in DOMAIN i : i[k] \in PE}
  <2>1. \A k \in DOMAIN i : i[k] \in EventRecord
    BY LenProperties, ElementOfSeq
  <2> QED
    BY <2>1, ClosingsByType DEF Starts, Prepared
<1>2. ASSUME NEW i \in Seq(EventRecord)
      PROVE  /\ StartedIn(i) = NamedBy(i, SE) /\ ClosedIn(i) = NamedBy(i, CE)
             /\ AttemptsAt(i, Voidings(i)) = NamedBy(i, VE) /\ Attempts(i) = NamedBy(i, PE)
  <2> HIDE DEF SE, CE, VE, PE
  <2> QED
    BY <1>1 DEF StartedIn, ClosedIn, Attempts, AttemptsAt, NamedBy
<1> HIDE DEF SE, CE, VE, PE
<1>3. j \o d \in Seq(EventRecord)
  BY JoinedAt
<1>4. \A E : NamedBy(j \o d, E) = NamedBy(j, E) \cup NamedBy(d, E)
  BY NamedJoined
<1> QED
  BY <1>2, <1>3, <1>4

(* What order says of a journal: attempts are numbered by the positions of *)
(* their write-ahead records, and only a prepared one is started or closed. *)
LEMMA InOrder ==
    ASSUME NEW j \in Seq(EventRecord), AttemptsInOrder(j)
    PROVE  /\ Len(j) \in Nat /\ Prepared(j) \subseteq 1 .. Len(j)
           /\ NoId \notin Prepared(j)
           /\ StartedIn(j) \subseteq Prepared(j) /\ ClosedIn(j) \subseteq Prepared(j)
           /\ Attempts(j) = Prepared(j)
           /\ \A id \in Prepared(j) : j[id].id = id /\ AttemptAction(j, id) = j[id].act
<1>1. Len(j) \in Nat /\ DOMAIN j = 1 .. Len(j) /\ Prepared(j) \subseteq 1 .. Len(j)
  BY LenProperties DEF Prepared
<1>2. \A k \in AttemptEventsOf(j) : j[k].id \in Prepared(j)
  BY DEF AttemptsInOrder
<1>3. \A k \in Prepared(j) : j[k].id = k
  BY ClosingsByType DEF AttemptsInOrder
<1>4. StartedIn(j) \subseteq Prepared(j) /\ ClosedIn(j) \subseteq Prepared(j)
  BY <1>2, ClosingsByType DEF StartedIn, ClosedIn, AttemptsAt
<1>5. Attempts(j) = Prepared(j)
  BY <1>3 DEF Attempts
<1>6. ASSUME NEW id \in Prepared(j)
      PROVE  AttemptAction(j, id) = j[id].act
  <2>1. \A k \in Prepared(j) : j[k].id = id => k = id
    BY <1>3
  <2> QED
    BY <1>3, <2>1 DEF AttemptAction
<1> QED
  BY <1>1, <1>3, <1>4, <1>5, <1>6 DEF NoId

(* Only the last attempt can be open. *)
LEMMA OneOpen ==
    ASSUME NEW j \in Seq(EventRecord), AttemptsInOrder(j),
           NEW id \in Prepared(j) \ ClosedIn(j), NEW k \in Prepared(j), k # id
    PROVE  k \in ClosedIn(j) /\ k < id
<1>1. k \in Nat /\ id \in Nat
  BY InOrder
<1>2. ~(id < k)
  BY DEF AttemptsInOrder
<1> QED
  BY <1>1, <1>2 DEF AttemptsInOrder

LEMMA LatestIsLast ==
    ASSUME NEW j \in Seq(EventRecord), AttemptsInOrder(j), Prepared(j) # {}
    PROVE  LatestAttempt(j) \in Prepared(j) /\ \A k \in Prepared(j) : k <= LatestAttempt(j)
<1>1. \E k \in Prepared(j) : \A l \in Prepared(j) : l <= k
  BY InOrder, LastPosition
<1>2. \A k \in Prepared(j) : j[k].id = k
  BY InOrder
<1> QED
  BY <1>1, <1>2 DEF LatestAttempt

(* The status of an attempt is that of the last event about it. *)
LEMMA LastStatus ==
    ASSUME NEW j \in Seq(EventRecord), AttemptsInOrder(j), NEW id \in Prepared(j)
    PROVE  \E m \in AttemptPositions(j, id) :
               /\ \A l \in AttemptPositions(j, id) : l <= m
               /\ AttemptStatus(j, id) = AttemptEventStatus[j[m].type]
<1> DEFINE K == AttemptPositions(j, id)
<1>1. Len(j) \in Nat /\ K \subseteq 1 .. Len(j)
  BY LenProperties DEF AttemptPositions
<1>2. id \in K
  <2>1. id \in AttemptEventsOf(j) /\ j[id].id = id
    BY InOrder, ClosingsByType
  <2> QED
    BY <2>1 DEF AttemptEventsOf, AttemptPositions
<1>3. \E k \in K : \A l \in K : l <= k
  BY <1>1, <1>2, LastPosition
<1>4. {k \in AttemptPositions(j, id) : k < Len(j) + 1} = K
  BY <1>1
<1>5. AttemptStatus(j, id) = AttemptEventStatus[j[CHOOSE k \in K : \A l \in K : l <= k].type]
  BY <1>2, <1>4 DEF AttemptStatus, StatusBefore
<1> HIDE DEF K
<1>6. /\ (CHOOSE k \in K : \A l \in K : l <= k) \in K
      /\ \A l \in K : l <= (CHOOSE k \in K : \A m \in K : m <= k)
  BY <1>3
<1> QED
  BY <1>5, <1>6 DEF K

LEMMA StatusResolved ==
    ASSUME NEW j \in Seq(EventRecord), AttemptsInOrder(j), NEW id \in Prepared(j)
    PROVE  AttemptStatus(j, id) \in Resolved <=> id \in ClosedIn(j)
<1>1. PICK m \in AttemptPositions(j, id) :
          /\ \A l \in AttemptPositions(j, id) : l <= m
          /\ AttemptStatus(j, id) = AttemptEventStatus[j[m].type]
  BY LastStatus
<1>2. m \in AttemptEventsOf(j) /\ j[m].id = id
  BY <1>1 DEF AttemptPositions, AttemptEventsOf
<1>3. ASSUME AttemptStatus(j, id) \in Resolved
      PROVE  id \in ClosedIn(j)
  BY <1>1, <1>2, <1>3 DEF ClosedIn, AttemptsAt, Closings, AttemptEventsOf
<1>4. ASSUME NEW l \in Closings(j), j[l].id = id
      PROVE  AttemptStatus(j, id) \in Resolved
  <2>1. l \in AttemptPositions(j, id)
    BY <1>4 DEF Closings, AttemptPositions
  <2>2. l <= m /\ m <= l
    BY <1>1, <1>2, <1>4, <2>1 DEF AttemptsInOrder
  <2>3. l \in Nat /\ m \in Nat
    BY <1>1, <2>1, LenProperties DEF AttemptPositions
  <2>4. l = m
    BY <2>2, <2>3
  <2> QED
    BY <1>1, <1>4, <2>4 DEF Closings
<1> QED
  BY <1>3, <1>4 DEF ClosedIn, AttemptsAt

LEMMA OnlyPrepared ==
    ASSUME NEW j \in Seq(EventRecord), AttemptsInOrder(j), NEW id \in Prepared(j),
           AttemptStatus(j, id) = "prepared"
    PROVE  id \notin StartedIn(j)
<1>1. PICK m \in AttemptPositions(j, id) :
          /\ \A l \in AttemptPositions(j, id) : l <= m
          /\ AttemptEventStatus[j[m].type] = "prepared"
  BY LastStatus
<1>2. m \in Prepared(j) /\ j[m].id = id
  BY <1>1 DEF AttemptPositions, Prepared, AttemptEvents, AttemptEventStatus
<1>3. m = id
  BY <1>2, InOrder
<1>4. ASSUME NEW l \in Starts(j), j[l].id = id
      PROVE  FALSE
  <2>1. l \in AttemptEventsOf(j)
    BY ClosingsByType
  <2>2. l \in AttemptPositions(j, id)
    BY <1>4, <2>1 DEF AttemptPositions, AttemptEventsOf
  <2>3. l <= m /\ id <= l
    BY <1>1, <1>4, <2>1, <2>2 DEF AttemptsInOrder
  <2>4. l \in Nat /\ m \in Nat
    BY <1>1, <2>2, LenProperties DEF AttemptPositions
  <2>5. l = m
    BY <1>3, <2>3, <2>4
  <2> QED
    BY <1>2, <2>5 DEF Starts, Prepared
<1> QED
  BY <1>4 DEF StartedIn, AttemptsAt

LEMMA UnresolvedIsOpen ==
    ASSUME NEW j \in Seq(EventRecord), AttemptsInOrder(j)
    PROVE  IF UnresolvedAttempt(j) = NoId THEN AllClosed(j)
           ELSE UnresolvedAttempt(j) \in Prepared(j) \ ClosedIn(j)
<1>1. Attempts(j) = Prepared(j) /\ NoId \notin Prepared(j) /\ Prepared(j) \subseteq Nat
  BY InOrder
<1>2. CASE Prepared(j) = {}
  BY <1>1, <1>2 DEF UnresolvedAttempt, LatestAttempt, AllClosed
<1>3. CASE Prepared(j) # {}
  <2> DEFINE id == LatestAttempt(j)
  <2>1. id \in Prepared(j) /\ \A k \in Prepared(j) : k <= id
    BY <1>3, LatestIsLast
  <2>2. UnresolvedAttempt(j) = IF id \in ClosedIn(j) THEN NoId ELSE id
    BY <1>1, <2>1, StatusResolved DEF UnresolvedAttempt
  <2>3. ASSUME NEW k \in Prepared(j), k # id
        PROVE  k \in ClosedIn(j)
    <3>1. k < id
      BY <1>1, <2>1, <2>3
    <3> QED
      BY <2>1, <3>1 DEF AttemptsInOrder
  <2> HIDE DEF id
  <2> QED
    BY <1>1, <2>1, <2>2, <2>3 DEF AllClosed
<1> QED
  BY <1>2, <1>3

--------------------------------------------------------------------------------
(* What a commit writes of attempts: nothing, a new attempt while none is  *)
(* open, or one step of the attempt that is open.                          *)

(* Events about attempt id, whose resolution comes last. *)
Concerning(drafts, id) ==
    \A k \in AttemptEventsOf(drafts) :
        /\ drafts[k].id = id /\ k \notin Prepared(drafts)
        /\ \A l \in Closings(drafts) : k <= l

OpensAttempt(journal, drafts) ==
    /\ AllClosed(journal)
    /\ \E a : drafts = <<[AttemptEvent("action_prepared", Len(journal) + 1) EXCEPT !.act = a]>>

MovesAttempt(journal, drafts, id) ==
    /\ id \in Prepared(journal) \ ClosedIn(journal)
    /\ Concerning(drafts, id)
    /\ \/ Starts(drafts) = {}
       \/ Closings(drafts) = {} /\ id \notin StartedIn(journal)
    /\ Voidings(drafts) # {} => id \notin StartedIn(journal)

Writes(journal, drafts) ==
    \/ AttemptEventsOf(drafts) = {}
    \/ OpensAttempt(journal, drafts)
    \/ \E id : MovesAttempt(journal, drafts, id)

(* A journal with an attempt event or a quiet one at each new position. *)
LEMMA MovedInOrder ==
    ASSUME NEW j \in Seq(EventRecord), AttemptsInOrder(j),
           NEW d \in Seq(EventRecord), NEW id, Concerning(d, id),
           AttemptEventsOf(d) # {} => id \in Prepared(j) \ ClosedIn(j)
    PROVE  AttemptsInOrder(j \o d) /\ Prepared(j \o d) = Prepared(j)
<1> DEFINE jd == j \o d
<1>1. /\ jd \in Seq(EventRecord) /\ Len(j) \in Nat /\ Len(d) \in Nat
      /\ DOMAIN j = 1 .. Len(j) /\ DOMAIN d = 1 .. Len(d)
      /\ DOMAIN jd = 1 .. Len(j) + Len(d)
      /\ \A k \in DOMAIN j : k \in DOMAIN jd /\ jd[k] = j[k]
      /\ \A k \in DOMAIN jd :
             k \in DOMAIN j \/ (k > Len(j) /\ k - Len(j) \in DOMAIN d /\ jd[k] = d[k - Len(j)])
  BY JoinedAt
<1> HIDE DEF jd
<1>2. \A k \in AttemptEventsOf(d) : d[k].id = id /\ d[k].type # "action_prepared"
  BY <1>1 DEF Concerning, Prepared, AttemptEventsOf
<1>3. Prepared(jd) = Prepared(j)
  <2>1. \A k \in DOMAIN d : d[k].type # "action_prepared"
    BY <1>2 DEF AttemptEventsOf, AttemptEvents, AttemptEventStatus
  <2> QED
    BY <1>1, <2>1 DEF Prepared
<1>4. ClosedIn(j) \subseteq ClosedIn(jd)
  BY AttemptsJoined DEF jd
<1>5. \A k, l \in Prepared(jd) : k < l => k \in ClosedIn(jd)
  BY <1>3, <1>4 DEF AttemptsInOrder
<1>6. jd # <<>> /\ jd[1].type = "task_created"
  <2>1. Len(j) # 0 /\ 1 \in DOMAIN j
    BY <1>1, EmptySeq DEF AttemptsInOrder
  <2> QED
    BY <1>1, <2>1 DEF AttemptsInOrder
<1>7. ASSUME NEW k \in AttemptEventsOf(jd)
      PROVE  /\ jd[k].id \in Prepared(jd) /\ jd[k].id <= k
             /\ k \in Prepared(jd) => jd[k].id = k
             /\ \A l \in Closings(jd) : jd[l].id = jd[k].id => k <= l
  <2>1. \A l \in Closings(jd) : \/ l \in Closings(j) /\ jd[l] = j[l]
                                \/ l > Len(j) /\ l - Len(j) \in Closings(d)
    BY <1>1 DEF Closings
  <2>2. CASE k \in DOMAIN j
    <3>1. k \in AttemptEventsOf(j) /\ jd[k] = j[k]
      BY <1>1, <2>2 DEF AttemptEventsOf
    <3>2. k \in Nat /\ k <= Len(j)
      BY <1>1, <2>2
    <3>3. ASSUME NEW l \in Closings(jd), jd[l].id = jd[k].id
          PROVE  k <= l
      <4>1. l \in DOMAIN jd
        BY DEF Closings
      <4> QED
        BY <1>1, <2>1, <3>1, <3>2, <3>3, <4>1 DEF AttemptsInOrder
    <3> QED
      BY <1>3, <3>1, <3>3 DEF AttemptsInOrder
  <2>3. CASE k \notin DOMAIN j
    <3>1. /\ k > Len(j) /\ k - Len(j) \in AttemptEventsOf(d) /\ jd[k] = d[k - Len(j)]
          /\ k \in DOMAIN jd
      BY <1>1, <2>3 DEF AttemptEventsOf
    <3>2. jd[k].id = id /\ id \in Prepared(j) \ ClosedIn(j) /\ id \in 1 .. Len(j)
      BY <1>2, <3>1, InOrder
    <3>3. ASSUME NEW l \in Closings(jd), jd[l].id = id
          PROVE  k <= l
      <4>1. l \notin Closings(j)
        <5>1. CASE l \in Closings(j) /\ jd[l] = j[l]
          BY <3>2, <3>3, <5>1 DEF ClosedIn, AttemptsAt
        <5>2. CASE l > Len(j)
          BY <1>1, <5>2 DEF Closings
        <5> QED
          BY <2>1, <5>1, <5>2
      <4>2. l - Len(j) \in Closings(d) /\ l \in DOMAIN jd
        BY <2>1, <4>1 DEF Closings
      <4>3. k - Len(j) <= l - Len(j)
        BY <3>1, <4>2 DEF Concerning
      <4> QED
        BY <1>1, <3>1, <4>2, <4>3
    <3>4. k \notin Prepared(jd) /\ id <= k
      BY <1>1, <1>3, <2>3, <3>1, <3>2 DEF Prepared
    <3> QED
      BY <1>3, <3>2, <3>3, <3>4
  <2> QED
    BY <2>2, <2>3
<1> QED
  BY <1>3, <1>5, <1>6, <1>7 DEF AttemptsInOrder, jd

LEMMA OpenedInOrder ==
    ASSUME NEW j \in Seq(EventRecord), AttemptsInOrder(j), AllClosed(j),
           NEW e \in EventRecord, e.type = "action_prepared", e.id = Len(j) + 1
    PROVE  /\ AttemptsInOrder(j \o <<e>>)
           /\ Prepared(j \o <<e>>) = Prepared(j) \cup {Len(j) + 1}
           /\ (j \o <<e>>)[Len(j) + 1] = e
<1> DEFINE d  == <<e>>
           jd == j \o d
           n  == Len(j) + 1
<1>1. d \in Seq(EventRecord) /\ Len(d) = 1 /\ d[1] = e
  OBVIOUS
<1> HIDE DEF d
<1>2. /\ jd \in Seq(EventRecord) /\ Len(j) \in Nat
      /\ DOMAIN j = 1 .. Len(j) /\ DOMAIN jd = 1 .. n
      /\ \A k \in DOMAIN j : jd[k] = j[k]
      /\ jd[n] = e
  <2>1. /\ jd \in Seq(EventRecord) /\ Len(j) \in Nat /\ DOMAIN j = 1 .. Len(j)
        /\ DOMAIN jd = 1 .. Len(j) + Len(d)
        /\ \A k \in 1 .. Len(j) : jd[k] = j[k]
        /\ \A k \in 1 .. Len(d) : jd[Len(j) + k] = d[k]
    BY <1>1, JoinedAt
  <2> HIDE DEF jd
  <2>2. jd[n] = e
    BY <1>1, <2>1
  <2> QED
    BY <1>1, <2>1, <2>2
<1>3. \A k \in DOMAIN jd : k \in DOMAIN j \/ k = n
  BY <1>2
<1> HIDE DEF jd
<1>4. Prepared(jd) = Prepared(j) \cup {n}
  BY <1>2, <1>3 DEF Prepared
<1>5. /\ Prepared(j) \subseteq 1 .. Len(j) /\ Prepared(j) \subseteq ClosedIn(j)
  BY InOrder DEF AllClosed
<1>6. ClosedIn(j) \subseteq ClosedIn(jd)
  BY <1>1, AttemptsJoined DEF jd
<1>7. \A k, l \in Prepared(jd) : k < l => k \in ClosedIn(jd)
  BY <1>2, <1>4, <1>5, <1>6
<1>8. jd # <<>> /\ jd[1].type = "task_created"
  <2>1. Len(j) # 0 /\ 1 \in DOMAIN j
    BY <1>2, EmptySeq DEF AttemptsInOrder
  <2> QED
    BY <1>2, <2>1 DEF AttemptsInOrder
<1>9. \A l \in Closings(jd) : l \in Closings(j) /\ jd[l] = j[l]
  BY <1>2, <1>3 DEF Closings, AttemptEvents, AttemptEventStatus, Resolved
<1>10. ASSUME NEW k \in AttemptEventsOf(jd)
       PROVE  /\ jd[k].id \in Prepared(jd) /\ jd[k].id <= k
              /\ k \in Prepared(jd) => jd[k].id = k
              /\ \A l \in Closings(jd) : jd[l].id = jd[k].id => k <= l
  <2>1. CASE k \in DOMAIN j
    <3>1. k \in AttemptEventsOf(j) /\ jd[k] = j[k] /\ k # n
      BY <1>2, <2>1 DEF AttemptEventsOf
    <3> QED
      BY <1>4, <1>9, <3>1 DEF AttemptsInOrder
  <2>2. CASE k = n
    <3>1. ASSUME NEW l \in Closings(jd)
          PROVE  jd[l].id # n
      <4>1. jd[l].id \in Prepared(j)
        BY <1>9, ClosingsByType DEF AttemptsInOrder
      <4> QED
        BY <1>2, <1>5, <4>1
    <3> QED
      BY <1>2, <1>4, <2>2, <3>1
  <2> QED
    BY <1>3, <2>1, <2>2 DEF AttemptEventsOf
<1> HIDE DEF n
<1>11. AttemptsInOrder(jd)
  BY <1>7, <1>8, <1>10 DEF AttemptsInOrder
<1> QED
  BY <1>2, <1>4, <1>11 DEF jd, d, n

LEMMA NoAttemptEvents ==
    ASSUME NEW d, AttemptEventsOf(d) = {}
    PROVE  /\ Prepared(d) = {} /\ Starts(d) = {} /\ Closings(d) = {} /\ Voidings(d) = {}
           /\ Attempts(d) = {} /\ StartedIn(d) = {} /\ ClosedIn(d) = {}
           /\ AttemptsAt(d, Voidings(d)) = {}
           /\ \A id : Concerning(d, id)
<1>1. Prepared(d) = {} /\ Starts(d) = {} /\ Closings(d) = {} /\ Voidings(d) = {}
  BY ClosingsByType DEF Voidings
<1> QED
  BY <1>1 DEF Attempts, StartedIn, ClosedIn, AttemptsAt, Concerning

LEMMA WritesInOrder ==
    ASSUME NEW j \in Seq(EventRecord), AttemptsInOrder(j), NEW d \in Seq(EventRecord), Writes(j, d)
    PROVE  AttemptsInOrder(j \o d)
<1>1. CASE AttemptEventsOf(d) = {}
  BY <1>1, NoAttemptEvents, MovedInOrder
<1>2. CASE OpensAttempt(j, d)
  <2>1. PICK a : d = <<[AttemptEvent("action_prepared", Len(j) + 1) EXCEPT !.act = a]>>
    BY <1>2 DEF OpensAttempt
  <2> DEFINE e == [AttemptEvent("action_prepared", Len(j) + 1) EXCEPT !.act = a]
  <2>2. e.type = "action_prepared" /\ e.id = Len(j) + 1
    BY DEF AttemptEvent, Event
  <2> HIDE DEF e
  <2>3. e \in EventRecord
    BY <2>1, OneEvent DEF e
  <2> QED
    BY <1>2, <2>1, <2>2, <2>3, OpenedInOrder DEF OpensAttempt, e
<1>3. CASE \E id : MovesAttempt(j, d, id)
  BY <1>3, MovedInOrder DEF MovesAttempt
<1> QED
  BY <1>1, <1>2, <1>3 DEF Writes

LEMMA StaysClosed ==
    ASSUME NEW j \in Seq(EventRecord), AllClosed(j), NEW d \in Seq(EventRecord),
           AttemptEventsOf(d) = {}
    PROVE  AllClosed(j \o d)
  BY AttemptsJoined, NoAttemptEvents DEF AllClosed

LEMMA BecomesClosed ==
    ASSUME NEW j \in Seq(EventRecord), AttemptsInOrder(j), NEW d \in Seq(EventRecord), NEW id,
           MovesAttempt(j, d, id), Closings(d) # {}
    PROVE  AllClosed(j \o d)
<1>1. id \in ClosedIn(d)
  <2>1. PICK l \in Closings(d) : TRUE
    OBVIOUS
  <2>2. d[l].id = id
    BY ClosingsByType DEF MovesAttempt, Concerning
  <2> QED
    BY <2>2 DEF ClosedIn, AttemptsAt
<1>2. ClosedIn(j \o d) = ClosedIn(j) \cup ClosedIn(d)
  BY AttemptsJoined
<1>3. Attempts(j \o d) = Prepared(j)
  <2>1. j \o d \in Seq(EventRecord) /\ AttemptsInOrder(j \o d) /\ Prepared(j \o d) = Prepared(j)
    BY JoinedAt, MovedInOrder DEF MovesAttempt
  <2> QED
    BY <2>1, InOrder
<1>4. \A k \in Prepared(j) : k # id => k \in ClosedIn(j)
  BY OneOpen DEF MovesAttempt
<1> QED
  BY <1>1, <1>2, <1>3, <1>4 DEF AllClosed

--------------------------------------------------------------------------------
(* Every write is a step of the abstract ledger. *)

LedgerStep == [Ledger!LedgerNext]_(Ledger!ledger)

LEMMA WritesStep ==
    ASSUME TypeInv, AttemptsInOrder(store.journal), NEW d \in Seq(EventRecord),
           Writes(store.journal, d), store'.journal = store.journal \o d, UNCHANGED effects
    PROVE  LedgerStep
<1> DEFINE j  == store.journal
           j2 == store'.journal
           void(i) == AttemptsAt(i, Voidings(i))
<1>1. /\ j \in Seq(EventRecord) /\ j2 = j \o d
      /\ Attempts(j2) = Attempts(j) \cup Attempts(d)
      /\ StartedIn(j2) = StartedIn(j) \cup StartedIn(d)
      /\ ClosedIn(j2) = ClosedIn(j) \cup ClosedIn(d)
      /\ void(j2) = void(j) \cup void(d)
  <2>1. j \in Seq(EventRecord)
    BY DEF TypeInv, StoreOK, StoreType
  <2> QED
    BY <2>1, AttemptsJoined
<1>2. /\ Attempts(j) = Prepared(j) /\ StartedIn(j) \subseteq Prepared(j)
      /\ ClosedIn(j) \subseteq Prepared(j) /\ Prepared(j) \subseteq 1 .. Len(j) /\ Len(j) \in Nat
  BY <1>1, InOrder
<1>3. CASE AttemptEventsOf(d) = {}
  <2>1. Attempts(j2) = Attempts(j) /\ StartedIn(j2) = StartedIn(j)
        /\ ClosedIn(j2) = ClosedIn(j) /\ void(j2) = void(j)
    BY <1>1, <1>3, NoAttemptEvents
  <2> QED
    BY <2>1 DEF LedgerStep, Ledger!ledger, StartedIn, ClosedIn
<1>4. CASE OpensAttempt(j, d)
  <2> DEFINE id == Len(j) + 1
  <2>1. PICK a : d = <<[AttemptEvent("action_prepared", id) EXCEPT !.act = a]>>
    BY <1>4 DEF OpensAttempt
  <2> DEFINE e == [AttemptEvent("action_prepared", id) EXCEPT !.act = a]
  <2>a. e.type = "action_prepared" /\ e.id = id
    BY DEF AttemptEvent, Event
  <2> HIDE DEF e
  <2>2. DOMAIN d = {1} /\ d[1].type = "action_prepared" /\ d[1].id = id
    BY <2>1, <2>a, OneEvent DEF e
  <2>3. Prepared(d) = {1} /\ Starts(d) = {} /\ Closings(d) = {}
    BY <2>2 DEF Prepared, Starts, Closings, AttemptEvents, AttemptEventStatus, Resolved
  <2>4. /\ Attempts(d) = {id} /\ StartedIn(d) = {} /\ ClosedIn(d) = {} /\ void(d) = {}
    BY <2>2, <2>3 DEF Attempts, StartedIn, ClosedIn, AttemptsAt, Voidings
  <2>5. id \notin Attempts(j) /\ Attempts(j) \subseteq ClosedIn(j)
    BY <1>2, <1>4 DEF OpensAttempt, AllClosed
  <2> HIDE DEF id, void
  <2>6. Attempts(j2) = Attempts(j) \cup {id} /\ StartedIn(j2) = StartedIn(j)
        /\ ClosedIn(j2) = ClosedIn(j) /\ void(j2) = void(j)
    BY <1>1, <2>4
  <2>7. Ledger!EnterAttempt(id)
    BY <2>5, <2>6 DEF Ledger!EnterAttempt, StartedIn, ClosedIn, void
  <2> QED
    BY <2>6, <2>7 DEF LedgerStep, Ledger!LedgerNext
<1>5. ASSUME NEW id, MovesAttempt(j, d, id)
      PROVE  LedgerStep
  <2>1. \A k \in AttemptEventsOf(d) : d[k].id = id /\ k \notin Prepared(d)
    BY <1>5 DEF MovesAttempt, Concerning
  <2>2. Attempts(d) = {} /\ StartedIn(d) = (IF Starts(d) = {} THEN {} ELSE {id})
        /\ ClosedIn(d) = (IF Closings(d) = {} THEN {} ELSE {id})
        /\ void(d) = (IF Voidings(d) = {} THEN {} ELSE {id})
    BY <2>1, ClosingsByType DEF Attempts, StartedIn, ClosedIn, AttemptsAt, Voidings
  <2>3. id \in Attempts(j) \ ClosedIn(j)
    BY <1>2, <1>5 DEF MovesAttempt
  <2>4. Voidings(d) \subseteq Closings(d)
    BY DEF Voidings
  <2> HIDE DEF void
  <2>5. CASE Starts(d) # {}
    <3>1. Closings(d) = {} /\ Voidings(d) = {} /\ id \notin StartedIn(j)
      BY <1>5, <2>4, <2>5 DEF MovesAttempt
    <3>2. Ledger!StartAttempt(id)
      BY <1>1, <2>2, <2>3, <2>5, <3>1 DEF Ledger!StartAttempt, StartedIn, ClosedIn, void
    <3> QED
      BY <2>3, <3>2 DEF LedgerStep, Ledger!LedgerNext
  <2>6. CASE Starts(d) = {} /\ Closings(d) = {}
    BY <1>1, <2>2, <2>4, <2>6 DEF LedgerStep, Ledger!ledger, StartedIn, ClosedIn, void
  <2>7. CASE Starts(d) = {} /\ Closings(d) # {} /\ Voidings(d) = {}
    <3>1. Ledger!CloseAttempt(id)
      BY <1>1, <2>2, <2>3, <2>7 DEF Ledger!CloseAttempt, StartedIn, ClosedIn, void
    <3> QED
      BY <2>3, <3>1 DEF LedgerStep, Ledger!LedgerNext
  <2>8. CASE Starts(d) = {} /\ Voidings(d) # {}
    <3>1. Closings(d) # {} /\ id \notin StartedIn(j)
      BY <1>5, <2>4, <2>8 DEF MovesAttempt
    <3>2. Ledger!VoidAttempt(id)
      BY <1>1, <2>2, <2>3, <2>8, <3>1 DEF Ledger!VoidAttempt, StartedIn, ClosedIn, void
    <3> QED
      BY <2>3, <3>2 DEF LedgerStep, Ledger!LedgerNext
  <2> QED
    BY <2>5, <2>6, <2>7, <2>8
<1> QED
  BY <1>3, <1>4, <1>5 DEF Writes

--------------------------------------------------------------------------------
(* Commits number their events after the record they were made from. *)

Numbered(c, t) ==
    /\ c \in CommitType /\ t.sequence \in Nat
    /\ c.base = t.sequence /\ c.task.sequence = t.sequence + Len(c.drafts)
    /\ c.drafts # <<>>

(* What a commit writes besides: of the task the status and its means. *)
Carries(c, task, drafts, s) ==
    /\ CommitOK(c)
    /\ c.task.status = task.status /\ SameMeans(c.task, task)
    /\ c.drafts = drafts /\ c.create = {} /\ c.update = {} /\ c.snap = s

(* A commit made from task record t ends the task only with the event that *)
(* says so, and requests a cancellation only in doing it.                  *)
Ends(c, t) ==
    /\ c.task.cancelRequested => t.cancelRequested \/ c.task.status = "cancelled"
    /\ c.task.status \in Terminal =>
           \/ c.task.status = t.status
           \/ c.drafts[Len(c.drafts)].type = TerminalEvent[c.task.status]

LEMMA IterationNumbered ==
    ASSUME NEW current \in TaskRecord, NEW task \in TaskRecord,
           NEW drafts, DraftsOK(drafts), drafts # <<>>
    PROVE  /\ Numbered(IterationCommit(current, task, drafts), current)
           /\ Carries(IterationCommit(current, task, drafts), task, drafts, NoVal)
           /\ /\ task.cancelRequested => current.cancelRequested \/ task.status = "cancelled"
              /\ task.status \in Terminal =>
                     \/ task.status = current.status
                     \/ drafts[Len(drafts)].type = TerminalEvent[task.status]
              => Ends(IterationCommit(current, task, drafts), current)
<1> DEFINE c == IterationCommit(current, task, drafts)
           n == current.sequence + Len(drafts)
<1>1. CommitOK(c)
  BY IterationCommitOK
<1>2. /\ c.base = current.sequence /\ c.task = [task EXCEPT !.sequence = n] /\ c.drafts = drafts
      /\ c.create = {} /\ c.update = {} /\ c.snap = NoVal
  BY DEF IterationCommit
<1>3. current.sequence \in Nat
  BY DEF TaskRecord
<1>4. /\ [task EXCEPT !.sequence = n].sequence = n
      /\ [task EXCEPT !.sequence = n].status = task.status
      /\ [task EXCEPT !.sequence = n].approvedId = task.approvedId
      /\ [task EXCEPT !.sequence = n].approvedAction = task.approvedAction
      /\ [task EXCEPT !.sequence = n].spend = task.spend
      /\ [task EXCEPT !.sequence = n].cancelRequested = task.cancelRequested
  BY DEF TaskRecord
<1>5. c \in CommitType
  BY <1>1 DEF CommitOK
<1> HIDE DEF c
<1>6. Numbered(c, current)
  BY <1>2, <1>3, <1>4, <1>5 DEF Numbered
<1>7. Carries(c, task, drafts, NoVal)
  BY <1>1, <1>2, <1>4 DEF Carries, SameMeans
<1> QED
  BY <1>2, <1>4, <1>6, <1>7 DEF c, Ends

LEMMA SnapshotNumbered ==
    ASSUME NEW c, NEW t, Numbered(c, t), NEW task, NEW drafts, NEW none, Carries(c, task, drafts, none),
           NEW s \in States \cup {NoVal}
    PROVE  /\ Numbered(WithSnapshot(c, s), t) /\ Carries(WithSnapshot(c, s), task, drafts, s)
           /\ Ends(c, t) => Ends(WithSnapshot(c, s), t)
<1>1. CommitOK(c) /\ CommitOK(WithSnapshot(c, s))
  BY WithSnapshotOK DEF Carries
<1>2. /\ WithSnapshot(c, s).base = c.base /\ WithSnapshot(c, s).task = c.task
      /\ WithSnapshot(c, s).drafts = c.drafts /\ WithSnapshot(c, s).snap = s
      /\ WithSnapshot(c, s).create = c.create /\ WithSnapshot(c, s).update = c.update
  BY DEF WithSnapshot, Numbered, CommitType
<1>3. WithSnapshot(c, s) \in CommitType
  BY <1>1 DEF CommitOK
<1> QED
  BY <1>1, <1>2, <1>3 DEF Numbered, Carries, Ends

LEMMA TerminalNumbered ==
    ASSUME NEW current \in TaskRecord, NEW task \in TaskRecord, NEW status \in Terminal,
           NEW drafts, DraftsOK(drafts), NEW s \in States \cup {NoVal}
    PROVE  /\ Numbered(TerminalCommit(current, task, status, drafts, s), current)
           /\ Carries(TerminalCommit(current, task, status, drafts, s),
                      [task EXCEPT !.status = status],
                      Append(drafts, Event(TerminalEvent[status])), s)
           /\ [task EXCEPT !.status = status].status = status
           /\ SameMeans([task EXCEPT !.status = status], task)
           /\ (task.cancelRequested => current.cancelRequested \/ status = "cancelled") =>
                  Ends(TerminalCommit(current, task, status, drafts, s), current)
<1> DEFINE ended == [task EXCEPT !.status = status]
           e     == Event(TerminalEvent[status])
           all   == Append(drafts, e)
<1>1. /\ ended \in TaskRecord /\ ended.status = status /\ SameMeans(ended, task)
      /\ ended.cancelRequested = task.cancelRequested
  BY TerminalStatuses DEF TaskRecord, SameMeans
<1>2. Draft(e) /\ e.type = TerminalEvent[status]
  <2>1. Draft(e)
    BY TerminalStatuses, EventDraft DEF NoId
  <2> QED
    BY <2>1 DEF Event
<1>5. TerminalCommit(current, task, status, drafts, s)
          = WithSnapshot(IterationCommit(current, ended, all), s)
  BY DEF TerminalCommit
<1> HIDE DEF ended, e
<1>6. DraftsOK(all) /\ all # <<>> /\ all[Len(all)].type = TerminalEvent[status]
  <2>1. DraftsOK(all)
    BY <1>2, DraftAppended
  <2>2. /\ Len(all) = Len(drafts) + 1 /\ Len(drafts) \in Nat
        /\ all[Len(drafts) + 1] = e
    BY <1>2, AppendProperties, LenProperties DEF DraftsOK, Draft
  <2>3. Len(all) # 0 /\ all[Len(all)] = e
    BY <2>2
  <2> QED
    BY <1>2, <2>1, <2>3, EmptySeq
<1> HIDE DEF all
<1> DEFINE c == IterationCommit(current, ended, all)
<1>7. /\ Numbered(c, current) /\ Carries(c, ended, all, NoVal)
      /\ (task.cancelRequested => current.cancelRequested \/ status = "cancelled") =>
             Ends(c, current)
  BY <1>1, <1>6, IterationNumbered
<1> HIDE DEF c
<1>8. /\ Numbered(WithSnapshot(c, s), current) /\ Carries(WithSnapshot(c, s), ended, all, s)
      /\ (task.cancelRequested => current.cancelRequested \/ status = "cancelled") =>
             Ends(WithSnapshot(c, s), current)
  BY <1>7, SnapshotNumbered
<1> QED
  BY <1>1, <1>5, <1>8 DEF c, ended, all, e

LEMMA NumberedStored ==
    ASSUME NEW s \in StoreType, NEW c, NEW t, Numbered(c, t), Accepts(s, c)
    PROVE  /\ s.journal \in Seq(EventRecord) /\ c.drafts \in Seq(EventRecord)
           /\ Stored(s, c).journal = s.journal \o c.drafts
           /\ Stored(s, c).journal \in Seq(EventRecord)
           /\ Len(s.journal) \in Nat /\ Len(c.drafts) \in Nat \ {0}
           /\ Len(Stored(s, c).journal) = Len(s.journal) + Len(c.drafts)
           /\ Newest(s, t)
           /\ Newest(Stored(s, c), c.task) /\ Stored(s, c).task = c.task
<1>1. s.journal \in Seq(EventRecord) /\ c.drafts \in Seq(EventRecord)
  BY DEF StoreType, Numbered, CommitType
<1>2. Stored(s, c).journal = s.journal \o c.drafts /\ Stored(s, c).task = c.task
  BY DEF Stored
<1>3. /\ s.journal \o c.drafts \in Seq(EventRecord)
      /\ Len(s.journal) \in Nat /\ Len(c.drafts) \in Nat
      /\ Len(s.journal \o c.drafts) = Len(s.journal) + Len(c.drafts)
  BY <1>1, JoinedAt
<1>4. Len(c.drafts) # 0
  BY <1>1, EmptySeq DEF Numbered
<1>5. Len(s.journal) = t.sequence
  BY DEF Accepts, EventsContiguous, Numbered
<1> QED
  BY <1>1, <1>2, <1>3, <1>4, <1>5 DEF Newest, Numbered

--------------------------------------------------------------------------------
(* Events that are about no attempt, and observations. *)

Plain(e) == e \in EventRecord /\ e.type \notin AttemptEvents

(* The last of the drafts' observations, if they have one. *)
ShowsLast(drafts, before, after) ==
    IF Observed(drafts) = {} THEN after = before
    ELSE \A k \in Observed(drafts) : drafts[k].state = after

(* The checkpoint a commit leaves behind is its last observation, given the *)
(* one before.                                                             *)
Saves(c, before) ==
    ShowsLast(c.drafts, before, IF c.snap = NoVal THEN before ELSE c.snap)

LEMMA PlainEvents ==
    /\ Plain(Event("note")) /\ Plain(Event("task_started"))
    /\ \A s \in States : Plain(ObservationEvent(s))
    /\ \A status \in Terminal :
           /\ Plain(Event(TerminalEvent[status]))
           /\ Event(TerminalEvent[status]).type # "observation_recorded"
<1>1. \A type : Event(type).type = type /\ \A s : ObservationEvent(s).type = "observation_recorded"
  BY DEF Event, ObservationEvent
<1>2. {"note", "task_started", "observation_recorded"} \cap AttemptEvents = {}
  BY DEF AttemptEvents, AttemptEventStatus
<1>3. /\ Event("note") \in EventRecord /\ Event("task_started") \in EventRecord
      /\ \A s \in States : ObservationEvent(s) \in EventRecord
  <2>1. {"note", "task_started"} \subseteq EventType
    BY DEF EventType
  <2> QED
    BY <2>1, EventDraft, ObservationDraft DEF Draft, NoId
<1>4. ASSUME NEW status \in Terminal
      PROVE  /\ Event(TerminalEvent[status]) \in EventRecord
             /\ TerminalEvent[status] \notin AttemptEvents
             /\ TerminalEvent[status] # "observation_recorded"
  <2>1. Event(TerminalEvent[status]) \in EventRecord
    BY TerminalStatuses, EventDraft DEF Draft, NoId
  <2>2. TerminalEvent[status] \in {"task_completed", "task_blocked", "task_failed", "task_cancelled"}
    BY DEF Terminal, TerminalEvent
  <2> QED
    BY <2>1, <2>2 DEF AttemptEvents, AttemptEventStatus
<1> QED
  BY <1>1, <1>2, <1>3, <1>4 DEF Plain

LEMMA PlainDrafts ==
    /\ AttemptEventsOf(<<>>) = {} /\ Observed(<<>>) = {}
    /\ \A e : Plain(e) => AttemptEventsOf(<<e>>) = {}
    /\ \A e, f : Plain(e) /\ Plain(f) => AttemptEventsOf(<<e, f>>) = {}
  BY DEF Plain, AttemptEventsOf, Observed

LEMMA PlainAppended ==
    ASSUME NEW d \in Seq(EventRecord), NEW e, Plain(e)
    PROVE  LET de == Append(d, e)
           IN  /\ AttemptEventsOf(de) = AttemptEventsOf(d) /\ Prepared(de) = Prepared(d)
               /\ Starts(de) = Starts(d) /\ Closings(de) = Closings(d)
               /\ Voidings(de) = Voidings(d)
               /\ \A k \in DOMAIN d : de[k] = d[k]
               /\ e.type # "observation_recorded" => Observed(de) = Observed(d)
               /\ \A k \in DOMAIN de : k \in DOMAIN d \/ de[k] = e
               /\ DOMAIN d \subseteq DOMAIN de
<1> DEFINE de == Append(d, e)
<1>1. /\ DOMAIN d = 1 .. Len(d) /\ Len(d) \in Nat
      /\ DOMAIN de = 1 .. Len(d) + 1
      /\ \A k \in 1 .. Len(d) : de[k] = d[k]
      /\ de[Len(d) + 1] = e
  BY AppendProperties, LenProperties DEF Plain
<1> HIDE DEF de
<1>2. \A k \in DOMAIN de : k \in DOMAIN d \/ (k = Len(d) + 1 /\ de[k] = e /\ k \notin DOMAIN d)
  BY <1>1
<1>3. AttemptEventsOf(de) = AttemptEventsOf(d)
  BY <1>1, <1>2 DEF AttemptEventsOf, Plain
<1>4. Prepared(de) = Prepared(d) /\ Starts(de) = Starts(d)
  BY <1>1, <1>2 DEF Prepared, Starts, Plain, AttemptEvents, AttemptEventStatus
<1>5. Closings(de) = Closings(d)
  BY <1>1, <1>2 DEF Closings, Plain
<1>6. Voidings(de) = Voidings(d)
  BY <1>1, <1>5 DEF Voidings, Closings
<1>7. e.type # "observation_recorded" => Observed(de) = Observed(d)
  BY <1>1, <1>2 DEF Observed
<1> QED
  BY <1>1, <1>2, <1>3, <1>4, <1>5, <1>6, <1>7 DEF de

(* The last observation of a longer journal. *)
LEMMA LastShown ==
    ASSUME NEW j \in Seq(EventRecord), NEW d \in Seq(EventRecord), NEW after,
           ShowsLast(d, LatestObservation(j), after)
    PROVE  LatestObservation(j \o d) = after
<1> DEFINE jd == j \o d
           Latest(K) == CHOOSE k \in K : \A l \in K : l <= k
<1>1. /\ DOMAIN jd = 1 .. Len(j) + Len(d) /\ DOMAIN j = 1 .. Len(j)
      /\ Len(j) \in Nat /\ Len(d) \in Nat /\ DOMAIN d = 1 .. Len(d)
      /\ \A k \in DOMAIN j : jd[k] = j[k]
      /\ \A k \in 1 .. Len(d) : jd[Len(j) + k] = d[k]
  BY JoinedAt
<1>2. \A k \in DOMAIN jd :
          k \in DOMAIN j \/ (k > Len(j) /\ k - Len(j) \in DOMAIN d /\ jd[k] = d[k - Len(j)])
  BY JoinedAt
<1> HIDE DEF jd
<1>3. CASE Observed(d) = {}
  <2>1. Observed(jd) = Observed(j)
    BY <1>1, <1>2, <1>3 DEF Observed
  <2>2. after = LatestObservation(j)
    BY <1>3 DEF ShowsLast
  <2>3. CASE Observed(j) = {}
    BY <2>1, <2>2, <2>3 DEF LatestObservation, jd
  <2>4. CASE Observed(j) # {}
    <3>1. \E k \in Observed(j) : \A l \in Observed(j) : l <= k
      BY <1>1, <2>4, LastPosition DEF Observed
    <3>2. Latest(Observed(j)) \in Observed(j)
      BY <3>1
    <3>3. jd[Latest(Observed(j))] = j[Latest(Observed(j))]
      BY <1>1, <3>2 DEF Observed
    <3> QED
      BY <2>1, <2>2, <2>4, <3>3 DEF LatestObservation, jd
  <2> QED
    BY <2>3, <2>4
<1>4. CASE Observed(d) # {}
  <2>1. PICK k \in Observed(d) : TRUE
    BY <1>4
  <2>2. Len(j) + k \in Observed(jd) /\ k \in 1 .. Len(d)
    BY <1>1, <2>1 DEF Observed
  <2>3. \E m \in Observed(jd) : \A l \in Observed(jd) : l <= m
    <3>1. Observed(jd) \in SUBSET (1 .. Len(j) + Len(d)) /\ Len(j) + Len(d) \in Nat
      BY <1>1 DEF Observed
    <3> QED
      BY <2>2, <3>1, LastPosition
  <2> DEFINE m == Latest(Observed(jd))
  <2>4. m \in Observed(jd) /\ \A l \in Observed(jd) : l <= m
    BY <2>3
  <2>5. LatestObservation(jd) = jd[m].state
    BY <2>2 DEF LatestObservation
  <2> HIDE DEF m
  <2>6. Len(j) + k <= m /\ m \in DOMAIN jd
    BY <2>2, <2>4 DEF Observed
  <2>7. m \notin DOMAIN j
    BY <1>1, <2>2, <2>6
  <2>8. m - Len(j) \in Observed(d) /\ jd[m] = d[m - Len(j)]
    BY <1>2, <2>4, <2>6, <2>7 DEF Observed
  <2> QED
    BY <1>4, <2>5, <2>8 DEF ShowsLast, jd
<1> QED
  BY <1>3, <1>4

--------------------------------------------------------------------------------
(* Sessions and commands that do not write. *)

LEMMA SessionKept ==
    ASSUME NEW s \in StoreType, AttemptsInOrder(s.journal), NEW d \in Seq(EventRecord), d # <<>>,
           NEW s2, s2.journal = s.journal \o d,
           NEW p \in SessionType, SessionInLedger(s, p)
    PROVE  SessionInLedger(s2, p)
<1> DEFINE j  == s.journal
           j2 == s2.journal
<1>1. /\ j \in Seq(EventRecord) /\ j2 \in Seq(EventRecord) /\ j2 = j \o d
      /\ Len(j) \in Nat /\ Len(d) \in Nat /\ Len(j2) = Len(j) + Len(d)
      /\ DOMAIN j = 1 .. Len(j) /\ DOMAIN j2 = 1 .. Len(j) + Len(d)
      /\ \A k \in 1 .. Len(j) : j2[k] = j[k]
  <2>1. j \in Seq(EventRecord)
    BY DEF StoreType
  <2> QED
    BY <2>1, JoinedAt
<1>2. Len(d) # 0
  BY EmptySeq
<1>3. p.rec.sequence \in Nat /\ p.outer.sequence \in Nat
  BY DEF SessionType, TaskRecord
<1>4. p.rec.sequence <= Len(j) /\ p.outer.sequence <= Len(j)
  BY DEF SessionInLedger
<1>5. /\ p.rec.sequence <= Len(j2) /\ p.outer.sequence <= Len(j2)
      /\ ~Newest(s2, p.rec) /\ ~Newest(s2, p.outer)
  BY <1>1, <1>2, <1>3, <1>4 DEF Newest
<1>6. StartedIn(j) \subseteq StartedIn(j2)
  BY <1>1, AttemptsJoined
<1>7. ASSUME NEW k \in Prepared(j)
      PROVE  k \in Prepared(j2) /\ j2[k].act = j[k].act
  BY <1>1 DEF Prepared
<1> QED
  BY <1>5, <1>6, <1>7 DEF SessionInLedger

LEMMA CommandKept ==
    ASSUME NEW s \in StoreType, NEW d \in Seq(EventRecord), d # <<>>,
           NEW s2, s2.journal = s.journal \o d,
           NEW q \in CommandType, CommandInLedger(s, q)
    PROVE  CommandInLedger(s2, q)
<1>1. /\ Len(s.journal) \in Nat /\ Len(d) \in Nat
      /\ Len(s2.journal) = Len(s.journal) + Len(d)
  BY JoinedAt DEF StoreType
<1>2. Len(d) # 0
  BY EmptySeq
<1>3. q.view.task.sequence \in Nat
  BY DEF CommandType, StoreType, TaskRecord
<1> QED
  BY <1>1, <1>2, <1>3 DEF CommandInLedger, Newest

(* A task record a session can go on with or leave: if it is the newest, no *)
(* attempt is open.                                                         *)
Unburdened(s, t) ==
    t.sequence <= Len(s.journal) /\ (Newest(s, t) => AllClosed(s.journal))

LEMMA NewTaskUnburdened ==
    ASSUME NEW s, s.journal \in Seq(EventRecord), AttemptsInOrder(s.journal)
    PROVE  Unburdened(s, NewTask) /\ NewTask.sequence = 1
<1>1. Len(s.journal) \in Nat /\ DOMAIN s.journal = 1 .. Len(s.journal) /\ Len(s.journal) # 0
  BY LenProperties, EmptySeq DEF AttemptsInOrder
<1>2. ASSUME Len(s.journal) = 1
      PROVE  AllClosed(s.journal)
  <2>1. s.journal[1].type = "task_created"
    BY DEF AttemptsInOrder
  <2>2. \A k \in 1 .. 1 : k = 1
    OBVIOUS
  <2>3. Prepared(s.journal) = {}
    BY <1>1, <1>2, <2>1, <2>2 DEF Prepared
  <2> QED
    BY <2>3 DEF AllClosed, Attempts
<1>3. NewTask.sequence = 1
  BY DEF NewTask
<1> QED
  BY <1>1, <1>2, <1>3 DEF Unburdened, Newest

(* A session that holds no attempt. *)
LEMMA FreeInLedger ==
    ASSUME NEW s, NEW p, Unburdened(s, p.rec), Unburdened(s, p.outer),
           p.att = NoId, p.pc \notin {"prepared", "started", "executed", "gate"}
    PROVE  SessionInLedger(s, p)
  BY DEF Unburdened, SessionInLedger, Acting

LEMMA IdleInLedger ==
    ASSUME NEW s, s.journal \in Seq(EventRecord), AttemptsInOrder(s.journal)
    PROVE  SessionInLedger(s, Idle)
<1>1. Idle.rec = NewTask /\ Idle.outer = NewTask /\ Idle.att = NoId /\ Idle.pc = "idle"
  BY DEF Idle
<1> QED
  BY <1>1, NewTaskUnburdened, FreeInLedger

LEMMA ClosingFields ==
    ASSUME NEW r, NEW task, NEW observation
    PROVE  /\ Closing(r, task, observation).pc = "closing"
           /\ Closing(r, task, observation).rec = NewTask
           /\ Closing(r, task, observation).outer = task
           /\ Closing(r, task, observation).att = NoId
           /\ Abandoned(r) = Closing(r, proc[r].outer, proc[r].outerObs)
  BY DEF Closing, Idle, Abandoned

LEMMA ClosingInLedger ==
    ASSUME NEW s, s.journal \in Seq(EventRecord), AttemptsInOrder(s.journal),
           NEW r, NEW task, Unburdened(s, task), NEW observation
    PROVE  SessionInLedger(s, Closing(r, task, observation))
<1> DEFINE p == Closing(r, task, observation)
<1>1. p.pc = "closing" /\ p.rec = NewTask /\ p.outer = task /\ p.att = NoId
  BY ClosingFields
<1> HIDE DEF p
<1>2. SessionInLedger(s, p)
  BY <1>1, NewTaskUnburdened, FreeInLedger
<1> QED
  BY <1>2 DEF p

LEMMA AbandonedInLedger ==
    ASSUME NEW s, s.journal \in Seq(EventRecord), AttemptsInOrder(s.journal),
           NEW r, SessionInLedger(s, proc[r])
    PROVE  SessionInLedger(s, Abandoned(r))
<1>1. Unburdened(s, proc[r].outer)
  BY DEF SessionInLedger, Unburdened
<1>2. SessionInLedger(s, Closing(r, proc[r].outer, proc[r].outerObs))
  BY <1>1, ClosingInLedger
<1> QED
  BY <1>2 DEF Abandoned

--------------------------------------------------------------------------------
(* One transaction. *)

LEMMA StoreWritten ==
    ASSUME LedgerInv, NEW c, NEW t, Numbered(c, t), Accepts(store, c),
           store' = Stored(store, c), UNCHANGED effects,
           Writes(store.journal, c.drafts), Backed(c.drafts)
    PROVE  /\ Newest(store', store'.task)
           /\ AttemptsInOrder(store'.journal) /\ EffectsStarted' /\ Backed(store.journal)'
           /\ LedgerStep
           /\ \A p \in SessionType : SessionInLedger(store, p) => SessionInLedger(store', p)
           /\ \A q \in CommandType : CommandInLedger(store, q) => CommandInLedger(store', q)
<1> DEFINE j == store.journal
           d == c.drafts
<1>1. /\ j \in Seq(EventRecord) /\ d \in Seq(EventRecord) /\ d # <<>>
      /\ store'.journal = j \o d /\ Newest(store', store'.task)
      /\ AttemptsInOrder(j) /\ TypeInv /\ store \in StoreType
  BY NumberedStored DEF LedgerInv, TypeInv, StoreOK, Numbered
<1>2. AttemptsInOrder(j \o d)
  BY <1>1, WritesInOrder
<1>3. LedgerStep
  BY <1>1, WritesStep
<1>4. /\ DOMAIN (j \o d) = 1 .. Len(j) + Len(d) /\ DOMAIN j = 1 .. Len(j)
      /\ Len(j) \in Nat /\ Len(d) \in Nat
      /\ \A k \in DOMAIN j : (j \o d)[k] = j[k]
      /\ \A k \in DOMAIN (j \o d) :
             k \in DOMAIN j \/ (k - Len(j) \in DOMAIN d /\ (j \o d)[k] = d[k - Len(j)])
  <2> HIDE DEF j, d
  <2>1. j \in Seq(EventRecord) /\ d \in Seq(EventRecord)
    BY <1>1
  <2> QED
    BY <2>1, JoinedAt
<1>5. EffectsStarted'
  <2>1. ASSUME NEW i \in DOMAIN effects
        PROVE  effects[i].att \in StartedIn(j \o d)
                   /\ (j \o d)[effects[i].att].act = effects[i].act
    <3>1. effects[i].att \in StartedIn(j) /\ j[effects[i].att].act = effects[i].act
      BY DEF LedgerInv, EffectsStarted
    <3>2. effects[i].att \in DOMAIN j
      BY <1>1, <1>4, <3>1, InOrder
    <3> QED
      BY <1>1, <1>4, <3>1, <3>2, AttemptsJoined
  <2> QED
    BY <1>1, <2>1 DEF EffectsStarted, StartedIn, Starts, AttemptsAt
<1>6. Backed(store.journal)'
  <2>1. Backed(j \o d)
    BY <1>4 DEF LedgerInv, Backed
  <2> QED
    BY <1>1, <2>1 DEF Backed, CarriedOut
<1>7. ASSUME NEW p \in SessionType, SessionInLedger(store, p)
      PROVE  SessionInLedger(store', p)
  BY <1>1, <1>7, SessionKept
<1>8. ASSUME NEW q \in CommandType, CommandInLedger(store, q)
      PROVE  CommandInLedger(store', q)
  BY <1>1, <1>8, CommandKept
<1> QED
  BY <1>1, <1>2, <1>3, <1>5, <1>6, <1>7, <1>8

(* A transaction of session r. *)
LEMMA SubmitLedger ==
    ASSUME LedgerInv, AtMostOnceInv', NEW r \in Runners, NEW c, NEW t, Numbered(c, t),
           NEW done, NEW failed, Submit(r, c, done, failed), UNCHANGED <<command, effects>>,
           done.pc # "executed", failed.pc # "executed",
           failed \in SessionType, SessionInLedger(store, failed),
           ASSUME Newest(store, t), Stored(store, c).journal = store.journal \o c.drafts,
                  Accepts(store, c)
           PROVE  /\ Writes(store.journal, c.drafts) /\ Backed(c.drafts)
                  /\ AttemptsInOrder(Stored(store, c).journal) =>
                         SessionInLedger(Stored(store, c), done)
    PROVE  LedgerInv' /\ LedgerStep
<1>1. /\ TypeInv /\ DOMAIN proc = Runners /\ store \in StoreType
      /\ \A q \in Runners : proc[q] \in SessionType /\ SessionInLedger(store, proc[q])
      /\ \A o \in Operators : command[o] \in CommandType /\ CommandInLedger(store, command[o])
      /\ AttemptsInOrder(store.journal) /\ Newest(store, store.task)
      /\ EffectsStarted /\ SuccessesCarriedOut /\ Backed(store.journal)
  BY DEF LedgerInv, TypeInv, StoreOK
<1>2. proc' = [proc EXCEPT ![r] = done] \/ proc' = [proc EXCEPT ![r] = failed]
  BY DEF Submit
<1>3. SuccessesCarriedOut'
  BY <1>1, <1>2 DEF SuccessesCarriedOut, CarriedOut
<1>4. /\ AtMostOnceInv' /\ UNCHANGED effects
      /\ \A o \in Operators : command'[o] = command[o]
  OBVIOUS
<1>5. CASE Accepts(store, c) /\ store' = Stored(store, c)
  <2>1. /\ Newest(store, t) /\ store'.journal = store.journal \o c.drafts
        /\ Stored(store, c).journal = store.journal \o c.drafts
    BY <1>1, <1>5, NumberedStored
  <2>2. /\ Writes(store.journal, c.drafts) /\ Backed(c.drafts)
        /\ AttemptsInOrder(store'.journal) => SessionInLedger(store', done)
    BY <1>5, <2>1
  <2>3. /\ Newest(store', store'.task)
        /\ AttemptsInOrder(store'.journal) /\ EffectsStarted' /\ Backed(store.journal)'
        /\ LedgerStep
        /\ \A p \in SessionType : SessionInLedger(store, p) => SessionInLedger(store', p)
        /\ \A q \in CommandType : CommandInLedger(store, q) => CommandInLedger(store', q)
    BY <1>5, <2>2, StoreWritten
  <2>4. \A q \in Runners : SessionInLedger(store', proc'[q])
    BY <1>1, <1>2, <2>2, <2>3
  <2>5. \A o \in Operators : CommandInLedger(store', command'[o])
    BY <1>1, <1>4, <2>3
  <2> QED
    BY <1>3, <1>4, <2>3, <2>4, <2>5 DEF LedgerInv, AtMostOnceInv
<1>6. CASE store' = store /\ proc' = [proc EXCEPT ![r] = failed]
  <2>1. \A q \in Runners : SessionInLedger(store', proc'[q])
    BY <1>1, <1>6
  <2>2. \A o \in Operators : CommandInLedger(store', command'[o])
    BY <1>1, <1>4, <1>6
  <2>3. EffectsStarted' /\ Backed(store.journal)' /\ LedgerStep
    BY <1>1, <1>6 DEF EffectsStarted, Backed, CarriedOut, LedgerStep, Ledger!ledger
  <2> QED
    BY <1>1, <1>3, <1>4, <1>6, <2>1, <2>2, <2>3 DEF LedgerInv, AtMostOnceInv
<1> QED
  BY <1>5, <1>6 DEF Submit

(* A step of session r without a transaction and without an effect. *)
LEMMA SessionStepLedger ==
    ASSUME LedgerInv, AtMostOnceInv', NEW r \in Runners, NEW next,
           proc' = [proc EXCEPT ![r] = next], UNCHANGED <<store, command, effects>>,
           SessionInLedger(store, next), next.pc # "executed"
    PROVE  LedgerInv' /\ LedgerStep
<1>1. /\ TypeInv /\ DOMAIN proc = Runners
      /\ \A q \in Runners : SessionInLedger(store, proc[q])
      /\ \A o \in Operators : CommandInLedger(store, command[o])
      /\ AttemptsInOrder(store.journal) /\ Newest(store, store.task)
      /\ EffectsStarted /\ SuccessesCarriedOut /\ Backed(store.journal)
  BY DEF LedgerInv, TypeInv
<1>2. SuccessesCarriedOut'
  BY <1>1 DEF SuccessesCarriedOut, CarriedOut
<1>3. EffectsStarted' /\ Backed(store.journal)' /\ LedgerStep
  BY <1>1 DEF EffectsStarted, Backed, CarriedOut, LedgerStep, Ledger!ledger
<1>4. \A q \in Runners : SessionInLedger(store', proc'[q])
  BY <1>1
<1> QED
  BY <1>1, <1>2, <1>3, <1>4 DEF LedgerInv, AtMostOnceInv

(* A transaction of operator o. *)
LEMMA ConcludeLedger ==
    ASSUME LedgerInv, AtMostOnceInv', NEW o \in Operators, NEW c, NEW t, Numbered(c, t),
           Conclude(o, c),
           ASSUME Newest(store, t), Accepts(store, c)
           PROVE  Writes(store.journal, c.drafts) /\ Backed(c.drafts)
    PROVE  LedgerInv' /\ LedgerStep
<1>1. /\ TypeInv /\ DOMAIN command = Operators /\ store \in StoreType
      /\ \A q \in Runners : proc[q] \in SessionType /\ SessionInLedger(store, proc[q])
      /\ \A p \in Operators : command[p] \in CommandType /\ CommandInLedger(store, command[p])
      /\ AttemptsInOrder(store.journal) /\ Newest(store, store.task)
      /\ EffectsStarted /\ SuccessesCarriedOut /\ Backed(store.journal)
  BY DEF LedgerInv, TypeInv, StoreOK
<1>2. /\ UNCHANGED <<proc, effects>> /\ AtMostOnceInv'
      /\ command' = [command EXCEPT ![o] = NoCommand]
  BY DEF Conclude
<1>3. \A s : CommandInLedger(s, NoCommand)
  BY DEF CommandInLedger, NoCommand
<1>4. SuccessesCarriedOut'
  BY <1>1, <1>2 DEF SuccessesCarriedOut, CarriedOut
<1>5. CASE Accepts(store, c) /\ store' = Stored(store, c)
  <2>1. Newest(store, t)
    BY <1>1, <1>5, NumberedStored
  <2>2. Writes(store.journal, c.drafts) /\ Backed(c.drafts)
    BY <1>5, <2>1
  <2>3. /\ Newest(store', store'.task)
        /\ AttemptsInOrder(store'.journal) /\ EffectsStarted' /\ Backed(store.journal)'
        /\ LedgerStep
        /\ \A p \in SessionType : SessionInLedger(store, p) => SessionInLedger(store', p)
        /\ \A q \in CommandType : CommandInLedger(store, q) => CommandInLedger(store', q)
    BY <1>2, <1>5, <2>2, StoreWritten
  <2>4. \A q \in Runners : SessionInLedger(store', proc'[q])
    BY <1>1, <1>2, <2>3
  <2>5. \A p \in Operators : CommandInLedger(store', command'[p])
    BY <1>1, <1>2, <1>3, <2>3
  <2> QED
    BY <1>2, <1>4, <2>3, <2>4, <2>5 DEF LedgerInv, AtMostOnceInv
<1>6. CASE UNCHANGED store
  <2>1. \A q \in Runners : SessionInLedger(store', proc'[q])
    BY <1>1, <1>2, <1>6
  <2>2. \A p \in Operators : CommandInLedger(store', command'[p])
    BY <1>1, <1>2, <1>3, <1>6
  <2>3. EffectsStarted' /\ Backed(store.journal)' /\ LedgerStep
    BY <1>1, <1>2, <1>6 DEF EffectsStarted, Backed, CarriedOut, LedgerStep, Ledger!ledger
  <2> QED
    BY <1>1, <1>2, <1>4, <1>6, <2>1, <2>2, <2>3 DEF LedgerInv, AtMostOnceInv
<1> QED
  BY <1>5, <1>6 DEF Conclude

--------------------------------------------------------------------------------
(* The commits of the loop: all that an iteration up to the action writes. *)

LoopCommit(r, c, observation) ==
    /\ InLoop(r) /\ SubmitIteration(r, c, observation)
    /\ CommitOK(c) /\ Numbered(c, proc[r].rec)
    /\ AttemptEventsOf(c.drafts) = {}
    /\ observation \in States
    /\ External \/ observation = proc[r].obs
    /\ ShowsLast(c.drafts, proc[r].obs, observation)
    /\ SameMeans(c.task, proc[r].rec) /\ Ends(c, proc[r].rec)
    /\ External \/ proc[r].sim = observation => Saves(c, proc[r].obs)
    /\ c.update = {}
    /\ \/ c.create = {} /\ (c.task.status = "waiting" => proc[r].rec.status = "waiting")
       \/ \E a : /\ c.create = {a} /\ a.id = proc[r].rec.sequence + 1
                 /\ a.status = "pending" /\ c.task.status = "waiting"
    /\ c.task.status \in {proc[r].rec.status, "waiting"} \cup Terminal
    /\ c.task.status = "completed" =>
           \/ proc[r].rec.status = "completed"
           \/ /\ observation = proc[r].obs /\ proc[r].obs \in Goal
              /\ c.snap = Snapshot(r, proc[r].obs) /\ proc[r].obs \in States

LEMMA TerminalLoopCommit ==
    ASSUME TypeInv, NEW r \in Runners, InLoop(r),
           NEW task \in TaskRecord, SameMeans(task, proc[r].rec),
           NEW status \in Terminal,
           task.cancelRequested => proc[r].rec.cancelRequested \/ status = "cancelled",
           NEW drafts, DraftsOK(drafts), AttemptEventsOf(drafts) = {},
           NEW observation \in States, External \/ observation = proc[r].obs,
           ShowsLast(drafts, proc[r].obs, observation),
           status = "completed" => observation = proc[r].obs /\ proc[r].obs \in Goal,
           SubmitIteration(r, TerminalCommit(proc[r].rec, task, status, drafts,
                                             Snapshot(r, observation)), observation)
    PROVE  \E c : LoopCommit(r, c, observation)
<1> DEFINE ended == [task EXCEPT !.status = status]
           e     == Event(TerminalEvent[status])
           c     == TerminalCommit(proc[r].rec, task, status, drafts, Snapshot(r, observation))
<1>1. proc[r].rec \in TaskRecord
  BY LoopFacts DEF InLoop, Observing
<1>2. Snapshot(r, observation) \in States \cup {NoVal}
  BY SnapshotType
<1>3. /\ Numbered(c, proc[r].rec) /\ Ends(c, proc[r].rec)
      /\ Carries(c, ended, Append(drafts, e), Snapshot(r, observation))
      /\ ended.status = status /\ SameMeans(ended, task)
  BY <1>1, <1>2, TerminalNumbered
<1>4. Plain(e) /\ e.type # "observation_recorded"
  BY PlainEvents
<1> HIDE DEF e
<1>5. AttemptEventsOf(Append(drafts, e)) = {} /\ Observed(Append(drafts, e)) = Observed(drafts)
      /\ \A k \in DOMAIN drafts : Append(drafts, e)[k] = drafts[k]
  BY <1>4, PlainAppended DEF DraftsOK
<1>6. ShowsLast(Append(drafts, e), proc[r].obs, observation)
  BY <1>5 DEF ShowsLast, Observed
<1>7. SubmitIteration(r, c, observation)
  OBVIOUS
<1> HIDE DEF c, ended
<1>8. c.task.status = status /\ SameMeans(c.task, proc[r].rec)
  BY <1>3 DEF Carries, SameMeans
<1>9. /\ CommitOK(c) /\ c.drafts = Append(drafts, e) /\ c.create = {} /\ c.update = {}
      /\ c.snap = Snapshot(r, observation)
  BY <1>3 DEF Carries
<1>10. External \/ proc[r].sim = observation => Saves(c, proc[r].obs)
  BY <1>6, <1>9, NoValAssumption DEF Saves, Snapshot
<1>11. c.task.status # "waiting"
  BY <1>8, TerminalWords
<1>12. LoopCommit(r, c, observation)
  BY <1>3, <1>5, <1>6, <1>7, <1>8, <1>9, <1>10, <1>11 DEF LoopCommit
<1> QED
  BY <1>12

LEMMA ContinuingLoopCommit ==
    ASSUME TypeInv, NEW r \in Runners, InLoop(r),
           NEW task \in TaskRecord, SameMeans(task, proc[r].rec),
           task.status = proc[r].rec.status,
           task.cancelRequested = proc[r].rec.cancelRequested,
           NEW drafts, DraftsOK(drafts), drafts # <<>>, AttemptEventsOf(drafts) = {},
           NEW observation \in States, External \/ observation = proc[r].obs,
           NEW s \in {NoVal, observation}, s = NoVal => observation = proc[r].obs,
           ShowsLast(drafts, proc[r].obs, observation),
           SubmitIteration(r, WithSnapshot(IterationCommit(proc[r].rec, task, drafts), s),
                           observation)
    PROVE  \E c : LoopCommit(r, c, observation)
<1> DEFINE b == IterationCommit(proc[r].rec, task, drafts)
           c == WithSnapshot(b, s)
<1>1. proc[r].rec \in TaskRecord
  BY LoopFacts DEF InLoop, Observing
<1>2. /\ Numbered(b, proc[r].rec) /\ Carries(b, task, drafts, NoVal)
      /\ Ends(b, proc[r].rec)
  BY <1>1, IterationNumbered
<1>3. SubmitIteration(r, c, observation)
  OBVIOUS
<1> HIDE DEF b
<1>4. Numbered(c, proc[r].rec) /\ Carries(c, task, drafts, s) /\ Ends(c, proc[r].rec)
  BY <1>2, SnapshotNumbered
<1> HIDE DEF c
<1>5. /\ CommitOK(c) /\ c.drafts = drafts /\ c.create = {} /\ c.update = {}
      /\ c.task.status = proc[r].rec.status /\ SameMeans(c.task, proc[r].rec)
      /\ c.snap = s
  BY <1>4 DEF Carries, SameMeans
<1>6. Saves(c, proc[r].obs)
  BY <1>5 DEF Saves, ShowsLast
<1>7. LoopCommit(r, c, observation)
  BY <1>3, <1>4, <1>5, <1>6 DEF LoopCommit
<1> QED
  BY <1>7

LEMMA SafeguardLoopCommit ==
    ASSUME TypeInv, NEW r \in Runners, InLoop(r), NEW blocked \in BOOLEAN,
           NEW task \in TaskRecord, SameMeans(task, proc[r].rec),
           task.status = proc[r].rec.status,
           task.cancelRequested = proc[r].rec.cancelRequested,
           NEW drafts, DraftsOK(drafts), drafts # <<>>, AttemptEventsOf(drafts) = {},
           NEW observation \in States, External \/ observation = proc[r].obs,
           NEW s \in {NoVal, observation}, s = NoVal => observation = proc[r].obs,
           ShowsLast(drafts, proc[r].obs, observation),
           SafeguardCommit(r, blocked, task, drafts, s, observation)
    PROVE  \E c : LoopCommit(r, c, observation)
<1>1. CASE blocked
  <2>1. SubmitIteration(r, TerminalCommit(proc[r].rec, task, "blocked", drafts,
                                          Snapshot(r, observation)), observation)
    BY <1>1 DEF SafeguardCommit
  <2> QED
    BY <2>1, TerminalWords, TerminalLoopCommit
<1>2. CASE ~blocked
  <2>1. SubmitIteration(r, WithSnapshot(IterationCommit(proc[r].rec, task, drafts), s),
                        observation)
    BY <1>2 DEF SafeguardCommit
  <2> QED
    BY <2>1, ContinuingLoopCommit
<1> QED
  BY <1>1, <1>2

LEMMA NoteFacts ==
    ASSUME NEW s
    PROVE  /\ DraftsOK(Note) /\ Note # <<>> /\ AttemptEventsOf(Note) = {}
           /\ ShowsLast(Note, s, s)
           /\ DraftsOK(<<>>) /\ AttemptEventsOf(<<>>) = {} /\ ShowsLast(<<>>, s, s)
<1>1. Event("note").type = "note"
  BY DEF Event
<1>2. Observed(Note) = {} /\ Note # <<>>
  BY <1>1 DEF Observed, Note
<1>3. AttemptEventsOf(Note) = {}
  BY PlainEvents, PlainDrafts DEF Note
<1> QED
  BY <1>2, <1>3, NoteDraft, DraftSequences, PlainDrafts DEF ShowsLast

LEMMA ObservationFacts ==
    ASSUME NEW s \in States, NEW before
    PROVE  LET drafts == <<ObservationEvent(s)>>
           IN  /\ DraftsOK(drafts) /\ drafts # <<>> /\ AttemptEventsOf(drafts) = {}
               /\ ShowsLast(drafts, before, s)
<1> DEFINE e == ObservationEvent(s)
<1>1. e.type = "observation_recorded" /\ e.state = s
  BY DEF Event, ObservationEvent
<1>2. Plain(e) /\ DraftsOK(<<e>>)
  BY PlainEvents, ObservationDraft, DraftSequences
<1> HIDE DEF e
<1>3. 1 \in Observed(<<e>>) /\ \A k \in Observed(<<e>>) : <<e>>[k].state = s
  BY <1>1 DEF Observed
<1>4. ShowsLast(<<e>>, before, s)
  BY <1>3 DEF ShowsLast
<1>5. AttemptEventsOf(<<e>>) = {}
  BY <1>2, PlainDrafts
<1> QED
  BY <1>2, <1>4, <1>5 DEF e

LEMMA CountedFacts ==
    ASSUME NEW r, proc[r].rec \in TaskRecord
    PROVE  /\ Counted(r) \in TaskRecord /\ Counted(r).status = proc[r].rec.status
           /\ SameMeans(Counted(r), proc[r].rec)
           /\ Counted(r).cancelRequested = proc[r].rec.cancelRequested
  BY CountedType DEF Counted, TaskRecord, SameMeans

LEMMA WithActionFacts ==
    ASSUME NEW r, proc[r].rec \in TaskRecord, proc[r].obs \in States, NEW a \in Acts
    PROVE  /\ WithAction(r, a) \in TaskRecord /\ WithAction(r, a).status = proc[r].rec.status
           /\ SameMeans(WithAction(r, a), proc[r].rec)
           /\ WithAction(r, a).cancelRequested = proc[r].rec.cancelRequested
<1>1. WithAction(r, a) \in TaskRecord /\ WithAction(r, a).status = proc[r].rec.status
  BY WithActionType
<1>2. /\ Counted(r) \in TaskRecord /\ SameMeans(Counted(r), proc[r].rec)
      /\ Counted(r).cancelRequested = proc[r].rec.cancelRequested
  BY CountedFacts
<1>3. \A n, p : LET task == [Counted(r) EXCEPT !.repAction = n, !.lastAction = p]
               IN  /\ SameMeans(task, Counted(r))
                   /\ task.cancelRequested = Counted(r).cancelRequested
  BY <1>2 DEF TaskRecord, SameMeans
<1>4. /\ SameMeans(WithAction(r, a), Counted(r))
      /\ WithAction(r, a).cancelRequested = Counted(r).cancelRequested
  BY <1>3 DEF WithAction
<1> QED
  BY <1>1, <1>2, <1>4 DEF SameMeans

LEMMA ObservedStateFacts ==
    ASSUME NEW task \in TaskRecord, NEW s \in States
    PROVE  /\ WithObservedState(task, s) \in TaskRecord
           /\ WithObservedState(task, s).status = task.status
           /\ SameMeans(WithObservedState(task, s), task)
           /\ WithObservedState(task, s).cancelRequested = task.cancelRequested
<1>1. \A n : LET seen == [task EXCEPT !.repState = n, !.lastState = s]
             IN  /\ SameMeans(seen, task) /\ seen.status = task.status
                 /\ seen.cancelRequested = task.cancelRequested
  BY DEF TaskRecord, SameMeans
<1> QED
  BY <1>1, WithObservedStateType DEF WithObservedState

LEMMA StoppingCommits ==
    ASSUME TypeInv, NEW r \in Runners,
           CancelSeen(r) \/ IterationLimit(r) \/ Evaluated(r) \/ ProviderStops(r)
    PROVE  \E c, observation : LoopCommit(r, c, observation)
<1> DEFINE rec == proc[r].rec
           obs == proc[r].obs
<1>1. InLoop(r)
  BY DEF CancelSeen, IterationLimit, Evaluated, ProviderStops, Deciding, Undecided, Iterating
<1>2. rec \in TaskRecord /\ obs \in States
  BY <1>1, LoopFacts DEF InLoop, Observing
<1>3. ASSUME NEW task \in TaskRecord, SameMeans(task, rec), NEW status \in Terminal,
             task.cancelRequested => rec.cancelRequested \/ status = "cancelled",
             status = "completed" => obs \in Goal, NEW drafts \in {<<>>, Note},
             SubmitIteration(r, TerminalCommit(rec, task, status, drafts, Snapshot(r, obs)), obs)
      PROVE  \E c : LoopCommit(r, c, obs)
  <2>1. DraftsOK(drafts) /\ AttemptEventsOf(drafts) = {} /\ ShowsLast(drafts, obs, obs)
    BY NoteFacts
  <2> QED
    BY <1>1, <1>2, <1>3, <2>1, TerminalLoopCommit
<1>4. SameMeans(rec, rec)
  BY DEF SameMeans
<1>5. /\ Counted(r) \in TaskRecord /\ SameMeans(Counted(r), rec)
      /\ Counted(r).cancelRequested = rec.cancelRequested
  BY <1>2, CountedFacts
<1>6. CASE CancelSeen(r)
  <2> DEFINE task == [rec EXCEPT !.cancelRequested = TRUE]
  <2>1. task \in TaskRecord /\ SameMeans(task, rec)
    BY <1>2 DEF TaskRecord, SameMeans
  <2>2. SubmitIteration(r, TerminalCommit(rec, task, "cancelled", <<>>, Snapshot(r, obs)), obs)
    BY <1>6 DEF CancelSeen
  <2> HIDE DEF task, rec, obs
  <2> QED
    BY <1>3, <2>1, <2>2, TerminalWords
<1>7. CASE IterationLimit(r)
  <2>1. SubmitIteration(r, TerminalCommit(rec, rec, "blocked", Note, Snapshot(r, obs)), obs)
    BY <1>7 DEF IterationLimit
  <2> HIDE DEF rec, obs
  <2> QED
    BY <1>2, <1>3, <1>4, <2>1, TerminalWords
<1>8. CASE Evaluated(r)
  <2> DEFINE status == IF obs \in Goal THEN "completed" ELSE "blocked"
  <2>1. SubmitIteration(r, TerminalCommit(rec, Counted(r), status, Note, Snapshot(r, obs)), obs)
    BY <1>8 DEF Evaluated
  <2>2. status \in Terminal /\ (status = "completed" => obs \in Goal)
    BY TerminalWords
  <2> HIDE DEF rec, obs, status
  <2> QED
    BY <1>3, <1>5, <2>1, <2>2
<1>9. CASE ProviderStops(r)
  <2>1. PICK status \in ProviderStopStatuses :
            SubmitIteration(r, TerminalCommit(rec, Counted(r), status, Note, Snapshot(r, obs)), obs)
    BY <1>9 DEF ProviderStops
  <2>2. status \in Terminal /\ status # "completed"
    BY TerminalWords DEF ProviderStopStatuses
  <2> HIDE DEF rec, obs
  <2> QED
    BY <1>3, <1>5, <2>1, <2>2
<1> QED
  BY <1>6, <1>7, <1>8, <1>9

LEMMA GuardedCommits ==
    ASSUME TypeInv, NEW r \in Runners,
           FalseCompletion(r) \/ Wait(r) \/ RepeatedAction(r) \/ RejectAction(r)
    PROVE  \E c, observation : LoopCommit(r, c, observation)
<1> DEFINE rec == proc[r].rec
           obs == proc[r].obs
<1>1. InLoop(r)
  BY DEF FalseCompletion, Wait, RepeatedAction, RejectAction, Deciding, Undecided, Iterating
<1>2. rec \in TaskRecord /\ obs \in States /\ world \in States
  BY <1>1, LoopFacts DEF InLoop, Observing, TypeInv
<1>3. ASSUME NEW blocked \in BOOLEAN, NEW task \in TaskRecord, SameMeans(task, rec),
             task.status = rec.status, task.cancelRequested = rec.cancelRequested,
             NEW observation \in States, NEW s, NEW drafts,
             \/ drafts = Note /\ observation = obs /\ s = NoVal
             \/ drafts = <<ObservationEvent(observation)>> /\ s = observation /\ External,
             SafeguardCommit(r, blocked, task, drafts, s, observation)
      PROVE  \E c : LoopCommit(r, c, observation)
  <2>1. /\ DraftsOK(drafts) /\ drafts # <<>> /\ AttemptEventsOf(drafts) = {}
        /\ ShowsLast(drafts, obs, observation) /\ (External \/ observation = obs)
        /\ s \in {NoVal, observation} /\ (s = NoVal => observation = obs)
    BY <1>3, NoteFacts, ObservationFacts, NoValAssumption
  <2> QED
    BY <1>1, <1>3, <2>1, SafeguardLoopCommit
<1>4. /\ Counted(r) \in TaskRecord /\ Counted(r).status = rec.status
      /\ SameMeans(Counted(r), rec) /\ Counted(r).cancelRequested = rec.cancelRequested
  BY <1>2, CountedFacts
<1>5. \A a \in Chosen(r) : /\ a \in Acts /\ WithAction(r, a) \in TaskRecord
                           /\ WithAction(r, a).status = rec.status
                           /\ SameMeans(WithAction(r, a), rec)
                           /\ WithAction(r, a).cancelRequested = rec.cancelRequested
  BY <1>2, ChosenType, WithActionFacts
<1>6. CASE FalseCompletion(r)
  <2> DEFINE task    == [Counted(r) EXCEPT !.failures = @ + 1]
             blocked == BlockOnFalseCompletion \/ task.failures >= MaxConsecutiveFailures
  <2>1. SafeguardCommit(r, blocked, task, Note, NoVal, obs) /\ blocked \in BOOLEAN
    BY <1>6 DEF FalseCompletion
  <2>2. /\ task \in TaskRecord /\ task.status = rec.status /\ SameMeans(task, rec)
        /\ task.cancelRequested = rec.cancelRequested
    BY <1>4 DEF TaskRecord, SameMeans
  <2> HIDE DEF task, blocked, rec, obs
  <2> QED
    BY <1>2, <1>3, <2>1, <2>2
<1>7. CASE Wait(r)
  <2> DEFINE observed == IF External THEN world ELSE obs
             task     == WithObservedState(Counted(r), observed)
             blocked  == task.repState >= RepeatedStateLimit
             drafts   == IF External THEN <<ObservationEvent(observed)>> ELSE Note
             s        == IF External THEN observed ELSE NoVal
  <2>1. SafeguardCommit(r, blocked, task, drafts, s, observed) /\ blocked \in BOOLEAN
    BY <1>7 DEF Wait
  <2>2. observed \in States
    BY <1>2
  <2>3. \/ drafts = Note /\ observed = obs /\ s = NoVal
        \/ drafts = <<ObservationEvent(observed)>> /\ s = observed /\ External
    OBVIOUS
  <2> HIDE DEF observed
  <2>4. /\ task \in TaskRecord /\ task.status = rec.status /\ SameMeans(task, rec)
        /\ task.cancelRequested = rec.cancelRequested
    BY <1>4, <2>2, ObservedStateFacts DEF SameMeans
  <2> HIDE DEF task, blocked, rec, obs, drafts, s
  <2> QED
    BY <1>3, <2>1, <2>2, <2>3, <2>4
<1>8. CASE RepeatedAction(r)
  <2>1. PICK a \in Chosen(r) : SafeguardCommit(r, TRUE, WithAction(r, a), Note, NoVal, obs)
    BY <1>8 DEF RepeatedAction
  <2> HIDE DEF rec, obs
  <2> QED
    BY <1>2, <1>3, <1>5, <2>1
<1>9. CASE RejectAction(r)
  <2> DEFINE task(a)     == [WithAction(r, a) EXCEPT !.failures = @ + 1]
             blocked(a)  == task(a).failures >= MaxConsecutiveFailures
             observed(v) == IF v = "stale" THEN world ELSE obs
             drafts(v)   == IF v = "stale" THEN <<ObservationEvent(observed(v))>> ELSE Note
             s(v)        == IF v = "stale" THEN observed(v) ELSE NoVal
  <2>1. PICK a \in Chosen(r) : \E v \in Validations(r, a) :
            SafeguardCommit(r, blocked(a), task(a), drafts(v), s(v), observed(v))
    BY <1>9 DEF RejectAction
  <2>2. PICK v \in Validations(r, a) :
            SafeguardCommit(r, blocked(a), task(a), drafts(v), s(v), observed(v))
    BY <2>1
  <2>3. /\ task(a) \in TaskRecord /\ blocked(a) \in BOOLEAN
        /\ task(a).status = rec.status /\ SameMeans(task(a), rec)
        /\ task(a).cancelRequested = rec.cancelRequested
    BY <1>5 DEF TaskRecord, SameMeans
  <2>4. v = "stale" => External
    BY <2>2 DEF Validations
  <2>5. observed(v) \in States
    BY <1>2
  <2>6. \/ drafts(v) = Note /\ observed(v) = obs /\ s(v) = NoVal
        \/ drafts(v) = <<ObservationEvent(observed(v))>> /\ s(v) = observed(v) /\ External
    BY <2>4
  <2> HIDE DEF task, blocked, rec, obs, drafts, s, observed
  <2> QED
    BY <1>3, <2>2, <2>3, <2>5, <2>6
<1> QED
  BY <1>6, <1>7, <1>8, <1>9

LEMMA ApprovalCommit ==
    ASSUME TypeInv, NEW r \in Runners, RequestApproval(r)
    PROVE  \E c, observation : LoopCommit(r, c, observation)
<1> DEFINE rec     == proc[r].rec
           id      == rec.sequence + 1
           task(a) == [WithAction(r, a) EXCEPT !.status = "waiting"]
           e(a)    == [Event("approval_requested") EXCEPT !.id = id, !.act = a]
           b(a)    == IterationCommit(rec, task(a), <<e(a)>>)
           new(a)  == [id |-> id, act |-> a, status |-> "pending"]
           c(a)    == [b(a) EXCEPT !.create = {new(a)}]
<1>1. PICK a \in Chosen(r) : MayExecute(r, a) /\ SubmitIteration(r, c(a), proc[r].obs)
  BY DEF RequestApproval
<1>2. InLoop(r)
  BY <1>1 DEF MayExecute, Undecided, Iterating
<1>3. /\ rec \in TaskRecord /\ proc[r].obs \in States /\ id \in Nat /\ a \in Acts
      /\ WithAction(r, a) \in TaskRecord /\ SameMeans(WithAction(r, a), rec)
      /\ WithAction(r, a).cancelRequested = rec.cancelRequested
  <2>1. rec \in TaskRecord /\ proc[r].obs \in States
    BY <1>2, LoopFacts DEF InLoop, Observing
  <2> QED
    BY <2>1, ChosenType, WithActionFacts DEF TaskRecord
<1>4. /\ task(a) \in TaskRecord /\ task(a).status = "waiting" /\ SameMeans(task(a), rec)
      /\ task(a).cancelRequested = rec.cancelRequested
  BY <1>3 DEF TaskRecord, Statuses, Transitions, SameMeans
<1>5. Plain(e(a)) /\ Draft(e(a)) /\ e(a).type = "approval_requested"
  <2>1. Draft(e(a)) /\ e(a).type = "approval_requested"
    BY <1>3, EventDraft DEF EventType, Event
  <2>2. "approval_requested" \notin AttemptEvents
    BY DEF AttemptEvents, AttemptEventStatus
  <2> HIDE DEF e
  <2> QED
    BY <2>1, <2>2 DEF Plain, Draft
<1> HIDE DEF e
<1>6. /\ DraftsOK(<<e(a)>>) /\ <<e(a)>> # <<>> /\ AttemptEventsOf(<<e(a)>>) = {}
      /\ ShowsLast(<<e(a)>>, proc[r].obs, proc[r].obs)
  <2>1. Observed(<<e(a)>>) = {}
    BY <1>5 DEF Observed
  <2> QED
    BY <1>5, <2>1, DraftSequences, PlainDrafts DEF ShowsLast
<1> HIDE DEF task
<1>7. Numbered(b(a), rec) /\ Carries(b(a), task(a), <<e(a)>>, NoVal) /\ Ends(b(a), rec)
  BY <1>3, <1>4, <1>6, TerminalWords, IterationNumbered
<1> HIDE DEF b
<1>8. /\ CommitOK(c(a)) /\ Numbered(c(a), rec) /\ c(a).drafts = <<e(a)>>
      /\ c(a).task.status = "waiting" /\ SameMeans(c(a).task, rec)
      /\ c(a).update = {} /\ c(a).create = {new(a)} /\ c(a).snap = NoVal /\ Ends(c(a), rec)
  <2>1. new(a) \in ApprovalRecord
    BY <1>3 DEF ApprovalRecord
  <2> HIDE DEF new
  <2>2. /\ c(a) \in CommitType /\ c(a).drafts = b(a).drafts /\ c(a).task = b(a).task
        /\ c(a).base = b(a).base /\ c(a).update = b(a).update /\ c(a).create = {new(a)}
        /\ c(a).snap = b(a).snap
    BY <1>7, <2>1 DEF Numbered, CommitType
  <2> HIDE DEF c
  <2> QED
    BY <1>4, <1>7, <2>2, TerminalWords DEF Numbered, Carries, CommitOK, SameMeans, Ends
<1> HIDE DEF c
<1>9. Saves(c(a), proc[r].obs)
  BY <1>6, <1>8 DEF Saves
<1>10. new(a).id = rec.sequence + 1 /\ new(a).status = "pending"
  OBVIOUS
<1> HIDE DEF new, b
<1>11. SubmitIteration(r, c(a), proc[r].obs)
  BY <1>1 DEF c, b, new
<1>12. LoopCommit(r, c(a), proc[r].obs)
  BY <1>2, <1>3, <1>6, <1>8, <1>9, <1>10, <1>11 DEF LoopCommit
<1> QED
  BY <1>12

LEMMA IterateCommits ==
    ASSUME TypeInv, NEW r \in Runners, Iterate(r)
    PROVE  Yield(r) \/ \E c, observation : LoopCommit(r, c, observation)
  BY StoppingCommits, GuardedCommits, ApprovalCommit DEF Iterate

--------------------------------------------------------------------------------
(* The transactions of a session. *)

LEMMA LedgerFacts ==
    ASSUME LedgerInv, NEW r \in Runners
    PROVE  /\ TypeInv /\ store \in StoreType /\ store.journal \in Seq(EventRecord)
           /\ AttemptsInOrder(store.journal) /\ Newest(store, store.task)
           /\ proc[r] \in SessionType /\ SessionInLedger(store, proc[r])
           /\ proc[r].rec \in TaskRecord /\ proc[r].outer \in TaskRecord /\ proc[r].att \in Nat
           /\ Unburdened(store, proc[r].outer)
           /\ Abandoned(r) \in SessionType /\ SessionInLedger(store, Abandoned(r))
           /\ Abandoned(r).pc = "closing"
           /\ Idle \in SessionType /\ SessionInLedger(store, Idle) /\ Idle.pc = "idle"
<1>1. /\ TypeInv /\ store \in StoreType /\ store.journal \in Seq(EventRecord)
      /\ AttemptsInOrder(store.journal) /\ Newest(store, store.task)
      /\ proc[r] \in SessionType /\ SessionInLedger(store, proc[r])
  BY DEF LedgerInv, TypeInv, StoreOK, StoreType
<1>2. /\ proc[r].rec \in TaskRecord /\ proc[r].outer \in TaskRecord /\ proc[r].att \in Nat
      /\ proc[r].outerObs \in States \cup {NoVal}
  BY <1>1 DEF SessionType
<1>3. Unburdened(store, proc[r].outer)
  BY <1>1 DEF SessionInLedger, Unburdened
<1>4. Abandoned(r) \in SessionType
  BY <1>1, <1>2, ClosingOK DEF SessionOK
<1>5. Idle \in SessionType
  BY IdleOK DEF SessionOK
<1> QED
  BY <1>1, <1>2, <1>3, <1>4, <1>5, AbandonedInLedger, IdleInLedger, ClosingPC

LEMMA QuietWrites ==
    ASSUME NEW j, NEW d, AttemptEventsOf(d) = {}
    PROVE  Writes(j, d) /\ Backed(d)
  BY DEF Writes, Backed, AttemptEventsOf, AttemptEvents, AttemptEventStatus

(* After a commit that leaves no attempt open, neither its own task record *)
(* nor an older one is a burden.                                           *)
LEMMA WrittenUnburdened ==
    ASSUME NEW s \in StoreType, NEW c, NEW t, Numbered(c, t), Accepts(s, c),
           AllClosed(Stored(s, c).journal),
           NEW u \in TaskRecord, u.sequence <= Len(s.journal)
    PROVE  Unburdened(Stored(s, c), c.task) /\ Unburdened(Stored(s, c), u)
<1>1. /\ Len(s.journal) \in Nat /\ Len(c.drafts) \in Nat \ {0}
      /\ Len(Stored(s, c).journal) = Len(s.journal) + Len(c.drafts)
      /\ Newest(Stored(s, c), c.task)
  BY NumberedStored
<1>2. u.sequence \in Nat
  BY DEF TaskRecord
<1> DEFINE n == Len(s.journal)
           m == Len(Stored(s, c).journal)
           l == Len(c.drafts)
<1>3. c.task.sequence = m /\ u.sequence <= n
  BY <1>1 DEF Newest
<1>5. n \in Nat /\ l \in Nat \ {0} /\ m = n + l
  BY <1>1
<1> HIDE DEF n, m, l
<1>4. c.task.sequence <= m /\ u.sequence <= m /\ u.sequence # m
  BY <1>2, <1>3, <1>5
<1> QED
  BY <1>4 DEF Unburdened, Newest, m

(* An iteration that leaves no attempt open. *)
LEMMA IterationLedger ==
    ASSUME LedgerInv, AtMostOnceInv', NEW r \in Runners, NEW c, NEW observation,
           Numbered(c, proc[r].rec), SubmitIteration(r, c, observation),
           ASSUME Newest(store, proc[r].rec), c.drafts \in Seq(EventRecord)
           PROVE  /\ Writes(store.journal, c.drafts) /\ Backed(c.drafts)
                  /\ AllClosed(store.journal \o c.drafts)
    PROVE  LedgerInv' /\ LedgerStep
<1> DEFINE done  == AfterIteration(r, c.task, observation)
           loops == [Looping(r, c.task, observation) EXCEPT !.worked = TRUE]
<1>1. Submit(r, c, done, Abandoned(r)) /\ UNCHANGED <<command, effects>>
  BY DEF SubmitIteration
<1>2. proc[r] \in SessionType /\ proc[r].outer \in TaskRecord
      /\ proc[r].outer.sequence <= Len(store.journal) /\ store \in StoreType
  BY LedgerFacts DEF SessionInLedger
<1>3. /\ loops.pc = "loop" /\ loops.rec = c.task /\ loops.att = NoId
      /\ loops.outer = proc[r].outer
  BY <1>2 DEF Looping, SessionType
<1>4. done = loops \/ done = Closing(r, c.task, observation)
  BY DEF AfterIteration
<1> HIDE DEF loops, done
<1>5. done.pc # "executed"
  BY <1>3, <1>4, ClosingFields
<1>6. ASSUME Newest(store, proc[r].rec),
             Stored(store, c).journal = store.journal \o c.drafts, Accepts(store, c)
      PROVE  /\ Writes(store.journal, c.drafts) /\ Backed(c.drafts)
             /\ AttemptsInOrder(Stored(store, c).journal) =>
                    SessionInLedger(Stored(store, c), done)
  <2>0. c.drafts \in Seq(EventRecord)
    BY DEF Numbered, CommitType
  <2>1. /\ Writes(store.journal, c.drafts) /\ Backed(c.drafts)
        /\ AllClosed(Stored(store, c).journal)
    BY <1>6, <2>0
  <2>2. /\ Unburdened(Stored(store, c), c.task)
        /\ Unburdened(Stored(store, c), proc[r].outer)
    BY <1>2, <1>6, <2>1, WrittenUnburdened
  <2>3. Stored(store, c).journal \in Seq(EventRecord)
    BY <1>2, <1>6, NumberedStored
  <2>4. SessionInLedger(Stored(store, c), loops)
    BY <1>3, <2>2, FreeInLedger
  <2> QED
    BY <1>4, <2>1, <2>2, <2>3, <2>4, ClosingInLedger
<1> QED
  BY <1>1, <1>5, <1>6, LedgerFacts, SubmitLedger

LEMMA IterateLedger ==
    ASSUME LedgerInv, AtMostOnceInv', NEW r \in Runners, Iterate(r)
    PROVE  LedgerInv' /\ LedgerStep
<1>1. InLoop(r) => proc[r].att = NoId /\ (Newest(store, proc[r].rec) => AllClosed(store.journal))
  BY LedgerFacts DEF InLoop, SessionInLedger
<1>2. CASE Yield(r)
  <2> DEFINE next == Closing(r, proc[r].rec, proc[r].obs)
  <2>1. /\ InLoop(r) /\ proc' = [proc EXCEPT ![r] = next]
        /\ UNCHANGED <<store, command, effects>>
    BY <1>2 DEF Yield
  <2>2. Unburdened(store, proc[r].rec)
    BY <1>1, <2>1, LedgerFacts DEF Unburdened, SessionInLedger
  <2>3. SessionInLedger(store, next) /\ next.pc # "executed"
    BY <2>2, LedgerFacts, ClosingInLedger, ClosingFields
  <2> HIDE DEF next
  <2> QED
    BY <2>1, <2>3, SessionStepLedger
<1>3. ASSUME NEW c, NEW observation, LoopCommit(r, c, observation)
      PROVE  LedgerInv' /\ LedgerStep
  <2>1. /\ InLoop(r) /\ SubmitIteration(r, c, observation) /\ Numbered(c, proc[r].rec)
        /\ AttemptEventsOf(c.drafts) = {}
    BY <1>3 DEF LoopCommit
  <2>2. ASSUME Newest(store, proc[r].rec), c.drafts \in Seq(EventRecord)
        PROVE  /\ Writes(store.journal, c.drafts) /\ Backed(c.drafts)
               /\ AllClosed(store.journal \o c.drafts)
    BY <1>1, <2>1, <2>2, LedgerFacts, QuietWrites, StaysClosed
  <2> QED
    BY <2>1, <2>2, IterationLedger
<1> QED
  BY <1>2, <1>3, LedgerFacts, IterateCommits

(* A transaction that is about no attempt, while none is open. *)
LEMMA QuietSubmitLedger ==
    ASSUME LedgerInv, AtMostOnceInv', NEW r \in Runners, NEW c, NEW t \in TaskRecord,
           Numbered(c, t), AttemptEventsOf(c.drafts) = {},
           Newest(store, t) => AllClosed(store.journal),
           NEW done, done.rec \in {c.task, NewTask}, done.outer \in {c.task, NewTask},
           done.att = NoId, done.pc \notin {"prepared", "started", "executed", "gate"},
           NEW failed \in SessionType, SessionInLedger(store, failed), failed.pc # "executed",
           Submit(r, c, done, failed), UNCHANGED <<command, effects>>
    PROVE  LedgerInv' /\ LedgerStep
<1>1. store \in StoreType /\ store.journal \in Seq(EventRecord) /\ AttemptsInOrder(store.journal)
  BY LedgerFacts
<1>2. ASSUME Newest(store, t),
             Stored(store, c).journal = store.journal \o c.drafts, Accepts(store, c)
      PROVE  /\ Writes(store.journal, c.drafts) /\ Backed(c.drafts)
             /\ AttemptsInOrder(Stored(store, c).journal) =>
                    SessionInLedger(Stored(store, c), done)
  <2>1. c.drafts \in Seq(EventRecord)
    BY DEF Numbered, CommitType
  <2>2. AllClosed(Stored(store, c).journal)
    BY <1>1, <1>2, <2>1, StaysClosed
  <2>3. t.sequence <= Len(store.journal)
    BY <1>1, <1>2, LenProperties DEF Newest
  <2>4. Unburdened(Stored(store, c), c.task)
    BY <1>1, <1>2, <2>2, <2>3, WrittenUnburdened
  <2>5. Stored(store, c).journal \in Seq(EventRecord)
    BY <1>1, <1>2, NumberedStored
  <2>6. AttemptsInOrder(Stored(store, c).journal) => Unburdened(Stored(store, c), NewTask)
    BY <2>5, NewTaskUnburdened
  <2>7. AttemptsInOrder(Stored(store, c).journal) => SessionInLedger(Stored(store, c), done)
    BY <2>4, <2>6, FreeInLedger
  <2> QED
    BY <2>7, QuietWrites
<1> QED
  BY <1>2, SubmitLedger

--------------------------------------------------------------------------------
(* What a commit writes of the attempt that is open. *)

(* An event that leaves the attempt open. *)
LEMMA OpenWrites ==
    ASSUME NEW j, NEW id \in Prepared(j) \ ClosedIn(j),
           NEW e, e.type \in AttemptEvents \ (ClosingTypes \cup {"action_prepared"}), e.id = id,
           e.type # "action_execution_confirmed",
           e.type = "action_execution_started" => id \notin StartedIn(j)
    PROVE  MovesAttempt(j, <<e>>, id) /\ Writes(j, <<e>>) /\ Backed(<<e>>)
<1>1. DOMAIN <<e>> = {1} /\ <<e>>[1] = e
  OBVIOUS
<1> DEFINE d == <<e>>
<1> HIDE DEF d
<1>2. Closings(d) = {} /\ Voidings(d) = {} /\ Prepared(d) = {}
  BY <1>1, ClosingsByType DEF Prepared, d
<1>3. \A k \in AttemptEventsOf(d) : d[k].id = id
  BY <1>1 DEF AttemptEventsOf, d
<1>4. Starts(d) # {} => id \notin StartedIn(j)
  BY <1>1 DEF Starts, d
<1>5. MovesAttempt(j, d, id)
  BY <1>2, <1>3, <1>4 DEF MovesAttempt, Concerning
<1>6. Backed(d)
  BY <1>1 DEF Backed, d
<1> QED
  BY <1>5, <1>6 DEF Writes, d

(* The events that resolve it. *)
LEMMA ResolvingWrites ==
    ASSUME NEW j, NEW id \in Prepared(j) \ ClosedIn(j),
           NEW e, e.type \in ClosingTypes, e.id = id,
           e.res = "never_started" => id \notin StartedIn(j),
           NEW o, o.type \notin AttemptEvents,
           NEW f, f.type = "action_execution_confirmed", f.id = id,
           f.res = "success" => CarriedOut(id),
           NEW d, d = <<e>> \/ d = <<o, e>> \/ d = <<o, f, e>>
    PROVE  /\ MovesAttempt(j, d, id) /\ Closings(d) # {}
           /\ Writes(j, d) /\ Backed(d)
<1> DEFINE last(n) ==
        /\ n \in DOMAIN d /\ d[n] = e
        /\ \A k \in DOMAIN d : k <= n
        /\ \A k \in DOMAIN d : k = n \/ d[k] = o \/ d[k] = f
<1>1. \E n \in Nat : last(n)
  <2>1. CASE d = <<e>>
    <3>1. last(1)
      BY <2>1
    <3> QED
      BY <3>1
  <2>2. CASE d = <<o, e>>
    <3>1. DOMAIN d = 1 .. 2 /\ d[1] = o /\ d[2] = e
      BY <2>2
    <3>2. last(2)
      BY <3>1
    <3> QED
      BY <3>2
  <2>3. CASE d = <<o, f, e>>
    <3>1. DOMAIN d = 1 .. 3 /\ d[1] = o /\ d[2] = f /\ d[3] = e
      BY <2>3
    <3>2. last(3)
      BY <3>1
    <3> QED
      BY <3>2
  <2> QED
    BY <2>1, <2>2, <2>3
<1>2. PICK n \in Nat : last(n)
  BY <1>1
<1>3. /\ "action_execution_confirmed" \notin ClosingTypes
      /\ {"action_prepared", "action_execution_started", "action_execution_confirmed"}
             \cap ClosingTypes = {}
      /\ ClosingTypes \cup {"action_prepared", "action_execution_started"} \subseteq AttemptEvents
  BY EventTypes DEF ClosingTypes
<1>4. Closings(d) = {n} /\ Starts(d) = {} /\ Prepared(d) = {}
  <2>1. Closings(d) = {k \in DOMAIN d : d[k].type \in ClosingTypes}
    BY ClosingsByType
  <2> QED
    BY <1>2, <1>3, <2>1 DEF Starts, Prepared
<1>5. Concerning(d, id)
  BY <1>2, <1>4 DEF Concerning, AttemptEventsOf
<1>6. Voidings(d) # {} => id \notin StartedIn(j)
  BY <1>2, <1>4 DEF Voidings
<1>7. Backed(d)
  <2>1. ASSUME NEW k \in DOMAIN d, d[k].type = "action_execution_confirmed"
        PROVE  d[k] = f
    BY <1>2, <1>3, <2>1, EventTypes
  <2> QED
    BY <2>1 DEF Backed
<1>8. MovesAttempt(j, d, id)
  BY <1>4, <1>5, <1>6 DEF MovesAttempt
<1> QED
  BY <1>4, <1>7, <1>8 DEF Writes

(* What settles attempt id: one event, or the confirmation and the checkpoint. *)
SettlingTypes == {"action_reconciled", "action_attempt_failed"}

Settles(drafts, id) ==
    /\ \A k \in AttemptEventsOf(drafts) : drafts[k].id = id
    /\ \/ \E k : AttemptEventsOf(drafts) = {k} /\ drafts[k].type \in SettlingTypes
       \/ \E k, l : /\ AttemptEventsOf(drafts) = {k, l} /\ k < l
                    /\ drafts[k].type = "action_execution_confirmed"
                    /\ drafts[l].type = "action_checkpoint_committed"

(* And what the task pays for it, if the attempt was a success. *)
Pays(c, t, id, price) ==
    /\ Settles(c.drafts, id)
    /\ c.task.spend = IF Charged(c.drafts) = {} THEN t.spend ELSE t.spend + price

LEMMA SettledByOne ==
    ASSUME NEW id, NEW e, e.type \in SettlingTypes, e.id = id,
           NEW p, p.type \notin AttemptEvents, NEW d, d = <<e>> \/ d = <<p, e>>
    PROVE  /\ Settles(d, id)
           /\ Charged(d) = {} <=> ~(e.type = "action_reconciled" /\ e.res = "success")
<1>1. SettlingTypes \cup {"action_execution_confirmed"} \subseteq AttemptEvents
  BY EventTypes DEF SettlingTypes
<1>2. \E n : /\ n \in DOMAIN d /\ d[n] = e
             /\ \A k \in DOMAIN d : k = n \/ d[k] = p
  <2>1. CASE d = <<e>>
    <3>1. 1 \in DOMAIN d /\ d[1] = e /\ \A k \in DOMAIN d : k = 1
      BY <2>1
    <3> QED
      BY <3>1
  <2>2. CASE d = <<p, e>>
    <3>1. DOMAIN d = 1 .. 2 /\ d[1] = p /\ d[2] = e
      BY <2>2
    <3>2. 2 \in DOMAIN d /\ d[2] = e /\ \A k \in DOMAIN d : k = 2 \/ d[k] = p
      BY <3>1
    <3> QED
      BY <3>2
  <2> QED
    BY <2>1, <2>2
<1>3. PICK n : /\ n \in DOMAIN d /\ d[n] = e
               /\ \A k \in DOMAIN d : k = n \/ d[k] = p
  BY <1>2
<1>4. AttemptEventsOf(d) = {n}
  BY <1>1, <1>3 DEF AttemptEventsOf
<1>5. Settles(d, id)
  BY <1>3, <1>4 DEF Settles
<1>6. Charged(d) \subseteq {n}
  BY <1>1, <1>3, EventTypes DEF Charged
<1>7. n \in Charged(d) <=> e.type = "action_reconciled" /\ e.res = "success"
  BY <1>3 DEF Charged, SettlingTypes
<1> QED
  BY <1>5, <1>6, <1>7

LEMMA SettledByTwo ==
    ASSUME NEW id, NEW e, e.type = "action_checkpoint_committed", e.id = id,
           NEW f, f.type = "action_execution_confirmed", f.id = id,
           NEW o, o.type \notin AttemptEvents
    PROVE  /\ Settles(<<o, f, e>>, id)
           /\ Charged(<<o, f, e>>) = {} <=> f.res # "success"
<1> DEFINE d == <<o, f, e>>
<1>1. DOMAIN d = 1 .. 3 /\ d[1] = o /\ d[2] = f /\ d[3] = e
  OBVIOUS
<1>2. {e.type, f.type, "action_reconciled"} \subseteq AttemptEvents
  BY EventTypes
<1> HIDE DEF d
<1>3. AttemptEventsOf(d) = {2, 3}
  BY <1>1, <1>2 DEF AttemptEventsOf
<1>4. 2 < 3
  OBVIOUS
<1>5. Settles(d, id)
  BY <1>1, <1>3, <1>4 DEF Settles
<1>6. Charged(d) = {} <=> f.res # "success"
  BY <1>1, <1>2 DEF Charged
<1> QED
  BY <1>5, <1>6 DEF d

LEMMA SettlesAppended ==
    ASSUME NEW d \in Seq(EventRecord), NEW e, Plain(e)
    PROVE  /\ Charged(Append(d, e)) = Charged(d)
           /\ \A id : Settles(d, id) => Settles(Append(d, e), id)
<1> DEFINE de == Append(d, e)
<1>1. /\ AttemptEventsOf(de) = AttemptEventsOf(d)
      /\ \A k \in DOMAIN d : k \in DOMAIN de /\ de[k] = d[k]
      /\ \A k \in DOMAIN de : k \in DOMAIN d \/ de[k] = e
  BY PlainAppended
<1> HIDE DEF de
<1>2. Charged(de) = Charged(d)
  BY <1>1, EventTypes DEF Charged, Plain
<1>3. \A k \in AttemptEventsOf(d) : de[k] = d[k]
  BY <1>1 DEF AttemptEventsOf
<1>4. ASSUME NEW id, Settles(d, id)
      PROVE  Settles(de, id)
  <2>1. \A k \in AttemptEventsOf(de) : de[k].id = id
    BY <1>1, <1>3, <1>4 DEF Settles
  <2>2. CASE \E k : AttemptEventsOf(d) = {k} /\ d[k].type \in SettlingTypes
    BY <1>1, <1>3, <2>1, <2>2 DEF Settles
  <2>3. CASE \E k, l : /\ AttemptEventsOf(d) = {k, l} /\ k < l
                       /\ d[k].type = "action_execution_confirmed"
                       /\ d[l].type = "action_checkpoint_committed"
    BY <1>1, <1>3, <2>1, <2>3 DEF Settles
  <2> QED
    BY <1>4, <2>2, <2>3 DEF Settles
<1> QED
  BY <1>2, <1>4 DEF de

(* With an event appended that is about no attempt. *)
LEMMA AppendedWrites ==
    ASSUME NEW j, NEW id, NEW d \in Seq(EventRecord), NEW e, Plain(e),
           MovesAttempt(j, d, id), Backed(d)
    PROVE  LET de == Append(d, e)
           IN  /\ MovesAttempt(j, de, id) /\ Closings(de) = Closings(d)
               /\ Writes(j, de) /\ Backed(de)
<1> DEFINE de == Append(d, e)
<1>1. /\ AttemptEventsOf(de) = AttemptEventsOf(d) /\ Prepared(de) = Prepared(d)
      /\ Starts(de) = Starts(d) /\ Closings(de) = Closings(d)
      /\ Voidings(de) = Voidings(d)
      /\ \A k \in DOMAIN d : de[k] = d[k]
      /\ \A k \in DOMAIN de : k \in DOMAIN d \/ de[k] = e
  BY PlainAppended
<1> HIDE DEF de
<1>2. MovesAttempt(j, de, id)
  BY <1>1 DEF MovesAttempt, Concerning, AttemptEventsOf
<1>3. Backed(de)
  BY <1>1, EventTypes DEF Backed, Plain
<1>4. Writes(j, de)
  BY <1>2 DEF Writes
<1> QED
  BY <1>1, <1>2, <1>3, <1>4 DEF de

--------------------------------------------------------------------------------
(* Opening a session. *)

LEMMA OpeningInLedger ==
    ASSUME LedgerInv, NEW r \in Runners
    PROVE  /\ UnresolvedAttempt(store.journal) # NoId =>
                  SessionInLedger(store, AtGate(r)) /\ AtGate(r).pc # "executed"
           /\ SessionInLedger(store, WithAdapter(r)) /\ WithAdapter(r).pc # "executed"
           /\ UnresolvedAttempt(store.journal) = NoId => Unburdened(store, store.task)
<1>1. /\ store.journal \in Seq(EventRecord) /\ AttemptsInOrder(store.journal)
      /\ Newest(store, store.task) /\ Unburdened(store, NewTask)
  BY LedgerFacts, NewTaskUnburdened
<1>2. store.task.sequence <= Len(store.journal)
  BY <1>1, LenProperties DEF Newest
<1>3. /\ AtGate(r).pc = "gate" /\ AtGate(r).rec = store.task /\ AtGate(r).outer = NewTask
      /\ AtGate(r).att = UnresolvedAttempt(store.journal)
  BY DEF AtGate, Idle
<1>4. /\ WithAdapter(r).pc = "opened" /\ WithAdapter(r).rec = NewTask
      /\ WithAdapter(r).outer = NewTask /\ WithAdapter(r).att = NoId
  BY DEF WithAdapter, Idle
<1>5. SessionInLedger(store, WithAdapter(r))
  BY <1>1, <1>4, FreeInLedger
<1>6. UnresolvedAttempt(store.journal) = NoId => Unburdened(store, store.task)
  BY <1>1, <1>2, UnresolvedIsOpen DEF Unburdened
<1>7. UnresolvedAttempt(store.journal) # NoId => SessionInLedger(store, AtGate(r))
  BY <1>1, <1>2, <1>3 DEF SessionInLedger, Acting, Unburdened
<1> QED
  BY <1>3, <1>4, <1>5, <1>6, <1>7

LEMMA OpeningLedger ==
    ASSUME LedgerInv, AtMostOnceInv', NEW r \in Runners, Resume(r) \/ Reopen(r) \/ Enter(r)
    PROVE  LedgerInv' /\ LedgerStep
<1> DEFINE unresolved == UnresolvedAttempt(store.journal)
           pc   == IF store.task.status # "running" THEN "start"
                   ELSE IF External THEN "refresh" ELSE "loop"
           observed == LatestObservation(store.journal)
           open == [proc[r] EXCEPT !.pc = pc, !.rec = store.task, !.obs = observed,
                                   !.outer = store.task, !.outerObs = observed]
<1>1. UNCHANGED <<store, command, effects>>
  BY DEF Resume, Reopen, Enter
<1>2. SessionInLedger(store, Idle) /\ Idle.pc # "executed"
  BY LedgerFacts
<1>3. CASE proc' = [proc EXCEPT ![r] = Idle]
  BY <1>1, <1>2, <1>3, SessionStepLedger
<1>4. CASE unresolved # NoId /\ proc' = [proc EXCEPT ![r] = AtGate(r)]
  BY <1>1, <1>4, OpeningInLedger, SessionStepLedger
<1>5. CASE proc' = [proc EXCEPT ![r] = WithAdapter(r)]
  BY <1>1, <1>5, OpeningInLedger, SessionStepLedger
<1>6. ASSUME proc[r].pc = "opened", unresolved = NoId, proc' = [proc EXCEPT ![r] = open]
      PROVE  LedgerInv' /\ LedgerStep
  <2>1. proc[r] \in SessionType /\ proc[r].att = NoId
    BY <1>6, LedgerFacts DEF SessionInLedger
  <2>2. pc \in {"start", "refresh", "loop"}
    OBVIOUS
  <2> HIDE DEF pc, observed
  <2>3. /\ open.pc = pc /\ open.rec = store.task /\ open.outer = store.task
        /\ open.att = NoId
    BY <2>1 DEF SessionType
  <2> HIDE DEF open
  <2>4. SessionInLedger(store, open) /\ open.pc # "executed"
    BY <1>6, <2>2, <2>3, OpeningInLedger, FreeInLedger
  <2> QED
    BY <1>1, <1>6, <2>4, SessionStepLedger
<1>7. CASE Resume(r)
  BY <1>4, <1>5, <1>7 DEF Resume
<1>8. CASE Reopen(r)
  BY <1>3, <1>5, <1>8 DEF Reopen
<1>9. CASE Enter(r)
  BY <1>3, <1>4, <1>6, <1>9 DEF Enter
<1> QED
  BY <1>7, <1>8, <1>9

(* What the gate writes is about the attempt it found unresolved, and of   *)
(* the task it changes nothing.                                            *)
GateCommit(r, c, done) ==
    /\ proc[r].pc = "gate" /\ Submit(r, c, done, Idle) /\ UNCHANGED <<command, effects>>
    /\ CommitOK(c) /\ Numbered(c, proc[r].rec)
    /\ c.task.status = proc[r].rec.status /\ SameMeans(c.task, proc[r].rec)
    /\ c.create = {} /\ c.update = {} /\ c.snap = NoVal
    /\ done.pc \in {"idle", "gated"} /\ done.rec = NewTask /\ done.outer = NewTask
    /\ done.att = NoId
    /\ Newest(store, proc[r].rec) =>
           /\ Writes(store.journal, c.drafts) /\ Backed(c.drafts)
           /\ ClosedIn(c.drafts) \cap StartedIn(store.journal) = {}
    /\ Ends(c, proc[r].rec)
    /\ \E e : /\ c.drafts = <<e>> /\ e.id = proc[r].att /\ e.res # "success"
              /\ e.type \in {"action_reconciled", "action_reconciliation_required"}
              /\ Newest(store, proc[r].rec) =>
                     LET status == AttemptStatus(store.journal, e.id)
                     IN  \/ e.type = "action_reconciled" /\ status = "prepared"
                         \/ /\ e.type = "action_reconciliation_required"
                            /\ status \notin {"prepared", "reconciliation_required"}

LEMMA OneClosed ==
    ASSUME NEW e
    PROVE  /\ ClosedIn(<<e>>) \subseteq {e.id}
           /\ e.type \notin ClosingTypes => ClosedIn(<<e>>) = {}
<1> DEFINE d == <<e>>
<1>1. \A k \in DOMAIN d : d[k] = e
  OBVIOUS
<1>2. Closings(d) = {k \in DOMAIN d : d[k].type \in ClosingTypes}
  BY ClosingsByType
<1> HIDE DEF d
<1>3. ClosedIn(d) \subseteq {e.id} /\ (e.type \notin ClosingTypes => ClosedIn(d) = {})
  BY <1>1, <1>2 DEF ClosedIn, AttemptsAt
<1> QED
  BY <1>3 DEF d

LEMMA GateCommits ==
    ASSUME LedgerInv, NEW r \in Runners, Gate(r)
    PROVE  \/ proc' = [proc EXCEPT ![r] = Idle] /\ UNCHANGED <<store, command, effects>>
           \/ \E c, done : GateCommit(r, c, done)
<1> DEFINE rec    == proc[r].rec
           id     == proc[r].att
           status == StatusBefore(store.journal, rec.sequence + 1, id)
           voided == [AttemptEvent("action_reconciled", id) EXCEPT !.res = "never_started"]
           asks   == AttemptEvent("action_reconciliation_required", id)
           event  == IF NeverStarted(status) THEN voided ELSE asks
           c      == IterationCommit(rec, rec, <<event>>)
           passed == [Idle EXCEPT !.pc = "gated", !.sim = proc[r].sim]
<1>1. /\ proc[r].pc = "gate" /\ rec \in TaskRecord /\ id \in Nat
      /\ store.journal \in Seq(EventRecord) /\ AttemptsInOrder(store.journal)
      /\ UNCHANGED <<command, effects>>
  BY LedgerFacts DEF Gate
<1>3. \/ proc' = [proc EXCEPT ![r] = Idle] /\ UNCHANGED store
      \/ Submit(r, c, Idle, Idle) /\ status # "reconciliation_required"
      \/ Submit(r, c, passed, Idle) /\ status # "reconciliation_required"
  BY DEF Gate
<1>4. /\ passed.pc = "gated" /\ passed.rec = NewTask /\ passed.outer = NewTask
      /\ passed.att = NoId
      /\ Idle.pc = "idle" /\ Idle.rec = NewTask /\ Idle.outer = NewTask /\ Idle.att = NoId
  BY DEF Idle
<1>5. /\ voided.type = "action_reconciled" /\ voided.id = id /\ voided.res = "never_started"
      /\ asks.type = "action_reconciliation_required" /\ asks.id = id /\ asks.res = "none"
      /\ Draft(voided) /\ Draft(asks)
  <2>1. {"action_reconciled", "action_reconciliation_required"}
            \subseteq AttemptEvents \ {"action_prepared"}
    BY EventTypes
  <2>2. Draft(voided) /\ Draft(asks)
    BY <1>1, <2>1, AttemptDraft
  <2> QED
    BY <2>2 DEF AttemptEvent, Event
<1> HIDE DEF voided, asks, passed
<1>6. Numbered(c, rec) /\ Carries(c, rec, <<event>>, NoVal) /\ Ends(c, rec)
  <2>1. DraftsOK(<<event>>) /\ <<event>> # <<>>
    BY <1>5, DraftSequences
  <2> HIDE DEF event, rec
  <2> QED
    BY <1>1, <2>1, IterationNumbered
<1>7. ASSUME Newest(store, rec)
      PROVE  /\ Writes(store.journal, <<event>>) /\ Backed(<<event>>)
             /\ ClosedIn(<<event>>) \cap StartedIn(store.journal) = {}
  <2>1. id \in Prepared(store.journal) \ ClosedIn(store.journal)
    BY <1>1, <1>7, LedgerFacts, UnresolvedIsOpen DEF SessionInLedger
  <2>2. status = AttemptStatus(store.journal, id)
    BY <1>7 DEF Newest, AttemptStatus
  <2>3. CASE NeverStarted(status)
    <3>1. id \notin StartedIn(store.journal)
      BY <1>1, <2>1, <2>2, <2>3, OnlyPrepared DEF NeverStarted
    <3>2. voided.type \in ClosingTypes /\ event = voided
      BY <1>5, <2>3 DEF ClosingTypes
    <3>3. Event("note").type \notin AttemptEvents
      BY PlainEvents DEF Plain
    <3> DEFINE f == AttemptEvent("action_execution_confirmed", id)
    <3>4. f.type = "action_execution_confirmed" /\ f.id = id /\ f.res = "none"
      BY DEF AttemptEvent, Event
    <3> HIDE DEF event, f
    <3>5. \A d : d = <<voided>> => Writes(store.journal, d) /\ Backed(d)
      BY <1>5, <2>1, <3>1, <3>2, <3>3, <3>4, ResolvingWrites
    <3>6. ClosedIn(<<voided>>) \subseteq {id}
      BY <1>5, OneClosed
    <3> QED
      BY <3>1, <3>2, <3>5, <3>6
  <2>4. CASE ~NeverStarted(status)
    <3>1. /\ asks.type \in AttemptEvents \ (ClosingTypes \cup {"action_prepared"})
          /\ event = asks
      BY <1>5, <2>4, EventTypes DEF ClosingTypes
    <3> HIDE DEF event
    <3>2. ClosedIn(<<asks>>) = {}
      BY <3>1, OneClosed
    <3> QED
      BY <1>5, <2>1, <3>1, <3>2, OpenWrites
  <2> QED
    BY <2>3, <2>4
<1>7a. ASSUME status # "reconciliation_required"
       PROVE  /\ event.id = id /\ event.res # "success"
              /\ event.type \in {"action_reconciled", "action_reconciliation_required"}
              /\ Newest(store, rec) =>
                     \/ /\ event.type = "action_reconciled"
                        /\ AttemptStatus(store.journal, event.id) = "prepared"
                     \/ /\ event.type = "action_reconciliation_required"
                        /\ AttemptStatus(store.journal, event.id)
                               \notin {"prepared", "reconciliation_required"}
  <2>1. Newest(store, rec) => status = AttemptStatus(store.journal, id)
    BY DEF Newest, AttemptStatus
  <2> HIDE DEF status, id
  <2> QED
    BY <1>5, <1>7a, <2>1 DEF NeverStarted
<1> HIDE DEF c, event, status
<1>8. ASSUME NEW done \in {Idle, passed}, Submit(r, c, done, Idle),
             status # "reconciliation_required"
      PROVE  GateCommit(r, c, done)
  <2>1. c.drafts = <<event>>
    BY <1>6 DEF Carries
  <2> QED
    BY <1>1, <1>4, <1>6, <1>7, <1>7a, <1>8, <2>1 DEF GateCommit, Carries
<1> QED
  BY <1>1, <1>3, <1>8

LEMMA GateLedger ==
    ASSUME LedgerInv, AtMostOnceInv', NEW r \in Runners, Gate(r)
    PROVE  LedgerInv' /\ LedgerStep
<1>1. /\ SessionInLedger(store, Idle) /\ Idle \in SessionType /\ Idle.pc = "idle"
      /\ store.journal \in Seq(EventRecord)
  BY LedgerFacts
<1>2. ASSUME NEW c, NEW done, GateCommit(r, c, done)
      PROVE  LedgerInv' /\ LedgerStep
  <2>1. /\ Submit(r, c, done, Idle) /\ UNCHANGED <<command, effects>>
        /\ Numbered(c, proc[r].rec)
        /\ done.pc \in {"idle", "gated"} /\ done.rec = NewTask /\ done.outer = NewTask
        /\ done.att = NoId
        /\ Newest(store, proc[r].rec) => Writes(store.journal, c.drafts) /\ Backed(c.drafts)
    BY <1>2 DEF GateCommit
  <2>2. ASSUME Stored(store, c).journal = store.journal \o c.drafts,
               AttemptsInOrder(Stored(store, c).journal)
        PROVE  SessionInLedger(Stored(store, c), done)
    <3>1. Stored(store, c).journal \in Seq(EventRecord)
      <4>1. c.drafts \in Seq(EventRecord)
        BY <2>1 DEF Numbered, CommitType
      <4> QED
        BY <1>1, <2>2, <4>1, JoinedAt
    <3> QED
      BY <2>1, <2>2, <3>1, NewTaskUnburdened, FreeInLedger
  <2> QED
    BY <1>1, <2>1, <2>2, SubmitLedger
<1> QED
  BY <1>1, <1>2, GateCommits, SessionStepLedger

LEMMA OpenedFields ==
    ASSUME NEW r \in Runners, proc[r] \in SessionType, NEW pc, NEW task, NEW observation
    PROVE  LET p == Opened(r, pc, task, observation)
           IN  /\ p.pc = pc /\ p.rec = task /\ p.outer = task /\ p.att = proc[r].att
               /\ p.obs = observation /\ p.sim = proc[r].sim
  BY DEF Opened, SessionType

LEMMA StartedDrafts ==
    /\ DraftsOK(<<Event("task_started")>>)
    /\ AttemptEventsOf(<<Event("task_started")>>) = {}
    /\ \A s \in States :
           LET drafts == <<Event("task_started"), ObservationEvent(s)>>
           IN  DraftsOK(drafts) /\ AttemptEventsOf(drafts) = {}
<1>1. Draft(Event("task_started")) /\ Plain(Event("task_started"))
  BY EventDraft, PlainEvents DEF EventType, NoId
<1>2. \A s \in States : Draft(ObservationEvent(s)) /\ Plain(ObservationEvent(s))
  BY ObservationDraft, PlainEvents
<1> QED
  BY <1>1, <1>2, DraftSequences, PlainDrafts

(* What a session that starts or refreshes knows. *)
LEMMA StartLedgerFacts ==
    ASSUME LedgerInv, NEW r \in Runners, proc[r].pc \in {"start", "refresh"}
    PROVE  /\ proc[r].att = NoId /\ (Newest(store, proc[r].rec) => AllClosed(store.journal))
           /\ Unburdened(store, proc[r].rec)
<1>1. SessionInLedger(store, proc[r])
  BY LedgerFacts
<1> QED
  BY <1>1 DEF SessionInLedger, Unburdened

(* A terminal event about no attempt. *)
LEMMA TerminalQuiet ==
    ASSUME NEW current \in TaskRecord, NEW task \in TaskRecord, NEW status \in Terminal,
           NEW drafts, DraftsOK(drafts), AttemptEventsOf(drafts) = {},
           NEW s \in States \cup {NoVal}
    PROVE  LET c == TerminalCommit(current, task, status, drafts, s)
           IN  /\ Numbered(c, current) /\ AttemptEventsOf(c.drafts) = {}
               /\ Observed(drafts) = {} => \A before : ShowsLast(c.drafts, before, before)
<1> DEFINE c == TerminalCommit(current, task, status, drafts, s)
           e == Event(TerminalEvent[status])
<1>1. Numbered(c, current) /\ Carries(c, [task EXCEPT !.status = status], Append(drafts, e), s)
  BY TerminalNumbered
<1>2. Plain(e) /\ drafts \in Seq(EventRecord) /\ e.type # "observation_recorded"
  BY PlainEvents DEF DraftsOK
<1> HIDE DEF c, e
<1>3. AttemptEventsOf(Append(drafts, e)) = {} /\ Observed(Append(drafts, e)) = Observed(drafts)
  BY <1>2, PlainAppended
<1>4. c.drafts = Append(drafts, e)
  BY <1>1 DEF Carries
<1> QED
  BY <1>1, <1>3, <1>4 DEF c, ShowsLast

LEMMA StartedObserved ==
    /\ Observed(<<Event("task_started")>>) = {}
    /\ \A s \in States :
           LET drafts == <<Event("task_started"), ObservationEvent(s)>>
           IN  Observed(drafts) # {} /\ ShowsLast(drafts, NoVal, s)
    /\ \A s \in States : Observed(<<ObservationEvent(s)>>) # {}
<1>1. /\ Event("task_started").type = "task_started"
      /\ \A s : ObservationEvent(s).type = "observation_recorded" /\ ObservationEvent(s).state = s
  BY DEF Event, ObservationEvent
<1>2. Observed(<<Event("task_started")>>) = {}
  BY <1>1 DEF Observed
<1>3. ASSUME NEW e, NEW o, e.type = "task_started", o.type = "observation_recorded"
      PROVE  2 \in Observed(<<e, o>>) /\ \A k \in Observed(<<e, o>>) : <<e, o>>[k] = o
  BY <1>3 DEF Observed
<1>4. ASSUME NEW o, o.type = "observation_recorded"
      PROVE  1 \in Observed(<<o>>)
  BY <1>4 DEF Observed
<1> QED
  BY <1>1, <1>2, <1>3, <1>4 DEF ShowsLast

(* The transactions of a session that starts or refreshes.  Its loop sees   *)
(* what the commit records, or what the session resumed with.               *)
Sees(r, c, done) ==
    \/ /\ proc[r].pc = "start" /\ proc[r].rec.status = "waiting"
       /\ Observed(c.drafts) = {} /\ done.obs = proc[r].obs /\ done.sim = proc[r].sim
    \/ /\ Observed(c.drafts) # {} /\ ShowsLast(c.drafts, NoVal, done.obs)
       /\ done.obs \in States /\ (External \/ done.sim = done.obs)

StartCommit(r, c, done, failed) ==
    /\ proc[r].pc \in {"start", "refresh"}
    /\ Submit(r, c, done, failed) /\ UNCHANGED <<command, effects>>
    /\ failed = Abandoned(r) \/ \E s \in States : failed = Closing(r, proc[r].rec, s)
    /\ CommitOK(c) /\ Numbered(c, proc[r].rec) /\ AttemptEventsOf(c.drafts) = {}
    /\ SameMeans(c.task, proc[r].rec) /\ c.create = {} /\ c.update = {}
    /\ done.outer = c.task
    /\ \/ /\ c.task.status = "failed" /\ done.pc = "closing"
          /\ done.rec = NewTask /\ done.att = NoId
       \/ /\ c.task.status = IF proc[r].pc = "start" THEN "running" ELSE proc[r].rec.status
          /\ done.pc \in {"loop", "refresh"} /\ done.rec = c.task /\ done.att = proc[r].att
    /\ done.pc = "loop" => Sees(r, c, done)
    /\ done.pc = "refresh" => External /\ proc[r].rec.status = "waiting"
    /\ Ends(c, proc[r].rec) /\ \A before : Saves(c, before)

LEMMA StartPendingCommit ==
    ASSUME TypeInv, NEW r \in Runners, StartPending(r)
    PROVE  \E c, done, failed : StartCommit(r, c, done, failed)
<1> DEFINE observed == Current(r)
           rec      == proc[r].rec
           running  == [rec EXCEPT !.status = "running"]
           drafts   == <<Event("task_started"), ObservationEvent(observed)>>
           b        == IterationCommit(rec, running, drafts)
           c        == WithSnapshot(b, Snapshot(r, observed))
           done     == Opened(r, "loop", c.task, observed)
           failed   == Closing(r, rec, observed)
<1>1. /\ proc[r].pc = "start" /\ UNCHANGED <<command, effects>>
      /\ Submit(r, c, done, failed)
  BY DEF StartPending
<1>2. /\ proc[r] \in SessionType /\ rec \in TaskRecord /\ observed \in States
      /\ Snapshot(r, observed) \in States \cup {NoVal}
      /\ External \/ proc[r].sim = observed
      /\ Snapshot(r, observed) = observed /\ observed # NoVal
  <2>1. /\ proc[r] \in SessionType /\ rec \in TaskRecord /\ observed \in States
        /\ Snapshot(r, observed) \in States \cup {NoVal}
    BY <1>1, CurrentInStates, SnapshotType DEF Simulating, TypeInv, SessionType, Current
  <2> QED
    BY <2>1, NoValAssumption DEF Snapshot, Current
<1>3. /\ running \in TaskRecord /\ running.status = "running" /\ SameMeans(running, rec)
      /\ running.cancelRequested = rec.cancelRequested
  BY <1>2 DEF TaskRecord, Statuses, Transitions, SameMeans
<1>4. /\ DraftsOK(drafts) /\ drafts # <<>> /\ AttemptEventsOf(drafts) = {}
      /\ Observed(drafts) # {} /\ ShowsLast(drafts, NoVal, observed)
  BY <1>2, StartedDrafts, StartedObserved
<1>5. /\ Numbered(c, rec) /\ Carries(c, running, drafts, Snapshot(r, observed)) /\ Ends(c, rec)
  <2> HIDE DEF rec, running, drafts
  <2>1. Numbered(b, rec) /\ Carries(b, running, drafts, NoVal) /\ Ends(b, rec)
    BY <1>2, <1>3, <1>4, TerminalWords, IterationNumbered
  <2> HIDE DEF b
  <2> QED
    BY <1>2, <2>1, SnapshotNumbered
<1>6. /\ done.rec = c.task /\ done.outer = c.task /\ done.att = proc[r].att /\ done.pc = "loop"
      /\ done.obs = observed /\ done.sim = proc[r].sim
  <2> HIDE DEF c, observed
  <2> QED
    BY <1>2, OpenedFields
<1>7. \E s \in States : failed = Closing(r, proc[r].rec, s)
  BY <1>2
<1> HIDE DEF c, done, failed, drafts, running, observed
<1>8. \A before : Saves(c, before)
  BY <1>2, <1>4, <1>5 DEF Saves, Carries, ShowsLast
<1>9. StartCommit(r, c, done, failed)
  BY <1>1, <1>2, <1>3, <1>4, <1>5, <1>6, <1>7, <1>8 DEF StartCommit, Sees, Carries, SameMeans
<1> QED
  BY <1>9

LEMMA StartWaitingCommit ==
    ASSUME TypeInv, NEW r \in Runners, StartWaiting(r)
    PROVE  \E c, done, failed : StartCommit(r, c, done, failed)
<1> DEFINE rec     == proc[r].rec
           running == [rec EXCEPT !.status = "running"]
           drafts  == <<Event("task_started")>>
           c       == IterationCommit(rec, running, drafts)
           pc      == IF External THEN "refresh" ELSE "loop"
           done    == Opened(r, pc, c.task, proc[r].obs)
<1>1. /\ proc[r].pc = "start" /\ rec.status = "waiting" /\ UNCHANGED <<command, effects>>
      /\ Submit(r, c, done, Abandoned(r))
  BY DEF StartWaiting
<1>2. proc[r] \in SessionType /\ rec \in TaskRecord
  BY DEF TypeInv, SessionType
<1>3. /\ running \in TaskRecord /\ running.status = "running" /\ SameMeans(running, rec)
      /\ running.cancelRequested = rec.cancelRequested
  BY <1>2 DEF TaskRecord, Statuses, Transitions, SameMeans
<1>4. /\ DraftsOK(drafts) /\ drafts # <<>> /\ AttemptEventsOf(drafts) = {}
      /\ Observed(drafts) = {}
  BY StartedDrafts, StartedObserved
<1>5. Numbered(c, rec) /\ Carries(c, running, drafts, NoVal) /\ Ends(c, rec)
  <2> HIDE DEF rec, running, drafts
  <2> QED
    BY <1>2, <1>3, <1>4, TerminalWords, IterationNumbered
<1>6. pc \in {"loop", "refresh"} /\ (pc = "refresh" => External)
  OBVIOUS
<1> HIDE DEF pc
<1>7. /\ done.rec = c.task /\ done.outer = c.task /\ done.att = proc[r].att /\ done.pc = pc
      /\ done.obs = proc[r].obs /\ done.sim = proc[r].sim
  <2> HIDE DEF c
  <2> QED
    BY <1>2, OpenedFields
<1> HIDE DEF c, done, drafts, running
<1>8. \A before : Saves(c, before)
  BY <1>4, <1>5 DEF Saves, Carries, ShowsLast
<1>9. StartCommit(r, c, done, Abandoned(r))
  BY <1>1, <1>2, <1>3, <1>4, <1>5, <1>6, <1>7, <1>8 DEF StartCommit, Sees, Carries, SameMeans
<1> QED
  BY <1>9

LEMMA RefreshCommit ==
    ASSUME TypeInv, NEW r \in Runners, Refresh(r)
    PROVE  \E c, done, failed : StartCommit(r, c, done, failed)
<1> DEFINE rec    == proc[r].rec
           drafts == <<ObservationEvent(world)>>
           b      == IterationCommit(rec, rec, drafts)
           c      == WithSnapshot(b, Snapshot(r, world))
           done   == Opened(r, "loop", c.task, world)
           failed == Closing(r, rec, world)
<1>1. /\ proc[r].pc = "refresh" /\ UNCHANGED <<command, effects>>
      /\ Submit(r, c, done, failed)
  BY DEF Refresh
<1>2. /\ proc[r] \in SessionType /\ rec \in TaskRecord /\ world \in States /\ External
      /\ Snapshot(r, world) \in States \cup {NoVal}
      /\ Snapshot(r, world) = world /\ world # NoVal
  <2>1. /\ proc[r] \in SessionType /\ rec \in TaskRecord /\ world \in States /\ External
        /\ Snapshot(r, world) \in States \cup {NoVal}
    BY <1>1, SnapshotType DEF TypeInv, SessionType, SessionOK
  <2> QED
    BY <2>1, NoValAssumption DEF Snapshot
<1>3. /\ DraftsOK(drafts) /\ drafts # <<>> /\ AttemptEventsOf(drafts) = {}
      /\ Observed(drafts) # {} /\ ShowsLast(drafts, NoVal, world)
  BY <1>2, ObservationFacts, StartedObserved
<1>4. Numbered(c, rec) /\ Carries(c, rec, drafts, Snapshot(r, world)) /\ Ends(c, rec)
  <2> HIDE DEF rec, drafts
  <2>1. Numbered(b, rec) /\ Carries(b, rec, drafts, NoVal) /\ Ends(b, rec)
    BY <1>2, <1>3, IterationNumbered
  <2> HIDE DEF b
  <2> QED
    BY <1>2, <2>1, SnapshotNumbered
<1>5. /\ done.rec = c.task /\ done.outer = c.task /\ done.att = proc[r].att /\ done.pc = "loop"
      /\ done.obs = world
  <2> HIDE DEF c
  <2> QED
    BY <1>2, OpenedFields
<1>6. \E s \in States : failed = Closing(r, proc[r].rec, s)
  BY <1>2
<1> HIDE DEF c, done, failed, drafts
<1>7. \A before : Saves(c, before)
  BY <1>2, <1>3, <1>4 DEF Saves, Carries, ShowsLast
<1>8. StartCommit(r, c, done, failed)
  BY <1>1, <1>2, <1>3, <1>4, <1>5, <1>6, <1>7 DEF StartCommit, Sees, Carries, SameMeans
<1> QED
  BY <1>8

LEMMA InitializationFailureCommit ==
    ASSUME TypeInv, NEW r \in Runners, InitializationFailure(r)
    PROVE  \E c, done, failed : StartCommit(r, c, done, failed)
<1> DEFINE rec    == proc[r].rec
           prefix == IF rec.status = "pending" THEN <<Event("task_started")>> ELSE <<>>
           ended  == [rec EXCEPT !.status = "failed"]
           all    == Append(prefix, Event(TerminalEvent["failed"]))
           c      == TerminalCommit(rec, rec, "failed", prefix, NoVal)
           done   == Closing(r, c.task, proc[r].outerObs)
<1>1. /\ proc[r].pc \in {"start", "refresh"} /\ UNCHANGED <<command, effects>>
      /\ Submit(r, c, done, Abandoned(r))
  BY DEF InitializationFailure
<1>2. rec \in TaskRecord
  BY DEF TypeInv, SessionType
<1>3. DraftsOK(prefix) /\ AttemptEventsOf(prefix) = {} /\ Observed(prefix) = {}
  BY StartedDrafts, StartedObserved, NoteFacts, PlainDrafts
<1> HIDE DEF prefix, rec
<1>4. /\ Numbered(c, rec) /\ AttemptEventsOf(c.drafts) = {} /\ Carries(c, ended, all, NoVal)
      /\ ended.status = "failed" /\ SameMeans(ended, rec) /\ Ends(c, rec)
      /\ \A before : ShowsLast(c.drafts, before, before)
  BY <1>2, <1>3, TerminalWords, TerminalNumbered, TerminalQuiet
<1> HIDE DEF c, ended, all
<1>5. done.pc = "closing" /\ done.rec = NewTask /\ done.outer = c.task /\ done.att = NoId
  BY ClosingFields
<1> HIDE DEF done
<1>6. StartCommit(r, c, done, Abandoned(r))
  BY <1>1, <1>4, <1>5 DEF StartCommit, Carries, SameMeans, Saves, rec
<1> QED
  BY <1>6

LEMMA StartLedger ==
    ASSUME LedgerInv, AtMostOnceInv', NEW r \in Runners, NEW c, NEW done, NEW failed,
           StartCommit(r, c, done, failed)
    PROVE  LedgerInv' /\ LedgerStep
<1>1. /\ proc[r].pc \in {"start", "refresh"} /\ Submit(r, c, done, failed)
      /\ Numbered(c, proc[r].rec) /\ AttemptEventsOf(c.drafts) = {}
      /\ done.outer = c.task /\ done.rec \in {c.task, NewTask} /\ done.att \in {NoId, proc[r].att}
      /\ done.pc \in {"loop", "refresh", "closing"} /\ UNCHANGED <<command, effects>>
      /\ failed = Abandoned(r) \/ \E s \in States : failed = Closing(r, proc[r].rec, s)
  BY DEF StartCommit
<1>2. failed \in SessionType /\ SessionInLedger(store, failed) /\ failed.pc = "closing"
  <2>1. ASSUME NEW s \in States
        PROVE  LET p == Closing(r, proc[r].rec, s)
               IN  p \in SessionType /\ SessionInLedger(store, p) /\ p.pc = "closing"
    BY <1>1, LedgerFacts, StartLedgerFacts, ClosingOK, ClosingInLedger, ClosingFields DEF SessionOK
  <2> QED
    BY <1>1, <2>1, LedgerFacts
<1> QED
  BY <1>1, <1>2, LedgerFacts, StartLedgerFacts, QuietSubmitLedger

(* A shutdown that raises fails the task by the record run_runtime has; the *)
(* checkpoint of a simulation in memory is its state.                      *)
ShutdownCommit(r, c) ==
    LET rec == proc[r].outer
    IN  /\ proc[r].pc = "closing" /\ rec.status = "running" /\ Submit(r, c, Idle, Idle)
        /\ UNCHANGED <<command, effects>>
        /\ CommitOK(c) /\ Numbered(c, rec) /\ AttemptEventsOf(c.drafts) = {}
        /\ c.task.status = "failed" /\ SameMeans(c.task, rec)
        /\ c.create = {} /\ c.update = {}
        /\ "shutdown" \in Environment /\ Ends(c, rec)
        /\ External \/ Saves(c, proc[r].sim)

LEMMA ShutdownCommits ==
    ASSUME TypeInv, NEW r \in Runners, Shutdown(r)
    PROVE  \/ proc' = [proc EXCEPT ![r] = Idle] /\ UNCHANGED <<store, command, effects>>
           \/ \E c : ShutdownCommit(r, c)
<1> DEFINE rec   == proc[r].outer
           s     == Snapshot(r, proc[r].outerObs)
           c     == TerminalCommit(rec, rec, "failed", <<>>, s)
           ended == [rec EXCEPT !.status = "failed"]
           all   == Append(<<>>, Event(TerminalEvent["failed"]))
<1>1. proc[r] \in SessionType /\ UNCHANGED <<command, effects>> /\ proc[r].pc = "closing"
  BY DEF TypeInv, Shutdown
<1>2. rec \in TaskRecord /\ proc[r].outerObs \in States \cup {NoVal}
  BY <1>1 DEF SessionType
<1>3. s \in States \cup {NoVal}
  BY <1>2, SnapshotType
<1>4. \/ proc' = [proc EXCEPT ![r] = Idle] /\ UNCHANGED store
      \/ /\ rec.status = "running" /\ Submit(r, c, Idle, Idle)
         /\ "shutdown" \in Environment
  BY DEF Shutdown
<1>5. CASE /\ rec.status = "running" /\ Submit(r, c, Idle, Idle)
           /\ "shutdown" \in Environment
  <2>0. External \/ s = proc[r].sim
    BY DEF Snapshot
  <2> HIDE DEF rec, s
  <2>1. /\ Numbered(c, rec) /\ Carries(c, ended, all, s) /\ ended.status = "failed"
        /\ SameMeans(ended, rec) /\ Ends(c, rec)
    BY <1>2, <1>3, NoteFacts, TerminalWords, TerminalNumbered
  <2>2. AttemptEventsOf(c.drafts) = {} /\ \A before : ShowsLast(c.drafts, before, before)
    BY <1>2, <1>3, NoteFacts, PlainDrafts, TerminalWords, TerminalQuiet
  <2> HIDE DEF c, ended, all
  <2>3. External \/ Saves(c, proc[r].sim)
    BY <2>0, <2>1, <2>2 DEF Carries, Saves
  <2>4. ShutdownCommit(r, c)
    BY <1>1, <1>5, <2>1, <2>2, <2>3 DEF ShutdownCommit, Carries, SameMeans, rec
  <2> QED
    BY <2>4
<1> QED
  BY <1>1, <1>4, <1>5

LEMMA ShutdownLedger ==
    ASSUME LedgerInv, AtMostOnceInv', NEW r \in Runners, Shutdown(r)
    PROVE  LedgerInv' /\ LedgerStep
<1>1. /\ TypeInv /\ proc[r].outer \in TaskRecord
      /\ Idle \in SessionType /\ SessionInLedger(store, Idle) /\ Idle.pc = "idle"
      /\ (Newest(store, proc[r].outer) => AllClosed(store.journal))
  BY LedgerFacts DEF Unburdened
<1>2. Idle.rec = NewTask /\ Idle.outer = NewTask /\ Idle.att = NoId
  BY DEF Idle
<1>3. ASSUME NEW c, ShutdownCommit(r, c)
      PROVE  LedgerInv' /\ LedgerStep
  BY <1>1, <1>2, <1>3, QuietSubmitLedger DEF ShutdownCommit
<1> QED
  BY <1>1, <1>2, <1>3, ShutdownCommits, SessionStepLedger

--------------------------------------------------------------------------------
(* The attempt. *)

LEMMA OpenedAttempt ==
    ASSUME NEW j \in Seq(EventRecord), AttemptsInOrder(j), AllClosed(j),
           NEW e \in EventRecord, e.type = "action_prepared", e.id = Len(j) + 1
    PROVE  LET jd == j \o <<e>>
               id == Len(j) + 1
           IN  /\ id \in Prepared(jd) /\ jd[id] = e
               /\ id \notin StartedIn(jd) \cup ClosedIn(jd)
<1> DEFINE d  == <<e>>
           id == Len(j) + 1
<1>1. d \in Seq(EventRecord) /\ DOMAIN d = {1} /\ d[1] = e
  OBVIOUS
<1>2. id \in Prepared(j \o d) /\ (j \o d)[id] = e
  BY OpenedInOrder
<1>3. StartedIn(j) \subseteq 1 .. Len(j) /\ ClosedIn(j) \subseteq 1 .. Len(j) /\ Len(j) \in Nat
  BY InOrder
<1> HIDE DEF d
<1>4. StartedIn(d) = {} /\ ClosedIn(d) = {}
  BY <1>1, ClosingsByType DEF StartedIn, ClosedIn, AttemptsAt, Starts, ClosingTypes
<1>5. id \notin StartedIn(j \o d) \cup ClosedIn(j \o d)
  BY <1>1, <1>3, <1>4, AttemptsJoined
<1> QED
  BY <1>2, <1>5 DEF d

LEMMA PrepareLedger ==
    ASSUME LedgerInv, AtMostOnceInv', NEW r \in Runners, Prepare(r)
    PROVE  LedgerInv' /\ LedgerStep
<1> DEFINE rec     == proc[r].rec
           id      == rec.sequence + 1
           e(a)    == [AttemptEvent("action_prepared", id) EXCEPT !.act = a]
           c(a)    == IterationCommit(rec, WithAction(r, a), <<e(a)>>)
           next(a) == [proc[r] EXCEPT !.pc = "prepared", !.rec = c(a).task, !.act = a,
                                      !.att = id, !.auth = rec.approvedId]
<1>1. PICK a \in Chosen(r) : MayExecute(r, a) /\ Submit(r, c(a), next(a), Abandoned(r))
  BY DEF Prepare
<1>2. Iterating(r) /\ UNCHANGED <<command, effects>> /\ InLoop(r)
  BY <1>1 DEF MayExecute, Undecided, Prepare, Iterating
<1>3. /\ TypeInv /\ proc[r] \in SessionType /\ rec \in TaskRecord /\ id \in Nat
      /\ a \in Acts /\ WithAction(r, a) \in TaskRecord
      /\ store \in StoreType /\ store.journal \in Seq(EventRecord)
      /\ AttemptsInOrder(store.journal)
  <2>1. TypeInv /\ rec \in TaskRecord /\ proc[r].obs \in States
    BY <1>2, LedgerFacts, IteratingFacts
  <2>2. a \in Acts
    BY <1>1, <2>1, ChosenType
  <2>3. WithAction(r, a) \in TaskRecord
    BY <2>1, <2>2, WithActionType
  <2>4. rec.sequence \in Nat
    <3> HIDE DEF rec
    <3> QED
      BY <2>1 DEF TaskRecord
  <2> QED
    BY <2>1, <2>2, <2>3, <2>4, LedgerFacts
<1>4. Draft(e(a)) /\ e(a).type = "action_prepared" /\ e(a).id = id /\ e(a).act = a
  <2>1. Draft(e(a))
    BY <1>3, PreparedDraft
  <2> QED
    BY <2>1 DEF AttemptEvent, Event
<1>5. Numbered(c(a), rec) /\ c(a).drafts = <<e(a)>>
  <2> DEFINE d == <<e(a)>>
  <2>1. DraftsOK(d) /\ d # <<>>
    BY <1>4, DraftSequences
  <2> HIDE DEF d, rec
  <2>2. Numbered(IterationCommit(rec, WithAction(r, a), d), rec)
        /\ Carries(IterationCommit(rec, WithAction(r, a), d), WithAction(r, a), d, NoVal)
    BY <1>3, <2>1, IterationNumbered
  <2> QED
    BY <2>2 DEF Carries, d, rec
<1>6. /\ next(a).pc = "prepared" /\ next(a).rec = c(a).task /\ next(a).act = a
      /\ next(a).att = id /\ next(a).outer = proc[r].outer
  <2> HIDE DEF c
  <2> QED
    BY <1>3 DEF SessionType
<1> HIDE DEF next, c
<1>7. ASSUME Newest(store, rec), Accepts(store, c(a)),
             Stored(store, c(a)).journal = store.journal \o c(a).drafts
      PROVE  /\ Writes(store.journal, c(a).drafts) /\ Backed(c(a).drafts)
             /\ SessionInLedger(Stored(store, c(a)), next(a))
  <2> DEFINE s2 == Stored(store, c(a))
  <2>1. id = Len(store.journal) + 1 /\ AllClosed(store.journal)
    BY <1>2, <1>7, LedgerFacts DEF Newest, InLoop, SessionInLedger
  <2>2. OpensAttempt(store.journal, <<e(a)>>)
    BY <2>1 DEF OpensAttempt
  <2>3. Backed(<<e(a)>>)
    <3> HIDE DEF e
    <3>1. \A k \in DOMAIN <<e(a)>> : <<e(a)>>[k] = e(a)
      OBVIOUS
    <3> QED
      BY <1>4, <3>1 DEF Backed
  <2> HIDE DEF e
  <2>4. /\ id \in Prepared(s2.journal) /\ s2.journal[id] = e(a)
        /\ id \notin StartedIn(s2.journal) \cup ClosedIn(s2.journal)
    BY <1>3, <1>4, <1>5, <1>7, <2>1, OpenedAttempt DEF Draft
  <2>5. /\ Len(store.journal) \in Nat /\ Len(c(a).drafts) \in Nat \ {0}
        /\ Len(s2.journal) = Len(store.journal) + Len(c(a).drafts)
        /\ Newest(s2, c(a).task)
    BY <1>3, <1>5, <1>7, NumberedStored
  <2>6. proc[r].outer.sequence \in Nat /\ proc[r].outer.sequence <= Len(store.journal)
    BY LedgerFacts DEF SessionInLedger, TaskRecord
  <2> DEFINE n == Len(store.journal)
             m == Len(s2.journal)
             l == Len(c(a).drafts)
  <2>7. n \in Nat /\ l \in Nat \ {0} /\ m = n + l /\ proc[r].outer.sequence <= n
        /\ c(a).task.sequence = m
    BY <2>5, <2>6 DEF Newest
  <2> HIDE DEF n, m, l
  <2>8. proc[r].outer.sequence <= m /\ proc[r].outer.sequence # m /\ c(a).task.sequence <= m
    BY <2>6, <2>7
  <2> HIDE DEF s2
  <2>9. SessionInLedger(s2, next(a))
    BY <1>4, <1>6, <2>4, <2>8 DEF SessionInLedger, Newest, m
  <2> QED
    BY <1>5, <2>2, <2>3, <2>9 DEF Writes, s2
<1> HIDE DEF rec
<1> QED
  BY <1>1, <1>2, <1>5, <1>6, <1>7, LedgerFacts, SubmitLedger

LEMMA StartExecutionLedger ==
    ASSUME LedgerInv, AtMostOnceInv', NEW r \in Runners, StartExecution(r)
    PROVE  LedgerInv' /\ LedgerStep
<1> DEFINE rec  == proc[r].rec
           att  == proc[r].att
           e    == AttemptEvent("action_execution_started", att)
           c    == IterationCommit(rec, rec, <<e>>)
           next == [proc[r] EXCEPT !.pc = "started", !.rec = c.task]
           j    == store.journal
<1>1. /\ proc[r].pc = "prepared" /\ UNCHANGED <<command, effects>>
      /\ Submit(r, c, next, Abandoned(r))
  BY DEF StartExecution
<1>2. /\ TypeInv /\ proc[r] \in SessionType /\ rec \in TaskRecord /\ att \in Nat
      /\ store \in StoreType /\ j \in Seq(EventRecord) /\ AttemptsInOrder(j)
      /\ SessionInLedger(store, proc[r])
  BY LedgerFacts
<1>3. Draft(e) /\ e.type = "action_execution_started" /\ e.id = att
  <2>1. Draft(e)
    BY <1>2, EventTypes, AttemptDraft
  <2> QED
    BY <2>1 DEF AttemptEvent, Event
<1> DEFINE d == <<e>>
<1>4. Numbered(c, rec) /\ c.drafts = d
  <2>1. DraftsOK(d) /\ d # <<>>
    BY <1>3, DraftSequences
  <2> HIDE DEF d, rec
  <2>2. Numbered(IterationCommit(rec, rec, d), rec)
        /\ Carries(IterationCommit(rec, rec, d), rec, d, NoVal)
    BY <1>2, <2>1, IterationNumbered
  <2> QED
    BY <2>2 DEF Carries, d, rec
<1>5. /\ next.pc = "started" /\ next.rec = c.task /\ next.act = proc[r].act
      /\ next.att = att /\ next.outer = proc[r].outer
  <2> HIDE DEF c
  <2> QED
    BY <1>2 DEF SessionType
<1> HIDE DEF next, c
<1>6. ASSUME Newest(store, rec), Accepts(store, c),
             Stored(store, c).journal = j \o c.drafts
      PROVE  /\ Writes(j, c.drafts) /\ Backed(c.drafts)
             /\ SessionInLedger(Stored(store, c), next)
  <2> DEFINE s2 == Stored(store, c)
  <2>1. /\ att \in Prepared(j) \ ClosedIn(j) /\ att \notin StartedIn(j)
        /\ j[att].act = proc[r].act /\ att \in 1 .. Len(j)
    BY <1>1, <1>2, <1>6, InOrder DEF SessionInLedger, Acting
  <2>2. e.type \in AttemptEvents \ (ClosingTypes \cup {"action_prepared"})
        /\ e.type # "action_execution_confirmed"
    BY <1>3, EventTypes DEF ClosingTypes
  <2>3. MovesAttempt(j, d, att) /\ Writes(j, d) /\ Backed(d)
    <3> HIDE DEF e, j
    <3> QED
      BY <1>3, <2>1, <2>2, OpenWrites
  <2>4. d \in Seq(EventRecord) /\ Len(d) = 1 /\ d[1] = e /\ DOMAIN d = {1}
    BY <1>3 DEF Draft
  <2> HIDE DEF d, e, j
  <2>5. Prepared(j \o d) = Prepared(j)
    BY <1>2, <2>3, <2>4, MovedInOrder DEF MovesAttempt
  <2>6. /\ Len(j) \in Nat /\ (j \o d)[att] = j[att] /\ Len(j \o d) = Len(j) + 1
        /\ (j \o d)[Len(j) + 1] = e
    <3>1. 1 \in 1 .. Len(d)
      BY <2>4
    <3> QED
      BY <1>2, <2>1, <2>4, <3>1, JoinedAt
  <2>7. StartedIn(d) = {att} /\ ClosedIn(d) = {}
    BY <1>3, <2>2, <2>4, ClosingsByType DEF StartedIn, ClosedIn, AttemptsAt, Starts
  <2>8. att \in StartedIn(j \o d) \ ClosedIn(j \o d)
    BY <1>2, <2>1, <2>4, <2>7, AttemptsJoined
  <2>9. /\ s2.journal = j \o d /\ Newest(s2, c.task)
    BY <1>2, <1>4, <1>6, NumberedStored DEF j
  <2>10. proc[r].outer.sequence \in Nat /\ proc[r].outer.sequence <= Len(j)
    BY <1>2 DEF SessionInLedger, SessionType, TaskRecord, j
  <2> HIDE DEF s2
  <2>11. /\ proc[r].outer.sequence <= Len(s2.journal)
         /\ ~Newest(s2, proc[r].outer) /\ c.task.sequence = Len(s2.journal)
         /\ c.task.sequence <= Len(s2.journal)
    BY <2>6, <2>9, <2>10 DEF Newest
  <2>12. s2.journal[Len(s2.journal)] = AttemptEvent("action_execution_started", att)
    BY <2>6, <2>9 DEF e
  <2>13. SessionInLedger(s2, next)
    BY <1>5, <2>1, <2>5, <2>6, <2>8, <2>9, <2>11, <2>12 DEF SessionInLedger
  <2> QED
    BY <1>4, <2>3, <2>13 DEF s2
<1> HIDE DEF rec, j
<1> QED
  BY <1>1, <1>2, <1>4, <1>5, <1>6, LedgerFacts, SubmitLedger DEF j

(* The adapter's answer: what it carried out was journalled as started. *)
LEMMA ExecuteLedger ==
    ASSUME LedgerInv, AtMostOnceInv', NEW r \in Runners, Execute(r)
    PROVE  LedgerInv' /\ LedgerStep
<1> DEFINE next(pc, ok, s) == [proc[r] EXCEPT !.pc = pc, !.success = ok, !.sim = s]
           att == proc[r].att
           j   == store.journal
           e   == [att |-> att, act |-> proc[r].act, auth |-> proc[r].auth, seen |-> proc[r].obs]
<1>1. PICK answer :
        /\ effects' = Append(effects, e) \/ (answer # "success" /\ UNCHANGED effects)
        /\ proc' = [proc EXCEPT ![r] =
               next(IF answer = "raised" THEN "error" ELSE "executed", answer = "success",
                    IF External THEN proc[r].sim ELSE Effect[proc[r].act][proc[r].sim])]
  BY Zenon DEF Execute, Apply
<1> DEFINE pc == IF answer = "raised" THEN "error" ELSE "executed"
           ok == answer = "success"
           s  == IF External THEN proc[r].sim ELSE Effect[proc[r].act][proc[r].sim]
<1>2. /\ pc \in {"error", "executed"} /\ proc' = [proc EXCEPT ![r] = next(pc, ok, s)]
      /\ effects' = Append(effects, e) \/ (~ok /\ UNCHANGED effects)
      /\ proc[r].pc = "started" /\ UNCHANGED <<store, command>>
  BY <1>1 DEF Execute
<1> HIDE DEF pc, ok, s
<1>3. /\ TypeInv /\ DOMAIN proc = Runners /\ effects \in Seq(EffectRecord)
      /\ effects' \in Seq(EffectRecord)
      /\ proc[r] \in SessionType /\ AttemptsInOrder(j) /\ j \in Seq(EventRecord)
      /\ SessionInLedger(store, proc[r]) /\ Newest(store, store.task)
      /\ EffectsStarted /\ SuccessesCarriedOut /\ Backed(j) /\ AttemptsHeldOnce
  BY LedgerFacts DEF LedgerInv, TypeInv, AtMostOnceInv
<1>4. /\ next(pc, ok, s).pc = pc /\ next(pc, ok, s).success = ok /\ next(pc, ok, s).att = att
      /\ next(pc, ok, s).rec = proc[r].rec /\ next(pc, ok, s).outer = proc[r].outer
      /\ next(pc, ok, s).act = proc[r].act
  BY <1>3 DEF SessionType
<1> HIDE DEF next
<1>5. /\ att \in StartedIn(j) /\ att \in Prepared(j) /\ att # NoId
      /\ j[att].act = proc[r].act
  BY <1>2, <1>3, InOrder DEF SessionInLedger, Acting
<1>6. e.att = att /\ e.act = proc[r].act
  OBVIOUS
<1> HIDE DEF e, att
<1>7. SessionInLedger(store, next(pc, ok, s))
  BY <1>2, <1>3, <1>4, <1>5 DEF SessionInLedger, j, att
<1>8. \A q \in Runners : SessionInLedger(store', proc'[q])
  BY <1>2, <1>3, <1>7 DEF LedgerInv
<1>9. \A o \in Operators : CommandInLedger(store', command'[o])
  BY <1>2 DEF LedgerInv
<1>10. /\ \A i \in DOMAIN effects : i \in DOMAIN effects' /\ effects'[i] = effects[i]
       /\ effects' # effects => \E i \in DOMAIN effects' : effects'[i] = e
       /\ \A i \in DOMAIN effects' : i \in DOMAIN effects \/ (effects'[i] = e /\ effects' # effects)
  <2>1. CASE effects' = Append(effects, e)
    <3>1. /\ Len(effects) \in Nat /\ DOMAIN effects = 1 .. Len(effects)
          /\ DOMAIN effects' = 1 .. Len(effects) + 1
          /\ \A i \in DOMAIN effects : effects'[i] = effects[i]
          /\ effects'[Len(effects) + 1] = e
      BY <1>3, <2>1, LenProperties
    <3> DEFINE n == Len(effects)
    <3> HIDE DEF n
    <3>2. n + 1 \in DOMAIN effects' /\ n + 1 \notin DOMAIN effects /\ effects'[n + 1] = e
      BY <3>1 DEF n
    <3>3. \A i \in DOMAIN effects' : i \in DOMAIN effects \/ i = n + 1
      BY <3>1 DEF n
    <3> QED
      BY <3>1, <3>2, <3>3
  <2> QED
    BY <1>2, <2>1
<1> DEFINE carriedOut(id) == \E i \in DOMAIN effects' : effects'[i].att = id
<1>11. \A id : CarriedOut(id) => carriedOut(id)
  BY <1>10 DEF CarriedOut
<1>12. ok => carriedOut(att)
  <2>1. ASSUME ok
        PROVE  effects' = Append(effects, e)
    BY <1>2, <2>1
  <2>2. ASSUME effects' = Append(effects, e)
        PROVE  \E i \in DOMAIN effects' : effects'[i] = e
    BY <1>3, <2>2, LenProperties
  <2> QED
    BY <1>6, <2>1, <2>2
<1>13. EffectsStarted'
  BY <1>2, <1>3, <1>5, <1>6, <1>10 DEF EffectsStarted, j
<1>14. SuccessesCarriedOut'
  <2>1. ASSUME NEW q \in Runners, proc'[q].pc = "executed", proc'[q].success
        PROVE  carriedOut(proc'[q].att)
    <3>1. CASE q = r
      BY <1>2, <1>3, <1>4, <1>12, <2>1, <3>1 DEF att
    <3>2. CASE q # r
      <4>1. proc'[q] = proc[q]
        BY <1>2, <1>3, <3>2
      <4> QED
        BY <1>3, <1>11, <2>1, <4>1 DEF SuccessesCarriedOut
    <3> QED
      BY <3>1, <3>2
  <2> QED
    BY <2>1 DEF SuccessesCarriedOut, CarriedOut
<1>15. Backed(store.journal)'
  BY <1>2, <1>3, <1>11 DEF Backed, CarriedOut, j
<1>16. LedgerStep
  <2>1. CASE UNCHANGED effects
    BY <1>2, <2>1 DEF LedgerStep, Ledger!ledger
  <2>2. CASE effects' # effects
    <3> DEFINE carried == {effects[i].att : i \in DOMAIN effects}
    <3>1. carried' = carried \cup {att}
      BY <1>6, <1>10, <2>2 DEF att
    <3>2. att \notin carried
      BY <1>2, <1>3 DEF AttemptsHeldOnce, Holding, att
    <3>3. att \in Attempts(j)
      BY <1>3, <1>5, InOrder
    <3> HIDE DEF carried
    <3>4. PICK id \in Attempts(store.journal) : id = att
      BY <3>3
    <3>5. Ledger!CarryOut(id)
      BY <1>2, <1>5, <3>1, <3>2, <3>4 DEF Ledger!CarryOut, StartedIn, carried, j
    <3> QED
      BY <3>5 DEF LedgerStep, Ledger!LedgerNext
  <2> QED
    BY <2>1, <2>2
<1> QED
  BY <1>2, <1>3, <1>8, <1>9, <1>13, <1>14, <1>15, <1>16 DEF LedgerInv, AtMostOnceInv

--------------------------------------------------------------------------------
(* Resolutions. *)

(* Drafts that resolve attempt id, and confirm no success but a real one. *)
Resolves(journal, drafts, id) ==
    /\ MovesAttempt(journal, drafts, id) /\ Closings(drafts) # {}
    /\ Writes(journal, drafts) /\ Backed(drafts)

LEMMA ResolvingEnds ==
    ASSUME NEW current \in TaskRecord, NEW task \in TaskRecord, NEW status \in Terminal,
           NEW drafts, DraftsOK(drafts), NEW s \in States \cup {NoVal}
    PROVE  LET c == TerminalCommit(current, task, status, drafts, s)
           IN  /\ Numbered(c, current)
               /\ \A j, id : Resolves(j, drafts, id) => Resolves(j, c.drafts, id)
               /\ \A id : Settles(drafts, id) => Settles(c.drafts, id)
               /\ Charged(c.drafts) = Charged(drafts)
               /\ AttemptEventsOf(c.drafts) = AttemptEventsOf(drafts)
               /\ \A k \in AttemptEventsOf(drafts) : c.drafts[k] = drafts[k]
               /\ \A before, after :
                      ShowsLast(drafts, before, after) => ShowsLast(c.drafts, before, after)
<1> DEFINE c == TerminalCommit(current, task, status, drafts, s)
           e == Event(TerminalEvent[status])
<1>1. Numbered(c, current) /\ Carries(c, [task EXCEPT !.status = status], Append(drafts, e), s)
  BY TerminalNumbered
<1>2. Plain(e) /\ drafts \in Seq(EventRecord) /\ e.type # "observation_recorded"
  BY PlainEvents DEF DraftsOK
<1> HIDE DEF c, e
<1>3. ASSUME NEW j, NEW id, Resolves(j, drafts, id)
      PROVE  Resolves(j, Append(drafts, e), id)
  BY <1>2, <1>3, AppendedWrites DEF Resolves
<1>4. c.drafts = Append(drafts, e)
  BY <1>1 DEF Carries
<1>5. /\ Charged(c.drafts) = Charged(drafts)
      /\ \A id : Settles(drafts, id) => Settles(c.drafts, id)
  BY <1>2, <1>4, SettlesAppended
<1>6. /\ Observed(c.drafts) = Observed(drafts)
      /\ AttemptEventsOf(c.drafts) = AttemptEventsOf(drafts)
      /\ \A k \in DOMAIN drafts : c.drafts[k] = drafts[k]
  BY <1>2, <1>4, PlainAppended
<1>7. /\ \A k \in AttemptEventsOf(drafts) : c.drafts[k] = drafts[k]
      /\ \A k \in Observed(drafts) : c.drafts[k] = drafts[k]
  BY <1>6 DEF AttemptEventsOf, Observed
<1>8. \A before, after : ShowsLast(drafts, before, after) => ShowsLast(c.drafts, before, after)
  BY <1>6, <1>7 DEF ShowsLast
<1> QED
  BY <1>1, <1>3, <1>4, <1>5, <1>6, <1>7, <1>8 DEF c

(* The iteration that closes what a session did: it resolves the attempt    *)
(* and takes the authority, or fails the task; it pays for a success, and  *)
(* its checkpoint is what it observed.                                     *)
ResolvingCommit(r, c, after) ==
    /\ proc[r].pc \in {"executed", "error"} /\ SubmitIteration(r, c, after)
    /\ CommitOK(c) /\ Numbered(c, proc[r].rec) /\ c.create = {} /\ c.update = {}
    /\ Newest(store, proc[r].rec) =>
           \/ /\ AttemptEventsOf(c.drafts) = {} /\ AllClosed(store.journal)
              /\ c.task.spend = proc[r].rec.spend
           \/ /\ Resolves(store.journal, c.drafts, proc[r].att)
              /\ Pays(c, proc[r].rec, proc[r].att, Cost[proc[r].act])
              /\ proc[r].pc = "executed" \/ Charged(c.drafts) = {}
    /\ Ends(c, proc[r].rec)
    /\ External \/ proc[r].pc = "executed" => Saves(c, proc[r].obs)
    /\ c.task.status \in {"blocked", "failed", "running"}
    /\ \/ c.task.approvedId = NoId /\ c.task.approvedAction = NoVal
       \/ c.task.status = "failed" /\ SameMeans(c.task, proc[r].rec)
    /\ c.task.status = "running" =>
           /\ after \in States /\ (External \/ proc[r].sim = after)
           /\ Observed(c.drafts) # {} /\ ShowsLast(c.drafts, NoVal, after)

LEMMA ResolvingLedger ==
    ASSUME LedgerInv, AtMostOnceInv', NEW r \in Runners, NEW c, NEW after,
           ResolvingCommit(r, c, after)
    PROVE  LedgerInv' /\ LedgerStep
<1>1. store.journal \in Seq(EventRecord) /\ AttemptsInOrder(store.journal)
  BY LedgerFacts
<1>2. Numbered(c, proc[r].rec) /\ SubmitIteration(r, c, after)
  BY DEF ResolvingCommit
<1>3. ASSUME Newest(store, proc[r].rec), c.drafts \in Seq(EventRecord)
      PROVE  /\ Writes(store.journal, c.drafts) /\ Backed(c.drafts)
             /\ AllClosed(store.journal \o c.drafts)
  <2>1. CASE AttemptEventsOf(c.drafts) = {} /\ AllClosed(store.journal)
    BY <1>1, <1>3, <2>1, QuietWrites, StaysClosed
  <2>2. CASE Resolves(store.journal, c.drafts, proc[r].att)
    BY <1>1, <1>3, <2>2, BecomesClosed DEF Resolves
  <2> QED
    BY <1>3, <2>1, <2>2 DEF ResolvingCommit
<1> QED
  BY <1>2, <1>3, IterationLedger

LEMMA OutcomeFacts ==
    ASSUME NEW r, proc[r] \in SessionType, proc[r].act \in Acts, NEW after \in States
    PROVE  /\ Outcome(r, after).approvedId = NoId /\ Outcome(r, after).approvedAction = NoVal
           /\ Outcome(r, after).cancelRequested = proc[r].rec.cancelRequested
           /\ Outcome(r, after).spend =
                  IF Verified(r, after) /\ proc[r].success
                  THEN proc[r].rec.spend + Cost[proc[r].act] ELSE proc[r].rec.spend
           /\ Outcome(r, after).status = "running" => Verified(r, after)
<1> DEFINE cleared == WithoutAuthority(proc[r].rec)
           judged  == IF ~Verified(r, after) THEN cleared
                      ELSE IF ~proc[r].success THEN [cleared EXCEPT !.failures = @ + 1]
                      ELSE [cleared EXCEPT !.failures = 0, !.spend = @ + Cost[proc[r].act]]
           counted == WithObservedState(judged, after)
           failing == ~proc[r].success /\ judged.failures >= MaxConsecutiveFailures
           status  == IF ~Verified(r, after) THEN "failed"
                      ELSE IF failing \/ counted.repState >= RepeatedStateLimit THEN "blocked"
                      ELSE IF after \in Dead THEN "failed" ELSE "running"
           rec     == proc[r].rec
           price   == Cost[proc[r].act]
<1>1. /\ cleared \in TaskRecord /\ cleared.approvedId = NoId /\ cleared.approvedAction = NoVal
      /\ cleared.cancelRequested = rec.cancelRequested /\ cleared.spend = rec.spend
  BY WithoutAuthorityType DEF SessionType, WithoutAuthority, TaskRecord
<1> HIDE DEF cleared, rec, price
<1>2. DOMAIN cleared = DOMAIN NewTask
  BY <1>1 DEF TaskRecord, NewTask
<1>3. /\ judged.approvedId = NoId /\ judged.approvedAction = NoVal
      /\ judged.cancelRequested = rec.cancelRequested
      /\ judged.spend = IF Verified(r, after) /\ proc[r].success THEN rec.spend + price ELSE rec.spend
      /\ DOMAIN judged = DOMAIN NewTask
  BY <1>1, <1>2 DEF TaskRecord, NewTask, price
<1>4. status = "running" => Verified(r, after)
  OBVIOUS
<1>5. Outcome(r, after) = [counted EXCEPT !.status = status]
  BY DEF Outcome, cleared
<1> HIDE DEF judged, status
<1>6. Outcome(r, after).status = status
  BY <1>3, <1>5 DEF WithObservedState, NewTask
<1>7. /\ Outcome(r, after).approvedId = judged.approvedId
      /\ Outcome(r, after).approvedAction = judged.approvedAction
      /\ Outcome(r, after).cancelRequested = judged.cancelRequested
      /\ Outcome(r, after).spend = judged.spend
  BY <1>3, <1>5 DEF WithObservedState, NewTask
<1> QED
  BY <1>3, <1>4, <1>6, <1>7 DEF rec, price

LEMMA ConfirmCommit ==
    ASSUME LedgerInv, NEW r \in Runners, Confirm(r)
    PROVE  \E c, after : ResolvingCommit(r, c, after)
<1> DEFINE after  == Current(r)
           att    == proc[r].att
           rec    == proc[r].rec
           result == IF Verified(r, after) /\ proc[r].success THEN "success" ELSE "failure"
           task   == Outcome(r, after)
           o      == ObservationEvent(after)
           f      == [AttemptEvent("action_execution_confirmed", att) EXCEPT !.res = result]
           e      == AttemptEvent("action_checkpoint_committed", att)
           drafts == <<o, f, e>>
           s      == IF proc[r].success THEN Snapshot(r, after) ELSE NoVal
           c      == WithSnapshot(IterationCommit(rec, task, drafts), s)
           ending == TerminalCommit(rec, task, task.status, drafts, Snapshot(r, after))
<1>1. proc[r].pc = "executed"
  BY DEF Confirm
<1>2. /\ TypeInv /\ proc[r] \in SessionType /\ rec \in TaskRecord /\ att \in Nat
      /\ SessionInLedger(store, proc[r])
  BY LedgerFacts
<1>3. proc[r].act \in Acts /\ after \in States /\ (External \/ proc[r].sim \in States)
  BY <1>1, <1>2, LoopFacts DEF TypeInv, SessionOK, Observing, Acting
<1>4. /\ task \in TaskRecord /\ task.status \in {"blocked", "failed", "running"}
      /\ task.approvedId = NoId /\ task.approvedAction = NoVal
      /\ task.cancelRequested = rec.cancelRequested
      /\ task.spend = IF result = "success" THEN rec.spend + Cost[proc[r].act] ELSE rec.spend
      /\ task.status = "running" => proc[r].success \/ proc[r].obs = after
  BY <1>2, <1>3, OutcomeType, OutcomeFacts DEF Verified
<1>5. Snapshot(r, after) \in States \cup {NoVal} /\ s \in States \cup {NoVal}
  BY <1>2, <1>3, SnapshotType
<1>a. Snapshot(r, after) = after /\ after # NoVal
  BY <1>3, NoValAssumption DEF Snapshot, Current
<1>6. /\ Draft(o) /\ Draft(f) /\ Draft(e)
      /\ o.type \notin AttemptEvents /\ o.type = "observation_recorded" /\ o.state = after
      /\ f.type = "action_execution_confirmed" /\ f.id = att
      /\ f.res = result /\ (result = "success" => proc[r].success)
      /\ e.type \in ClosingTypes /\ e.id = att /\ e.res # "never_started"
      /\ e.type = "action_checkpoint_committed"
  <2>0. o.type = "observation_recorded" /\ o.state = after
    BY DEF ObservationEvent, Event
  <2>1. Draft(o) /\ o.type \notin AttemptEvents
    BY <1>3, ObservationDraft, PlainEvents DEF Plain
  <2>2. {"action_execution_confirmed", "action_checkpoint_committed"}
            \subseteq AttemptEvents \ {"action_prepared"}
    BY EventTypes
  <2>3. result \in {"success", "failure"} /\ (result = "success" => proc[r].success)
    OBVIOUS
  <2> HIDE DEF result, att
  <2>4. Draft(f) /\ Draft(e)
    BY <1>2, <2>2, <2>3, AttemptDraft
  <2>5. /\ f.type = "action_execution_confirmed" /\ f.id = att /\ f.res = result
        /\ e.type = "action_checkpoint_committed" /\ e.id = att /\ e.res = "none"
    BY DEF AttemptEvent, Event
  <2> QED
    BY <2>0, <2>1, <2>3, <2>4, <2>5 DEF ClosingTypes
<1> HIDE DEF o, f, e
<1>7. DraftsOK(drafts) /\ drafts # <<>>
  BY <1>6, DraftSequences
<1>8. ASSUME Newest(store, rec)
      PROVE  Resolves(store.journal, drafts, att)
  <2>1. att \in StartedIn(store.journal) \ ClosedIn(store.journal)
    BY <1>1, <1>2, <1>8 DEF SessionInLedger
  <2>2. att \in Prepared(store.journal)
    BY <2>1, LedgerFacts, InOrder
  <2>3. f.res = "success" => CarriedOut(att)
    BY <1>1, <1>6 DEF LedgerInv, SuccessesCarriedOut
  <2> HIDE DEF att, result
  <2> QED
    BY <1>6, <2>1, <2>2, <2>3, ResolvingWrites DEF Resolves
<1>d. Observed(drafts) # {} /\ ShowsLast(drafts, NoVal, after)
  <2>1. /\ DOMAIN drafts = 1 .. 3 /\ drafts[1] = o /\ drafts[2] = f /\ drafts[3] = e
        /\ f.type # "observation_recorded" /\ e.type # "observation_recorded"
    BY <1>6 DEF ClosingTypes
  <2> HIDE DEF drafts, after
  <2>2. 1 \in Observed(drafts) /\ \A k \in Observed(drafts) : drafts[k] = o
    BY <1>6, <2>1 DEF Observed
  <2> QED
    BY <1>6, <2>2 DEF ShowsLast
<1> DEFINE price == Cost[proc[r].act]
<1>p. /\ Settles(drafts, att)
      /\ task.spend = IF Charged(drafts) = {} THEN rec.spend ELSE rec.spend + price
  <2>1. Settles(drafts, att) /\ (Charged(drafts) = {} <=> f.res # "success")
    <3> HIDE DEF att, result
    <3> QED
      BY <1>6, SettledByTwo
  <2>2. f.res = result
    BY <1>6
  <2>3. task.spend = IF result = "success" THEN rec.spend + price ELSE rec.spend
    BY <1>4
  <2> HIDE DEF task, result, price, rec, drafts
  <2> QED
    BY <2>1, <2>2, <2>3
<1>v. /\ \A before : ShowsLast(drafts, before, after)
      /\ task.status = "running" =>
             ShowsLast(drafts, proc[r].obs, IF s = NoVal THEN proc[r].obs ELSE s)
  <2>1. \A before : ShowsLast(drafts, before, after)
    <3> HIDE DEF drafts, after
    <3> QED
      BY <1>d DEF ShowsLast
  <2>2. s = after \/ (s = NoVal /\ ~proc[r].success)
    BY <1>a
  <2> HIDE DEF drafts, after, s, task
  <2> QED
    BY <1>4, <1>a, <2>1, <2>2
<1> HIDE DEF drafts, price
<1>9. CASE task.status = "running"
  <2>1. SubmitIteration(r, c, after)
    BY <1>9 DEF Confirm, drafts, o, f, e
  <2> DEFINE d == IterationCommit(rec, task, drafts)
  <2> HIDE DEF task, s, rec, after
  <2>2. Numbered(d, rec) /\ Carries(d, task, drafts, NoVal) /\ Ends(d, rec)
    BY <1>2, <1>4, <1>7, <1>9, TerminalWords, IterationNumbered
  <2> HIDE DEF d
  <2>3. /\ Numbered(WithSnapshot(d, s), rec) /\ Carries(WithSnapshot(d, s), task, drafts, s)
        /\ Ends(WithSnapshot(d, s), rec)
    BY <1>5, <2>2, SnapshotNumbered
  <2>4. Numbered(c, rec) /\ Carries(c, task, drafts, s) /\ Ends(c, rec)
    BY <2>3 DEF d
  <2> HIDE DEF c
  <2>4a. Pays(c, rec, att, price) /\ Saves(c, proc[r].obs)
    BY <1>9, <1>p, <1>v, <2>4 DEF Pays, Saves, Carries, SameMeans
  <2>5. External \/ proc[r].sim = after
    BY DEF after, Current
  <2>6. ResolvingCommit(r, c, after)
    BY <1>1, <1>3, <1>4, <1>8, <1>9, <1>d, <2>1, <2>4, <2>4a, <2>5
    DEF ResolvingCommit, Carries, SameMeans, rec, att, price
  <2> QED
    BY <2>6
<1>10. CASE task.status # "running"
  <2>1. SubmitIteration(r, ending, after)
    BY <1>10 DEF Confirm, drafts, o, f, e
  <2>2. task.status \in Terminal
    BY <1>4, <1>10, TerminalWords
  <2> DEFINE status == task.status
             ended  == [task EXCEPT !.status = status]
             all    == Append(drafts, Event(TerminalEvent[status]))
  <2>2a. status \in {"blocked", "failed"} /\ status \in Terminal
    BY <1>4, <1>10, <2>2
  <2> HIDE DEF task, rec, after, att
  <2>3. /\ Numbered(ending, rec)
        /\ Resolves(store.journal, drafts, att) => Resolves(store.journal, ending.drafts, att)
        /\ Settles(ending.drafts, att) /\ Charged(ending.drafts) = Charged(drafts)
        /\ ShowsLast(ending.drafts, proc[r].obs, after)
    BY <1>2, <1>4, <1>5, <1>7, <1>p, <1>v, <2>2, ResolvingEnds
  <2>4. /\ Carries(ending, ended, all, Snapshot(r, after))
        /\ ended.status = status /\ SameMeans(ended, task) /\ Ends(ending, rec)
    BY <1>2, <1>4, <1>5, <1>7, <2>2, TerminalNumbered
  <2> HIDE DEF ending, ended, all, status
  <2>4a. Pays(ending, rec, att, price) /\ Saves(ending, proc[r].obs)
    BY <1>a, <1>p, <2>3, <2>4 DEF Pays, Saves, Carries, SameMeans
  <2>5. ResolvingCommit(r, ending, after)
    BY <1>1, <1>4, <1>8, <2>1, <2>2a, <2>3, <2>4, <2>4a
    DEF ResolvingCommit, Carries, SameMeans, rec, att, price
  <2> QED
    BY <2>5
<1> QED
  BY <1>9, <1>10

LEMMA ErrorCommit ==
    ASSUME LedgerInv, NEW r \in Runners, Error(r)
    PROVE  \E c, after : ResolvingCommit(r, c, after)
<1> DEFINE rec    == proc[r].rec
           att    == proc[r].att
           e      == AttemptEvent("action_attempt_failed", att)
           drafts == IF att = NoId THEN <<>> ELSE <<e>>
           s      == Snapshot(r, proc[r].obs)
           c      == TerminalCommit(rec, rec, "failed", drafts, s)
           j      == store.journal
<1>1. proc[r].pc = "error" /\ SubmitIteration(r, c, proc[r].obs)
  BY DEF Error
<1>2. /\ TypeInv /\ rec \in TaskRecord /\ att \in Nat /\ proc[r].obs \in States \cup {NoVal}
      /\ SessionInLedger(store, proc[r]) /\ j \in Seq(EventRecord) /\ AttemptsInOrder(j)
  BY LedgerFacts DEF SessionType
<1>3. s \in States \cup {NoVal}
  BY <1>2, SnapshotType
<1>4. Draft(e) /\ e.type = "action_attempt_failed" /\ e.id = att /\ e.res = "none"
  <2>1. Draft(e)
    BY <1>2, EventTypes, AttemptDraft
  <2> QED
    BY <2>1 DEF AttemptEvent, Event
<1> HIDE DEF e
<1>5. DraftsOK(drafts)
  BY <1>4, DraftSequences
<1> DEFINE ended == [rec EXCEPT !.status = "failed"]
           all   == Append(drafts, Event(TerminalEvent["failed"]))
<1>6. /\ Numbered(c, rec) /\ Carries(c, ended, all, s)
      /\ ended.status = "failed" /\ SameMeans(ended, rec) /\ Ends(c, rec)
      /\ \A id : Resolves(j, drafts, id) => Resolves(j, c.drafts, id)
      /\ \A id : Settles(drafts, id) => Settles(c.drafts, id)
      /\ Charged(c.drafts) = Charged(drafts)
      /\ \A before, after :
             ShowsLast(drafts, before, after) => ShowsLast(c.drafts, before, after)
  <2> HIDE DEF rec, drafts, s, ended, all
  <2>1. /\ Numbered(c, rec)
        /\ \A id : Resolves(j, drafts, id) => Resolves(j, c.drafts, id)
        /\ \A id : Settles(drafts, id) => Settles(c.drafts, id)
        /\ Charged(c.drafts) = Charged(drafts)
        /\ \A before, after :
               ShowsLast(drafts, before, after) => ShowsLast(c.drafts, before, after)
    BY <1>2, <1>3, <1>5, TerminalWords, ResolvingEnds
  <2> QED
    BY <1>2, <1>3, <1>5, <2>1, TerminalWords, TerminalNumbered DEF ended, all
<1>7. ASSUME Newest(store, rec)
      PROVE  \/ AttemptEventsOf(c.drafts) = {} /\ AllClosed(j)
             \/ /\ Resolves(j, c.drafts, att) /\ Settles(c.drafts, att)
                /\ Charged(c.drafts) = {}
  <2>1. CASE att = NoId
    <3>1. drafts = <<>> /\ AttemptEventsOf(drafts) = {}
      BY <2>1, NoteFacts
    <3>2. AllClosed(j)
      BY <1>1, <1>2, <1>7, <2>1 DEF SessionInLedger, rec
    <3> HIDE DEF rec, drafts, s
    <3>3. AttemptEventsOf(c.drafts) = {}
      BY <1>2, <1>3, <1>5, <3>1, TerminalWords, TerminalQuiet
    <3> QED
      BY <3>2, <3>3
  <2>2. CASE att # NoId
    <3>0. drafts = <<e>>
      BY <2>2
    <3>1. att \in StartedIn(j) \ ClosedIn(j)
      BY <1>1, <1>2, <1>7, <2>2 DEF SessionInLedger
    <3>2. att \in Prepared(j)
      BY <1>2, <3>1, InOrder
    <3> DEFINE o == Event("note")
               f == [AttemptEvent("action_execution_confirmed", att) EXCEPT !.res = "failure"]
    <3>3. /\ o.type \notin AttemptEvents
          /\ f.type = "action_execution_confirmed" /\ f.id = att /\ f.res = "failure"
      BY PlainEvents DEF Plain, AttemptEvent, Event
    <3> HIDE DEF o, f, att, drafts, j, c
    <3>4. Resolves(j, drafts, att)
      BY <1>4, <3>0, <3>1, <3>2, <3>3, ResolvingWrites DEF Resolves, ClosingTypes
    <3>5. Settles(drafts, att) /\ Charged(drafts) = {}
      BY <1>4, <3>0, <3>3, SettledByOne DEF SettlingTypes
    <3> QED
      BY <1>6, <3>4, <3>5
  <2> QED
    BY <2>1, <2>2
<1>8. Observed(drafts) = {}
  BY <1>4 DEF Observed
<1>9. External => s = proc[r].obs
  BY DEF Snapshot
<1> DEFINE price == Cost[proc[r].act]
<1> HIDE DEF c, ended, all, drafts, s, price, rec, att, j
<1>10. External => Saves(c, proc[r].obs)
  <2>1. \A before : ShowsLast(c.drafts, before, before)
    BY <1>6, <1>8 DEF ShowsLast
  <2>2. c.snap = s
    BY <1>6 DEF Carries
  <2> QED
    BY <1>9, <2>1, <2>2 DEF Saves
<1>11. c.task.spend = rec.spend
  BY <1>6 DEF Carries, SameMeans
<1>12. Newest(store, rec) =>
           \/ AttemptEventsOf(c.drafts) = {} /\ AllClosed(j)
           \/ Resolves(j, c.drafts, att) /\ Pays(c, rec, att, price) /\ Charged(c.drafts) = {}
  BY <1>7, <1>11 DEF Pays
<1>13. ResolvingCommit(r, c, proc[r].obs)
  BY <1>1, <1>6, <1>10, <1>11, <1>12
  DEF ResolvingCommit, Carries, SameMeans, rec, att, j, price
<1> QED
  BY <1>13

LEMMA AdapterRaisesLedger ==
    ASSUME LedgerInv, AtMostOnceInv', NEW r \in Runners, AdapterRaises(r)
    PROVE  LedgerInv' /\ LedgerStep
<1>1. /\ UNCHANGED <<store, command, effects>> /\ proc[r] \in SessionType
      /\ proc[r].rec \in TaskRecord /\ SessionInLedger(store, proc[r])
      /\ store.journal \in Seq(EventRecord) /\ AttemptsInOrder(store.journal)
  BY LedgerFacts DEF AdapterRaises
<1>2. CASE Undecided(r) /\ proc' = [proc EXCEPT ![r] =
                [proc[r] EXCEPT !.pc = "error", !.rec = Counted(r)]]
  <2> DEFINE counted == Counted(r)
             next    == [proc[r] EXCEPT !.pc = "error", !.rec = counted]
  <2>1. proc[r].pc = "loop"
    BY <1>2 DEF Undecided, Iterating, InLoop
  <2>2. counted.sequence = proc[r].rec.sequence
    BY <1>1 DEF Counted, TaskRecord
  <2> HIDE DEF counted
  <2>3. /\ next.pc = "error" /\ next.rec = counted /\ next.outer = proc[r].outer
        /\ next.att = proc[r].att
    BY <1>1 DEF SessionType
  <2>a. proc' = [proc EXCEPT ![r] = next]
    BY <1>2 DEF counted
  <2> HIDE DEF next
  <2>4. SessionInLedger(store, next)
    BY <1>1, <2>1, <2>2, <2>3 DEF SessionInLedger, Acting, Newest
  <2> QED
    BY <1>1, <2>a, <2>3, <2>4, SessionStepLedger
<1>3. CASE proc[r].pc = "executed" /\ proc' = [proc EXCEPT ![r] = [proc[r] EXCEPT !.pc = "error"]]
  <2> DEFINE next == [proc[r] EXCEPT !.pc = "error"]
  <2>1. /\ next.pc = "error" /\ next.rec = proc[r].rec /\ next.outer = proc[r].outer
        /\ next.att = proc[r].att
    BY <1>1 DEF SessionType
  <2>a. proc' = [proc EXCEPT ![r] = next]
    BY <1>3
  <2> HIDE DEF next
  <2>2. Newest(store, proc[r].rec) =>
            proc[r].att \in StartedIn(store.journal) \ ClosedIn(store.journal) /\ proc[r].att # NoId
    BY <1>1, <1>3, InOrder DEF SessionInLedger
  <2>3. SessionInLedger(store, next)
    BY <1>1, <2>1, <2>2 DEF SessionInLedger, Acting
  <2> QED
    BY <1>1, <2>a, <2>1, <2>3, SessionStepLedger
<1> QED
  BY <1>2, <1>3 DEF AdapterRaises

LEMMA CrashLedger ==
    ASSUME LedgerInv, AtMostOnceInv', NEW r \in Runners, Crash(r)
    PROVE  LedgerInv' /\ LedgerStep
<1>1. SessionInLedger(store, Idle) /\ Idle.pc # "executed"
  BY LedgerFacts
<1> QED
  BY <1>1, SessionStepLedger DEF Crash

--------------------------------------------------------------------------------
(* Operator commands. *)

LEMMA QuietJoined ==
    ASSUME NEW d \in Seq(EventRecord), NEW e \in Seq(EventRecord),
           AttemptEventsOf(d) = {}, AttemptEventsOf(e) = {}, Observed(d) = {}, Observed(e) = {}
    PROVE  AttemptEventsOf(d \o e) = {} /\ Observed(d \o e) = {}
<1>1. \A k \in DOMAIN (d \o e) :
          \/ k \in DOMAIN d /\ (d \o e)[k] = d[k]
          \/ k - Len(d) \in DOMAIN e /\ (d \o e)[k] = e[k - Len(d)]
  BY JoinedAt
<1> QED
  BY <1>1 DEF AttemptEventsOf, Observed

(* The decision of an approval is about no attempt. *)
LEMMA DecideNumbered ==
    ASSUME NEW view, StoreOK(view), Pending(view.approvals) # {},
           NEW status \in {"approved", "denied"}, NEW task \in TaskRecord,
           NEW drafts \in {<<>>, <<Event("task_blocked")>>}
    PROVE  LET c       == Decide(view, status, task, drafts)
               pending == CHOOSE a \in Pending(view.approvals) : TRUE
           IN  /\ Numbered(c, view.task) /\ CommitOK(c)
               /\ /\ task.cancelRequested => view.task.cancelRequested
                  /\ task.status \in Terminal =>
                         \/ task.status = view.task.status
                         \/ task.status = "blocked" /\ drafts # <<>>
                  => Ends(c, view.task)
               /\ AttemptEventsOf(c.drafts) = {} /\ Observed(c.drafts) = {}
               /\ c.task.status = task.status /\ SameMeans(c.task, task)
               /\ c.create = {} /\ c.update = {[pending EXCEPT !.status = status]}
               /\ c.snap = NoVal
<1> DEFINE pending == CHOOSE a \in Pending(view.approvals) : TRUE
           type    == IF status = "approved" THEN "approval_granted" ELSE "approval_denied"
           e       == [Event(type) EXCEPT !.id = pending.id]
           all     == <<e>> \o drafts
           c       == IterationCommit(view.task, task, all)
           u       == [pending EXCEPT !.status = status]
           decided == Decide(view, status, task, drafts)
<1>1. pending \in ApprovalRecord /\ view.task \in TaskRecord /\ CommitOK(decided)
  BY DecideOK DEF Pending, StoreOK, StoreType
<1>2. /\ pending.id \in Nat /\ type \in EventType /\ type \notin AttemptEvents
      /\ type # "observation_recorded" /\ type # "action_prepared"
  BY <1>1, EventTypes DEF ApprovalRecord, EventType
<1>3. decided = [c EXCEPT !.update = {u}]
  BY DEF Decide
<1> HIDE DEF pending, type
<1>4. Draft(e) /\ e.type = type
  BY <1>2, EventDraft DEF Event
<1> HIDE DEF e
<1>5. /\ DraftsOK(<<e>>) /\ AttemptEventsOf(<<e>>) = {} /\ Observed(<<e>>) = {}
  BY <1>2, <1>4, DraftSequences DEF AttemptEventsOf, Observed
<1>6. DraftsOK(drafts) /\ AttemptEventsOf(drafts) = {} /\ Observed(drafts) = {}
  <2> DEFINE b == Event("task_blocked")
  <2>1. Draft(b) /\ b.type = "task_blocked"
    <3>1. "task_blocked" \in EventType
      BY TerminalWords DEF EventType, TerminalEvent
    <3> QED
      BY <3>1, EventDraft DEF NoId, Event
  <2>2. b.type \notin AttemptEvents
    BY <2>1, EventTypes
  <2> HIDE DEF b
  <2>3. DraftsOK(<<b>>) /\ AttemptEventsOf(<<b>>) = {} /\ Observed(<<b>>) = {}
    BY <2>1, <2>2, DraftSequences DEF AttemptEventsOf, Observed
  <2>4. DraftsOK(<<>>) /\ AttemptEventsOf(<<>>) = {} /\ Observed(<<>>) = {}
    BY DraftSequences, PlainDrafts
  <2> QED
    BY <2>3, <2>4 DEF b
<1> DEFINE one == <<e>>
<1>7. one # <<>> /\ Len(one) = 1
  OBVIOUS
<1> HIDE DEF one
<1>8. DraftsOK(one \o drafts) /\ Len(one \o drafts) = 1 + Len(drafts)
  BY <1>5, <1>6, <1>7, DraftsJoined DEF one
<1>9. AttemptEventsOf(one \o drafts) = {} /\ Observed(one \o drafts) = {}
  BY <1>5, <1>6, QuietJoined DEF DraftsOK, one
<1>10. one \o drafts # <<>>
  <2>1. Len(drafts) \in Nat
    BY <1>6, LenProperties DEF DraftsOK
  <2>2. Len(one \o drafts) # 0
    BY <1>8, <2>1
  <2> QED
    BY <2>2, EmptySeq
<1>11. DraftsOK(all) /\ all # <<>> /\ AttemptEventsOf(all) = {} /\ Observed(all) = {}
  BY <1>8, <1>9, <1>10 DEF one
<1>e. drafts # <<>> => all[Len(all)].type = "task_blocked"
  <2> DEFINE b == Event("task_blocked")
             h == <<e>>
             l == <<b>>
             S == {e, b}
  <2>1. b.type = "task_blocked" /\ (drafts = <<>> \/ drafts = l)
    BY DEF Event
  <2> HIDE DEF b
  <2>2. Len(h) = 1 /\ Len(l) = 1 /\ l[1] = b /\ h \in Seq(S) /\ l \in Seq(S)
    OBVIOUS
  <2> HIDE DEF h, l, S
  <2>5. /\ Len(h \o l) = Len(h) + Len(l)
        /\ \A i \in 1 .. Len(h) + Len(l) :
               (h \o l)[i] = IF i <= Len(h) THEN h[i] ELSE l[i - Len(h)]
    BY <2>2, ConcatProperties
  <2>3. Len(h \o l) = 2 /\ (h \o l)[2] = l[1]
    BY <2>2, <2>5
  <2>4. drafts = l => all = h \o l
    BY DEF h
  <2> HIDE DEF all
  <2> QED
    BY <2>1, <2>2, <2>3, <2>4
<1> DEFINE ends ==
        /\ task.cancelRequested => view.task.cancelRequested
        /\ task.status \in Terminal =>
               \/ task.status = view.task.status
               \/ task.status = "blocked" /\ drafts # <<>>
<1> HIDE DEF all
<1>12. /\ Numbered(c, view.task) /\ Carries(c, task, all, NoVal)
       /\ ends => Ends(c, view.task)
  <2>1. TerminalEvent["blocked"] = "task_blocked"
    BY DEF TerminalEvent
  <2> QED
    BY <1>1, <1>11, <1>e, <2>1, IterationNumbered
<1> HIDE DEF c, u, ends
<1>13. /\ decided.base = c.base /\ decided.task = c.task /\ decided.drafts = c.drafts
       /\ decided.create = c.create /\ decided.update = {u} /\ decided.snap = c.snap
  BY <1>3, <1>12 DEF Numbered, CommitType
<1>14. Numbered(decided, view.task) /\ (ends => Ends(decided, view.task))
  BY <1>1, <1>12, <1>13 DEF Numbered, CommitOK, Ends
<1> HIDE DEF decided
<1>15. /\ Numbered(decided, view.task) /\ CommitOK(decided)
       /\ ends => Ends(decided, view.task)
       /\ AttemptEventsOf(decided.drafts) = {} /\ Observed(decided.drafts) = {}
       /\ decided.task.status = task.status /\ SameMeans(decided.task, task)
       /\ decided.create = {} /\ decided.update = {u} /\ decided.snap = NoVal
  BY <1>1, <1>11, <1>12, <1>13, <1>14 DEF Carries
<1> QED
  BY <1>15 DEF decided, u, pending, ends

LEMMA ViewLedger ==
    ASSUME LedgerInv, NEW o \in Operators
    PROVE  LET view == command[o].view
           IN  /\ TypeInv /\ StoreOK(view) /\ view.task \in TaskRecord
               /\ view.journal \in Seq(EventRecord)
               /\ view.checkpoint.state \in States \cup {NoVal}
               /\ command[o].name \in {"approve", "deny"} => Pending(view.approvals) # {}
               /\ command[o].name = "resolve" => UnresolvedAttempt(view.journal) # NoId
               /\ command[o].name # "none" /\ Newest(store, view.task) => view = store
               /\ store.journal \in Seq(EventRecord) /\ AttemptsInOrder(store.journal)
<1>1. /\ TypeInv /\ CommandInLedger(store, command[o]) /\ AttemptsInOrder(store.journal)
      /\ CommandOK(command[o]) /\ store.journal \in Seq(EventRecord)
  BY DEF LedgerInv, TypeInv, StoreOK, StoreType
<1> QED
  BY <1>1, ViewFacts DEF CommandInLedger, CommandOK

(* A command that is about no attempt. *)
LEMMA QuietConcludeLedger ==
    ASSUME LedgerInv, AtMostOnceInv', NEW o \in Operators, NEW c, NEW t, Numbered(c, t),
           AttemptEventsOf(c.drafts) = {}, Conclude(o, c)
    PROVE  LedgerInv' /\ LedgerStep
  BY QuietWrites, ConcludeLedger

LEMMA ReadLedger ==
    ASSUME LedgerInv, AtMostOnceInv', NEW o \in Operators, NEW name \in Commands, Read(o, name)
    PROVE  LedgerInv' /\ LedgerStep
<1>1. PICK asked \in Named(name) :
          command' = [command EXCEPT ![o] = [name |-> name, view |-> store, asked |-> asked]]
  BY DEF Read
<1> DEFINE q == [name |-> name, view |-> store, asked |-> asked]
<1>2. /\ command' = [command EXCEPT ![o] = q] /\ q.view = store
      /\ UNCHANGED <<store, proc, effects>>
  BY <1>1 DEF Read
<1> HIDE DEF q
<1>3. /\ DOMAIN command = Operators /\ Newest(store, store.task)
      /\ store.task.sequence \in Nat
      /\ \A p \in Operators : CommandInLedger(store, command[p])
  BY DEF LedgerInv, TypeInv, StoreOK, StoreType, TaskRecord
<1>4. CommandInLedger(store, q)
  BY <1>2, <1>3 DEF CommandInLedger, Newest
<1>5. \A p \in Operators : CommandInLedger(store', command'[p])
  BY <1>2, <1>3, <1>4
<1>6. /\ (\A r \in Runners : SessionInLedger(store, proc[r]))'
      /\ EffectsStarted' /\ SuccessesCarriedOut' /\ Backed(store.journal)' /\ LedgerStep
  BY <1>2 DEF LedgerInv, EffectsStarted, SuccessesCarriedOut, Backed, CarriedOut, LedgerStep, Ledger!ledger
<1> QED
  BY <1>2, <1>5, <1>6 DEF LedgerInv, AtMostOnceInv

(* The other commands are about no attempt, and keep the budget and the     *)
(* checkpoint.  An approval or a denial decides one pending request; a      *)
(* denial blocks the task, and an approval makes the request its authority. *)
DecisionCommit(o, c) ==
    LET view == command[o].view
    IN  /\ Conclude(o, c) /\ CommitOK(c) /\ Numbered(c, view.task)
        /\ AttemptEventsOf(c.drafts) = {} /\ c.create = {}
        /\ c.task.spend = view.task.spend
        /\ Ends(c, view.task) /\ Saves(c, view.checkpoint.state)
        /\ \/ /\ command[o].name = "cancel" /\ c.task.status = "cancelled"
              /\ SameMeans(c.task, view.task) /\ c.update = {}
           \/ /\ command[o].name = "deny" /\ c.task.status = "blocked"
              /\ SameMeans(c.task, view.task)
              /\ \E pending \in Pending(view.approvals) :
                     c.update = {[pending EXCEPT !.status = "denied"]}
           \/ /\ command[o].name = "approve" /\ c.task.status = view.task.status
              /\ \E pending \in Pending(view.approvals) :
                     /\ c.update = {[pending EXCEPT !.status = "approved"]}
                     /\ c.task.approvedId = pending.id /\ c.task.approvedAction = pending.act

LEMMA ApproveCommits ==
    ASSUME TypeInv, NEW o \in Operators, Approve(o)
    PROVE  \E c : DecisionCommit(o, c)
<1> DEFINE view    == command[o].view
           pending == CHOOSE a \in Pending(view.approvals) : TRUE
           task    == [view.task EXCEPT !.approvedAction = pending.act, !.approvedId = pending.id]
           c       == Decide(view, "approved", task, <<>>)
           u       == [pending EXCEPT !.status = "approved"]
<1>1. /\ StoreOK(view) /\ view.task \in TaskRecord /\ Pending(view.approvals) # {}
      /\ command[o].name = "approve"
  <2>1. CommandOK(command[o]) /\ command[o].name = "approve"
    BY DEF TypeInv, Approve
  <2> QED
    BY <2>1, ViewFacts DEF CommandOK
<1>2. pending \in Pending(view.approvals) /\ pending.act \in Acts /\ pending.id \in Nat
  <2>1. pending \in Pending(view.approvals) /\ pending \in ApprovalRecord
    BY <1>1 DEF Pending, StoreOK, StoreType
  <2> QED
    BY <2>1 DEF ApprovalRecord
<1>3. Conclude(o, c)
  BY DEF Approve
<1>4. /\ Numbered(c, view.task) /\ CommitOK(c) /\ AttemptEventsOf(c.drafts) = {}
      /\ c.task.status = task.status /\ SameMeans(c.task, task)
      /\ c.create = {} /\ c.update = {u}
      /\ Ends(c, view.task) /\ Saves(c, view.checkpoint.state)
  <2>1. /\ task \in TaskRecord /\ task.status = view.task.status
        /\ task.cancelRequested = view.task.cancelRequested
    <3> HIDE DEF pending
    <3> QED
      BY <1>1, <1>2 DEF TaskRecord
  <2>2. c.update = {u}
    BY DEF Decide
  <2> HIDE DEF pending, u, task, view
  <2>3. Numbered(c, view.task) /\ AttemptEventsOf(c.drafts) = {}
    BY <1>1, <2>1, DecideNumbered
  <2>4. CommitOK(c)
    BY <1>1, <2>1, DecideNumbered
  <2>5. c.task.status = task.status
    BY <2>1 DEF Decide, IterationCommit, TaskRecord
  <2>6. SameMeans(c.task, task)
    BY <1>1, <2>1, DecideNumbered
  <2>7. c.create = {}
    BY <1>1, <2>1, DecideNumbered
  <2>8. Ends(c, view.task)
    BY <1>1, <2>1, DecideNumbered
  <2>9. Observed(c.drafts) = {} /\ c.snap = NoVal
    BY <1>1, <2>1, DecideNumbered
  <2>10. Saves(c, view.checkpoint.state)
    BY <2>9 DEF Saves, ShowsLast
  <2> QED
    BY <2>2, <2>3, <2>4, <2>5, <2>6, <2>7, <2>8, <2>10
<1>5. /\ task.status = view.task.status /\ task.approvedId = pending.id
      /\ task.approvedAction = pending.act /\ task.spend = view.task.spend
  <2> HIDE DEF pending
  <2> QED
    BY <1>1 DEF TaskRecord
<1> HIDE DEF c, task
<1>6. DecisionCommit(o, c)
  <2> HIDE DEF pending
  <2> QED
    BY <1>1, <1>2, <1>3, <1>4, <1>5 DEF DecisionCommit, SameMeans
<1> QED
  BY <1>6

LEMMA DenyCommits ==
    ASSUME TypeInv, NEW o \in Operators, Deny(o)
    PROVE  \E c : DecisionCommit(o, c)
<1> DEFINE view    == command[o].view
           pending == CHOOSE a \in Pending(view.approvals) : TRUE
           task    == [view.task EXCEPT !.status = "blocked"]
           s       == view.checkpoint.state
           c       == Decide(view, "denied", task, <<Event("task_blocked")>>)
           u       == [pending EXCEPT !.status = "denied"]
           b       == WithSnapshot(c, s)
<1>1. /\ StoreOK(view) /\ view.task \in TaskRecord /\ Pending(view.approvals) # {}
      /\ s \in States \cup {NoVal} /\ command[o].name = "deny"
  <2>1. CommandOK(command[o]) /\ command[o].name = "deny"
    BY DEF TypeInv, Deny
  <2> QED
    BY <2>1, ViewFacts DEF CommandOK
<1>2. pending \in Pending(view.approvals)
  BY <1>1
<1>3. /\ task \in TaskRecord /\ task.status = "blocked" /\ SameMeans(task, view.task)
      /\ task.cancelRequested = view.task.cancelRequested
  <2> HIDE DEF view
  <2> QED
    BY <1>1 DEF TaskRecord, Statuses, Transitions, SameMeans
<1>4. Conclude(o, b)
  BY DEF Deny
<1> HIDE DEF task, s
<1>5. /\ Numbered(c, view.task) /\ CommitOK(c) /\ AttemptEventsOf(c.drafts) = {}
      /\ c.task.status = task.status /\ SameMeans(c.task, task)
      /\ c.create = {} /\ c.update = {u}
      /\ Ends(c, view.task) /\ Observed(c.drafts) = {}
  <2> HIDE DEF view
  <2> QED
    BY <1>1, <1>3, DecideNumbered
<1> HIDE DEF c
<1>6. /\ b.base = c.base /\ b.task = c.task /\ b.drafts = c.drafts
      /\ b.create = c.create /\ b.update = c.update /\ CommitOK(b) /\ b.snap = s
  BY <1>1, <1>5 DEF WithSnapshot, Numbered, CommitOK, CommitType
<1> HIDE DEF b, pending
<1>7. Numbered(b, view.task) /\ Ends(b, view.task) /\ Saves(b, view.checkpoint.state)
  BY <1>5, <1>6 DEF Numbered, CommitOK, Ends, Saves, ShowsLast, s
<1>8. DecisionCommit(o, b)
  BY <1>1, <1>2, <1>3, <1>4, <1>5, <1>6, <1>7 DEF DecisionCommit, SameMeans
<1> QED
  BY <1>8

LEMMA CancelCommits ==
    ASSUME TypeInv, NEW o \in Operators, Cancel(o)
    PROVE  \E c : DecisionCommit(o, c)
<1> DEFINE view  == command[o].view
           task  == [view.task EXCEPT !.cancelRequested = TRUE]
           s     == view.checkpoint.state
           c     == TerminalCommit(view.task, task, "cancelled", <<>>, s)
           ended == [task EXCEPT !.status = "cancelled"]
           all   == Append(<<>>, Event(TerminalEvent["cancelled"]))
<1>1. view.task \in TaskRecord /\ s \in States \cup {NoVal}
  BY ViewFacts
<1>2. task \in TaskRecord /\ SameMeans(task, view.task)
  <2> HIDE DEF view
  <2> QED
    BY <1>1 DEF TaskRecord, SameMeans
<1>3. Conclude(o, c) /\ command[o].name = "cancel"
  BY DEF Cancel
<1> HIDE DEF task, s
<1>4. /\ Numbered(c, view.task) /\ Carries(c, ended, all, s) /\ ended.status = "cancelled"
      /\ SameMeans(ended, task) /\ Ends(c, view.task)
  <2> HIDE DEF view
  <2> QED
    BY <1>1, <1>2, NoteFacts, TerminalWords, TerminalNumbered
<1>5. AttemptEventsOf(c.drafts) = {} /\ \A before : ShowsLast(c.drafts, before, before)
  <2> HIDE DEF view
  <2> QED
    BY <1>1, <1>2, NoteFacts, PlainDrafts, TerminalWords, TerminalQuiet
<1> HIDE DEF c, ended, all
<1>6. DecisionCommit(o, c)
  BY <1>2, <1>3, <1>4, <1>5 DEF DecisionCommit, Carries, SameMeans, Saves, s
<1> QED
  BY <1>6

LEMMA DecisionLedger ==
    ASSUME LedgerInv, AtMostOnceInv', NEW o \in Operators, NEW c, DecisionCommit(o, c)
    PROVE  LedgerInv' /\ LedgerStep
  BY QuietConcludeLedger DEF DecisionCommit

(* A reconciliation pays for a recovered success, and checkpoints what the *)
(* operator observed, if anything.                                         *)
Reconciles(c, view, id) ==
    /\ Pays(c, view.task, id, Cost[AttemptAction(view.journal, id)])
    /\ \A k \in AttemptEventsOf(c.drafts) : c.drafts[k].type = "action_reconciled"
    /\ Ends(c, view.task) /\ Saves(c, view.checkpoint.state)

(* What an operator resolves is the attempt that is open; the task goes on  *)
(* as it is, or is blocked, and without an authority.                      *)
ResolveCommit(o, c) ==
    LET view == command[o].view
    IN  /\ command[o].name = "resolve" /\ Conclude(o, c)
        /\ CommitOK(c) /\ Numbered(c, view.task) /\ c.create = {} /\ c.update = {}
        /\ c.task.approvedId = NoId /\ c.task.approvedAction = NoVal
        /\ \/ c.task.status = view.task.status
           \/ c.task.status = "blocked" /\ CanMove(view.task.status, "blocked")
        /\ Newest(store, view.task) =>
               Resolves(store.journal, c.drafts, UnresolvedAttempt(view.journal))
        /\ Reconciles(c, view, UnresolvedAttempt(view.journal))

LEMMA ResolveCommits ==
    ASSUME LedgerInv, NEW o \in Operators, Resolve(o)
    PROVE  \E c : ResolveCommit(o, c)
<1> DEFINE view      == command[o].view
           j         == store.journal
           id        == UnresolvedAttempt(view.journal)
           cleared   == WithoutAuthority(view.task)
           event     == AttemptEvent("action_reconciled", id)
           closed(x) == [event EXCEPT !.res = x]
           result(s) == ExpectedResult(view, id, s)
           charge(s) == RecoveredCost(view, id, result(s))
           paid(s)   == [cleared EXCEPT !.spend = @ + charge(s)]
           seen(s, x) == <<ObservationEvent(s), closed(x)>>
           done(s)   == IterationCommit(view.task, paid(s), seen(s, result(s)))
           skipped   == IterationCommit(view.task, cleared, <<closed("not_executed")>>)
           ended     == TerminalCommit(view.task, cleared, "blocked", <<closed("abandoned")>>,
                                       view.checkpoint.state)
           Results   == {"success", "failure", "not_executed", "abandoned"}
           unspent(t) == t.approvedId = NoId /\ t.approvedAction = NoVal
<1>1. /\ TypeInv /\ view.task \in TaskRecord /\ view.checkpoint.state \in States \cup {NoVal}
      /\ j \in Seq(EventRecord) /\ AttemptsInOrder(j)
      /\ view.journal \in Seq(EventRecord) /\ NamesActions(view.journal)
      /\ id # NoId /\ (Newest(store, view.task) => view = store)
  BY ViewLedger, ViewFacts DEF Resolve
<1>2. id \in Nat /\ AttemptAction(view.journal, id) \in Acts
  BY <1>1, UnresolvedAttemptNat, UnresolvedAttemptNamesAction
<1>3. /\ cleared \in TaskRecord /\ cleared.spend \in Nat
      /\ cleared.status = view.task.status /\ unspent(cleared)
      /\ cleared.spend = view.task.spend
      /\ cleared.cancelRequested = view.task.cancelRequested
  <2> HIDE DEF view
  <2> QED
    BY <1>1, WithoutAuthorityType DEF TaskRecord, WithoutAuthority
<1>4. \/ \E s \in States : result(s) # "none" /\ Conclude(o, WithSnapshot(done(s), s))
      \/ Conclude(o, skipped)
      \/ Conclude(o, ended) /\ CanMove(view.task.status, "blocked")
  BY DEF Resolve
<1>5. ASSUME Newest(store, view.task)
      PROVE  id \in Prepared(j) \ ClosedIn(j)
  BY <1>1, <1>5, UnresolvedIsOpen
<1> HIDE DEF id, cleared
<1>6. ASSUME NEW x \in Results
      PROVE  /\ Draft(closed(x)) /\ closed(x).type = "action_reconciled" /\ closed(x).id = id
             /\ closed(x).res = x
  <2>1. Draft(closed(x))
    BY <1>2, <1>6, EventTypes, AttemptDraft
  <2> QED
    BY <2>1 DEF AttemptEvent, Event
<1> HIDE DEF closed
<1>7. ASSUME NEW x \in Results, NEW s \in States
      PROVE  /\ DraftsOK(<<closed(x)>>) /\ DraftsOK(seen(s, x))
             /\ <<closed(x)>> # <<>> /\ seen(s, x) # <<>>
  BY <1>6, <1>7, ObservationDraft, DraftSequences
<1>8. ASSUME Newest(store, view.task), NEW x \in Results, NEW p, p.type \notin AttemptEvents,
             NEW d, d = <<closed(x)>> \/ d = <<p, closed(x)>>
      PROVE  Resolves(j, d, id)
  <2> DEFINE f == [AttemptEvent("action_execution_confirmed", id) EXCEPT !.res = "failure"]
  <2>1. f.type = "action_execution_confirmed" /\ f.id = id /\ f.res = "failure"
    BY DEF AttemptEvent, Event
  <2> HIDE DEF f, j
  <2>2. closed(x).type \in ClosingTypes /\ closed(x).id = id /\ closed(x).res # "never_started"
    BY <1>6, <1>8 DEF ClosingTypes
  <2>3. id \in Prepared(j) \ ClosedIn(j)
    BY <1>5, <1>8
  <2> QED
    BY <1>8, <2>1, <2>2, <2>3, ResolvingWrites DEF Resolves
<1>s. ASSUME NEW x \in Results, NEW p, p.type \notin AttemptEvents,
             NEW d, d = <<closed(x)>> \/ d = <<p, closed(x)>>
      PROVE  /\ Settles(d, id) /\ (Charged(d) = {} <=> x # "success")
             /\ \A k \in AttemptEventsOf(d) : d[k].type = "action_reconciled"
             /\ p.type # "observation_recorded" => Observed(d) = {}
             /\ d = <<p, closed(x)>> /\ p.type = "observation_recorded" =>
                    \A before : ShowsLast(d, before, p.state)
  <2> DEFINE e == closed(x)
  <2>1. e.type = "action_reconciled" /\ e.id = id /\ e.res = x
    BY <1>6, <1>s
  <2>2. \A k \in DOMAIN d : d[k] = e \/ d[k] = p
    <3>1. CASE d = <<e>>
      BY <3>1
    <3>2. CASE d = <<p, e>>
      <4>1. DOMAIN d = 1 .. 2 /\ d[1] = p /\ d[2] = e
        BY <3>2
      <4> QED
        BY <4>1
    <3> QED
      BY <1>s, <3>1, <3>2
  <2>3. d = <<p, e>> => 1 \in DOMAIN d /\ d[1] = p
    OBVIOUS
  <2> HIDE DEF e, id
  <2>4. Settles(d, id) /\ (Charged(d) = {} <=> x # "success")
    BY <1>s, <2>1, SettledByOne DEF SettlingTypes, e
  <2>5. \A k \in AttemptEventsOf(d) : d[k].type = "action_reconciled"
    BY <1>s, <2>1, <2>2 DEF AttemptEventsOf
  <2>6. p.type # "observation_recorded" => Observed(d) = {}
    BY <2>1, <2>2 DEF Observed
  <2>7. ASSUME d = <<p, e>>, p.type = "observation_recorded", NEW before
        PROVE  ShowsLast(d, before, p.state)
    <3>1. 1 \in Observed(d)
      BY <2>3, <2>7 DEF Observed
    <3>2. \A k \in Observed(d) : d[k] = p
      BY <2>1, <2>2 DEF Observed
    <3> QED
      BY <3>1, <3>2 DEF ShowsLast
  <2> QED
    BY <2>4, <2>5, <2>6, <2>7 DEF e
<1>9. ASSUME NEW c, Conclude(o, c), Numbered(c, view.task), CommitOK(c),
             c.create = {}, c.update = {}, unspent(c.task),
             \/ c.task.status = view.task.status
             \/ c.task.status = "blocked" /\ CanMove(view.task.status, "blocked"),
             Newest(store, view.task) => Resolves(j, c.drafts, id),
             Reconciles(c, view, id)
      PROVE  ResolveCommit(o, c)
  BY <1>9 DEF ResolveCommit, Resolve, id
<1>10. /\ Event("note").type \notin AttemptEvents /\ Event("note").type # "observation_recorded"
       /\ \A s \in States : /\ ObservationEvent(s).type \notin AttemptEvents
                            /\ ObservationEvent(s).type = "observation_recorded"
                            /\ ObservationEvent(s).state = s
  BY PlainEvents DEF Plain, Event, ObservationEvent
<1> DEFINE price == Cost[AttemptAction(view.journal, id)]
<1> HIDE DEF j
<1>11. ASSUME NEW s \in States, result(s) # "none", Conclude(o, WithSnapshot(done(s), s))
       PROVE  \E c : ResolveCommit(o, c)
  <2>1. result(s) \in Results
    BY <1>11 DEF ExpectedResult
  <2>2. charge(s) \in Nat /\ charge(s) = IF result(s) = "success" THEN price ELSE 0
    BY <1>2, TaskAssumption DEF RecoveredCost, id
  <2> HIDE DEF result, charge, price
  <2>3. /\ paid(s) \in TaskRecord /\ paid(s).status = view.task.status /\ unspent(paid(s))
        /\ paid(s).spend = view.task.spend + charge(s)
        /\ paid(s).cancelRequested = view.task.cancelRequested
    <3> HIDE DEF view
    <3> QED
      BY <1>3, <2>2 DEF TaskRecord
  <2>3a. paid(s).spend = IF result(s) = "success" THEN view.task.spend + price ELSE view.task.spend
    <3>1. view.task.spend \in Nat
      BY <1>3
    <3> DEFINE n == view.task.spend
    <3> HIDE DEF n
    <3> QED
      BY <2>2, <2>3, <3>1 DEF n
  <2> DEFINE d == seen(s, result(s))
             t == paid(s)
  <2>4. DraftsOK(d) /\ d # <<>>
    BY <1>7, <2>1
  <2>5. Newest(store, view.task) => Resolves(j, d, id)
    BY <1>8, <1>10, <2>1
  <2>5a. /\ Settles(d, id) /\ (Charged(d) = {} <=> result(s) # "success")
         /\ \A k \in AttemptEventsOf(d) : d[k].type = "action_reconciled"
         /\ \A before : ShowsLast(d, before, s)
    BY <1>10, <1>s, <2>1
  <2>5b. s # NoVal
    BY NoValAssumption
  <2> HIDE DEF d, t, view
  <2>6. /\ Numbered(IterationCommit(view.task, t, d), view.task)
        /\ Carries(IterationCommit(view.task, t, d), t, d, NoVal)
        /\ Ends(IterationCommit(view.task, t, d), view.task)
    BY <1>1, <2>3, <2>4, IterationNumbered DEF t
  <2> DEFINE c == IterationCommit(view.task, t, d)
  <2>7. Conclude(o, WithSnapshot(c, s))
    BY <1>11 DEF d, t
  <2> HIDE DEF c
  <2>8. /\ Numbered(WithSnapshot(c, s), view.task) /\ Carries(WithSnapshot(c, s), t, d, s)
        /\ Ends(WithSnapshot(c, s), view.task)
    BY <2>6, SnapshotNumbered DEF c
  <2> DEFINE b == WithSnapshot(c, s)
  <2>8a. Numbered(b, view.task) /\ Carries(b, t, d, s) /\ Conclude(o, b) /\ Ends(b, view.task)
    BY <2>7, <2>8
  <2> HIDE DEF b
  <2>8b. b.task.spend = paid(s).spend /\ b.drafts = d /\ b.snap = s
    BY <2>8a DEF Carries, SameMeans, t
  <2>8c. b.task.spend = IF Charged(b.drafts) = {} THEN view.task.spend ELSE view.task.spend + price
    BY <2>3a, <2>5a, <2>8b
  <2>8d. Reconciles(b, view, id)
    BY <2>5a, <2>5b, <2>8a, <2>8b, <2>8c DEF Reconciles, Pays, Saves, price
  <2>9. /\ b.drafts = d /\ CommitOK(b) /\ b.create = {} /\ b.update = {}
        /\ b.task.status = view.task.status /\ unspent(b.task)
    BY <2>3, <2>8a DEF Carries, SameMeans, t
  <2>10. ResolveCommit(o, b)
    BY <1>9, <2>5, <2>8a, <2>8d, <2>9
  <2> QED
    BY <2>10
<1>12. ASSUME Conclude(o, skipped)
       PROVE  \E c : ResolveCommit(o, c)
  <2> DEFINE d == <<closed("not_executed")>>
  <2>1. DraftsOK(d) /\ d # <<>>
    <3>1. \A x \in Results : DraftsOK(<<closed(x)>>) /\ <<closed(x)>> # <<>>
      BY <1>6, DraftSequences
    <3> QED
      BY <3>1
  <2>2. Newest(store, view.task) => Resolves(j, d, id)
    BY <1>8, <1>10
  <2>2a. /\ Settles(d, id) /\ Charged(d) = {}
         /\ \A k \in AttemptEventsOf(d) : d[k].type = "action_reconciled"
         /\ Observed(d) = {}
    BY <1>10, <1>s
  <2> HIDE DEF d, view, price
  <2> DEFINE c == IterationCommit(view.task, cleared, d)
  <2>3. Numbered(c, view.task) /\ Carries(c, cleared, d, NoVal) /\ Ends(c, view.task)
    BY <1>1, <1>3, <2>1, IterationNumbered
  <2>4. Conclude(o, c)
    BY <1>12 DEF d
  <2> HIDE DEF c
  <2>4a. /\ c.task.spend = view.task.spend /\ c.drafts = d /\ c.snap = NoVal
    BY <1>3, <2>3 DEF Carries, SameMeans
  <2>4b. Reconciles(c, view, id)
    BY <2>2a, <2>3, <2>4a DEF Reconciles, Pays, Saves, ShowsLast
  <2>5. /\ c.drafts = d /\ CommitOK(c) /\ c.create = {} /\ c.update = {}
        /\ c.task.status = view.task.status /\ unspent(c.task)
    BY <1>3, <2>3 DEF Carries, SameMeans
  <2>6. ResolveCommit(o, c)
    BY <1>9, <2>2, <2>3, <2>4, <2>4b, <2>5
  <2> QED
    BY <2>6
<1>13. ASSUME Conclude(o, ended), CanMove(view.task.status, "blocked")
       PROVE  \E c : ResolveCommit(o, c)
  <2> DEFINE d == <<closed("abandoned")>>
             s == view.checkpoint.state
  <2>1. DraftsOK(d) /\ d # <<>>
    <3>1. \A x \in Results : DraftsOK(<<closed(x)>>) /\ <<closed(x)>> # <<>>
      BY <1>6, DraftSequences
    <3> QED
      BY <3>1
  <2>2. Newest(store, view.task) => Resolves(j, d, id)
    BY <1>8, <1>10
  <2>2a. /\ Settles(d, id) /\ Charged(d) = {}
         /\ \A k \in AttemptEventsOf(d) : d[k].type = "action_reconciled"
         /\ Observed(d) = {}
    BY <1>10, <1>s
  <2> HIDE DEF d, view, s, price
  <2> DEFINE c   == TerminalCommit(view.task, cleared, "blocked", d, s)
             t   == [cleared EXCEPT !.status = "blocked"]
             all == Append(d, Event(TerminalEvent["blocked"]))
  <2>3. /\ Numbered(c, view.task)
        /\ Resolves(j, d, id) => Resolves(j, c.drafts, id)
        /\ Settles(c.drafts, id) /\ Charged(c.drafts) = {}
        /\ AttemptEventsOf(c.drafts) = AttemptEventsOf(d)
        /\ \A k \in AttemptEventsOf(d) : c.drafts[k] = d[k]
        /\ \A before, after :
               ShowsLast(d, before, after) => ShowsLast(c.drafts, before, after)
    BY <1>1, <1>3, <2>1, <2>2a, TerminalWords, ResolvingEnds DEF s
  <2>3a. /\ Carries(c, t, all, s) /\ t.status = "blocked" /\ SameMeans(t, cleared)
         /\ Ends(c, view.task)
    <3>1. s \in States \cup {NoVal}
      BY <1>1 DEF s
    <3> QED
      BY <1>1, <1>3, <2>1, <3>1, TerminalWords, TerminalNumbered
  <2>4. Conclude(o, c) /\ CanMove(view.task.status, "blocked")
    BY <1>13 DEF d, s, view
  <2> HIDE DEF c, t, all
  <2>5. /\ CommitOK(c) /\ c.create = {} /\ c.update = {}
        /\ c.task.status = "blocked" /\ unspent(c.task)
    BY <1>3, <2>3a DEF Carries, SameMeans
  <2>5a. /\ c.task.spend = view.task.spend /\ c.snap = s
         /\ \A before : ShowsLast(c.drafts, before, before)
    BY <1>3, <2>2a, <2>3, <2>3a DEF Carries, SameMeans, ShowsLast
  <2>5b. Reconciles(c, view, id)
    BY <2>2a, <2>3, <2>3a, <2>5a DEF Reconciles, Pays, Saves, s
  <2>6. ResolveCommit(o, c)
    BY <1>9, <2>2, <2>3, <2>4, <2>5, <2>5b
  <2> QED
    BY <2>6
<1> QED
  BY <1>4, <1>11, <1>12, <1>13

LEMMA ResolveLedger ==
    ASSUME LedgerInv, AtMostOnceInv', NEW o \in Operators, Resolve(o)
    PROVE  LedgerInv' /\ LedgerStep
<1>1. PICK c : ResolveCommit(o, c)
  BY ResolveCommits
<1>2. /\ Conclude(o, c) /\ Numbered(c, command[o].view.task)
      /\ Newest(store, command[o].view.task) =>
             Writes(store.journal, c.drafts) /\ Backed(c.drafts)
  BY <1>1 DEF ResolveCommit, Resolves
<1> QED
  BY <1>2, ConcludeLedger

--------------------------------------------------------------------------------
(* The theorems. *)

LEMMA LedgerInvInit == Init => LedgerInv /\ Ledger!LedgerInit
<1> SUFFICES ASSUME Init PROVE LedgerInv /\ Ledger!LedgerInit
  OBVIOUS
<1> DEFINE j == store.journal
<1>1. /\ TypeInv /\ store = CreatedStore /\ effects = <<>>
      /\ \A r \in Runners : proc[r] = Idle
      /\ \A o \in Operators : command[o] = NoCommand
  BY TypeInvInit DEF Init
<1>2. j = <<Event("task_created")>> /\ store.task = NewTask
  BY <1>1 DEF CreatedStore
<1>3. /\ j \in Seq(EventRecord) /\ Len(j) = 1 /\ DOMAIN j = {1}
      /\ j[1].type = "task_created" /\ j # <<>>
  <2>1. j \in Seq(EventRecord)
    BY <1>1 DEF TypeInv, StoreOK, StoreType
  <2>2. Event("task_created").type = "task_created"
    BY DEF Event
  <2> QED
    BY <1>2, <2>1, <2>2, OneEvent
<1> HIDE DEF j
<1>4. AttemptEventsOf(j) = {}
  BY <1>3, EventTypes DEF AttemptEventsOf
<1>5. /\ Prepared(j) = {} /\ Starts(j) = {} /\ Closings(j) = {} /\ Voidings(j) = {}
      /\ Attempts(j) = {} /\ StartedIn(j) = {} /\ ClosedIn(j) = {}
      /\ AttemptsAt(j, Voidings(j)) = {}
  BY <1>4, NoAttemptEvents
<1>6. AttemptsInOrder(j)
  BY <1>3, <1>4, <1>5 DEF AttemptsInOrder
<1>7. Newest(store, store.task)
  BY <1>2, <1>3 DEF Newest, NewTask, j
<1>8. \A r \in Runners : SessionInLedger(store, proc[r])
  BY <1>1, <1>3, <1>6, IdleInLedger DEF j
<1>9. \A o \in Operators : CommandInLedger(store, command[o])
  BY <1>1 DEF CommandInLedger, NoCommand
<1>10. DOMAIN effects = {}
  BY <1>1
<1>11. Backed(j)
  BY <1>3 DEF Backed
<1>12. /\ AttemptsHeldOnce /\ ExecutedAtMostOnce /\ EffectsStarted /\ SuccessesCarriedOut
  <2>1. Idle.pc = "idle"
    BY DEF Idle
  <2> QED
    BY <1>1, <1>10, <2>1 DEF AttemptsHeldOnce, ExecutedAtMostOnce, EffectsStarted, SuccessesCarriedOut, Holding
<1>13. LedgerInv
  BY <1>1, <1>6, <1>7, <1>8, <1>9, <1>11, <1>12 DEF LedgerInv, j
<1>14. Ledger!LedgerInit
  BY <1>5, <1>10 DEF Ledger!LedgerInit, StartedIn, ClosedIn, j
<1> QED
  BY <1>13, <1>14

LEMMA LedgerInvStep == LedgerInv /\ [Next]_vars => LedgerInv' /\ LedgerStep
<1> SUFFICES ASSUME LedgerInv, [Next]_vars PROVE LedgerInv' /\ LedgerStep
  OBVIOUS
<1>0. TypeInv
  BY DEF LedgerInv
<1>1. AtMostOnceInv'
  BY AtMostOnceStep DEF LedgerInv, AtMostOnceInv
<1>2. ASSUME NEW r \in Runners, Resume(r) \/ Step(r) \/ Crash(r)
      PROVE  LedgerInv' /\ LedgerStep
  BY <1>1, <1>2, LedgerFacts, OpeningLedger, GateLedger, StartPendingCommit, StartWaitingCommit,
     RefreshCommit, InitializationFailureCommit, StartLedger, IterateLedger, PrepareLedger,
     StartExecutionLedger, ExecuteLedger, ConfirmCommit, ErrorCommit, ResolvingLedger,
     AdapterRaisesLedger,
     ShutdownLedger, CrashLedger
  DEF Step, Transact
<1>3. ASSUME NEW o \in Operators, Operate(o)
      PROVE  LedgerInv' /\ LedgerStep
  BY <1>0, <1>1, <1>3, ReadLedger, ApproveCommits, DenyCommits, CancelCommits, DecisionLedger,
     ResolveLedger DEF Operate
<1>4. CASE Drift \/ UNCHANGED vars
  <2>1. UNCHANGED <<store, proc, command, effects>>
    BY <1>4 DEF Drift, vars
  <2> QED
    BY <1>1, <2>1 DEF LedgerInv, AtMostOnceInv, EffectsStarted, SuccessesCarriedOut, Backed,
                      CarriedOut, LedgerStep, Ledger!ledger
<1> QED
  BY <1>2, <1>3, <1>4 DEF Next

(* The journal and the effects of the runtime implement the write-ahead    *)
(* ledger: whatever crashes, restarts, failing transactions, second        *)
(* runners and operator decisions happen, every step is one step of one    *)
(* attempt, or none.                                                       *)
THEOREM LedgerImplemented == Spec => LedgerKept
<1>1. LedgerInv /\ [Next]_vars => LedgerInv' /\ [Ledger!LedgerNext]_(Ledger!ledger)
  BY LedgerInvStep DEF LedgerStep
<1> QED
  BY <1>1, LedgerInvInit, PTL DEF Spec, LedgerKept, Ledger!LedgerSpec

LEMMA LedgerInvariant == Spec => []LedgerInv
<1>1. Init => LedgerInv
  BY LedgerInvInit
<1>2. LedgerInv /\ [Next]_vars => LedgerInv'
  BY LedgerInvStep
<1> QED
  BY <1>1, <1>2, PTL DEF Spec

(* What was carried out was journalled as started before, with its action; *)
(* what the journal confirms was carried out; and the only attempt that    *)
(* can be in doubt is the one prepared last, which is where a resumed      *)
(* session and the operator look for it.                                   *)
THEOREM JournalCovers == Spec => []JournalCoversEffects
<1>1. LedgerInv => JournalCoversEffects
  <2> SUFFICES ASSUME LedgerInv PROVE JournalCoversEffects
    OBVIOUS
  <2> DEFINE j == store.journal
  <2>1. j \in Seq(EventRecord) /\ AttemptsInOrder(j) /\ EffectsStarted /\ Backed(j)
    BY DEF LedgerInv, TypeInv, StoreOK, StoreType
  <2>2. /\ Attempts(j) = Prepared(j) /\ StartedIn(j) \subseteq Prepared(j)
        /\ \A id \in Prepared(j) : AttemptAction(j, id) = j[id].act
    BY <2>1, InOrder
  <2>3. ASSUME NEW i \in DOMAIN effects
        PROVE  /\ effects[i].att \in AttemptsAt(j, Starts(j))
               /\ AttemptAction(j, effects[i].att) = effects[i].act
    BY <2>1, <2>2 DEF EffectsStarted, StartedIn
  <2>4. ASSUME NEW id \in Attempts(j)
        PROVE  AttemptStatus(j, id) \in Resolved \/ id = LatestAttempt(j)
    <3>1. id \in Prepared(j) /\ Prepared(j) \subseteq Nat
      BY <2>1, <2>2, InOrder
    <3>2. LatestAttempt(j) \in Prepared(j) /\ id <= LatestAttempt(j)
      BY <2>1, <3>1, LatestIsLast
    <3>3. id # LatestAttempt(j) => id < LatestAttempt(j)
      BY <3>1, <3>2
    <3> QED
      BY <2>1, <3>1, <3>2, <3>3, StatusResolved DEF AttemptsInOrder
  <2> QED
    BY <2>1, <2>3, <2>4 DEF JournalCoversEffects, Backed, CarriedOut
<1> QED
  BY <1>1, LedgerInvariant, PTL

================================================================================
