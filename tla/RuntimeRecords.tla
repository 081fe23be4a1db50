---------------------------- MODULE RuntimeRecords ----------------------------
(***************************************************************************)
(* What a restart finds: a task row that agrees with the journal on what   *)
(* was spent, and records that can be loaded again.  And what the          *)
(* one-process assumption adds: no effect of an attempt that is resolved.  *)
(***************************************************************************)
EXTENDS RuntimeAuthority

--------------------------------------------------------------------------------
(* The account. *)

(* Balance b is that of the account of a journal. *)
Account(b, journal) ==
    b = [k \in 0 .. Len(journal) |->
            IF k = 0 THEN 0 ELSE b[k - 1] + Charge(journal, k)]

LEMMA OneAccount ==
    ASSUME NEW j, Len(j) \in Nat, NEW b, NEW c, Account(b, j), Account(c, j)
    PROVE  b = c
<1> DEFINE n == Len(j)
           K == {i \in 1 .. n : b[n + 1 - i] # c[n + 1 - i]}
<1>1. /\ b = [k \in 0 .. n |-> IF k = 0 THEN 0 ELSE b[k - 1] + Charge(j, k)]
      /\ c = [k \in 0 .. n |-> IF k = 0 THEN 0 ELSE c[k - 1] + Charge(j, k)]
      /\ n \in Nat
  BY DEF Account
<1> HIDE DEF n
<1>2. /\ \A k \in 0 .. n : b[k] = IF k = 0 THEN 0 ELSE b[k - 1] + Charge(j, k)
      /\ \A k \in 0 .. n : c[k] = IF k = 0 THEN 0 ELSE c[k - 1] + Charge(j, k)
      /\ b = [k \in 0 .. n |-> b[k]] /\ c = [k \in 0 .. n |-> c[k]]
  BY <1>1
<1>3. ASSUME K # {}
      PROVE  FALSE
  <2>1. PICK i \in K : \A l \in K : l <= i
    BY <1>1, <1>3, LastPosition
  <2>2. i \in 1 .. n /\ b[n + 1 - i] # c[n + 1 - i]
    BY <2>1
  <2> DEFINE k == n + 1 - i
  <2>3. k \in 1 .. n /\ b[k] # c[k]
    BY <1>1, <2>2
  <2>4. ASSUME k - 1 # 0
        PROVE  b[k - 1] = c[k - 1]
    <3>1. i + 1 \in 1 .. n /\ n + 1 - (i + 1) = k - 1 /\ ~(i + 1 <= i)
      BY <1>1, <2>2, <2>4
    <3> QED
      BY <2>1, <3>1
  <2>5. k - 1 = 0 => b[k - 1] = c[k - 1]
    BY <1>1, <1>2
  <2> HIDE DEF k
  <2>6. k \in 0 .. n /\ k # 0
    BY <1>1, <2>3
  <2> QED
    BY <1>2, <2>3, <2>4, <2>5, <2>6
<1>4. \A k \in 1 .. n : b[k] = c[k]
  <2>1. ASSUME NEW k \in 1 .. n
        PROVE  b[k] = c[k]
    <3>1. n + 1 - k \in 1 .. n /\ n + 1 - (n + 1 - k) = k
      BY <1>1
    <3> QED
      BY <1>3, <3>1
  <2> QED
    BY <2>1
<1>5. \A k \in 0 .. n : b[k] = c[k]
  <2>1. \A k \in 0 .. n : k = 0 \/ k \in 1 .. n
    BY <1>1
  <2>2. b[0] = c[0]
    BY <1>1, <1>2
  <2> QED
    BY <1>4, <2>1, <2>2
<1> HIDE DEF K
<1> QED
  BY <1>2, <1>5

LEMMA BalancesAre ==
    ASSUME NEW j, Len(j) \in Nat, NEW b, Account(b, j)
    PROVE  Balances(j) = b /\ Accounted(j)
<1> DEFINE u == CHOOSE u : u = [k \in 0 .. Len(j) |->
                                    IF k = 0 THEN 0 ELSE u[k - 1] + Charge(j, k)]
<1>1. Account(u, j)
  BY DEF Account
<1>2. u = b
  BY <1>1, OneAccount
<1>3. Balances(j) = u
  BY DEF Balances
<1> QED
  BY <1>2, <1>3 DEF Account, Accounted

LEMMA ChargedJoined ==
    ASSUME NEW j \in Seq(EventRecord), NEW d \in Seq(EventRecord)
    PROVE  /\ \A k \in DOMAIN j : k \in Charged(j \o d) <=> k \in Charged(j)
           /\ \A k \in DOMAIN d : Len(j) + k \in Charged(j \o d) <=> k \in Charged(d)
           /\ \A k \in Charged(j \o d) :
                  k \in DOMAIN j \/ (k - Len(j) \in DOMAIN d /\ k = Len(j) + (k - Len(j)))
           /\ Charged(j) \subseteq DOMAIN j /\ Charged(d) \subseteq DOMAIN d
<1> DEFINE jd == j \o d
           n  == Len(j)
           m  == Len(d)
<1>1. /\ n \in Nat /\ m \in Nat /\ DOMAIN jd = 1 .. n + m
      /\ DOMAIN j = 1 .. n /\ DOMAIN d = 1 .. m
      /\ \A k \in 1 .. n : jd[k] = j[k]
      /\ \A k \in 1 .. m : jd[n + k] = d[k]
  BY JoinedAt
<1>2. /\ Charged(jd) = {k \in DOMAIN jd :
             /\ jd[k].type \in {"action_execution_confirmed", "action_reconciled"}
             /\ jd[k].res = "success"}
      /\ Charged(j) = {k \in DOMAIN j :
             /\ j[k].type \in {"action_execution_confirmed", "action_reconciled"}
             /\ j[k].res = "success"}
      /\ Charged(d) = {k \in DOMAIN d :
             /\ d[k].type \in {"action_execution_confirmed", "action_reconciled"}
             /\ d[k].res = "success"}
  BY DEF Charged
<1> HIDE DEF jd, n, m
<1>3. /\ \A k \in DOMAIN j : k \in Charged(jd) <=> k \in Charged(j)
      /\ \A k \in DOMAIN d : n + k \in Charged(jd) <=> k \in Charged(d)
      /\ \A k \in Charged(jd) : k \in DOMAIN j \/ (k - n \in DOMAIN d /\ k = n + (k - n))
      /\ Charged(j) \subseteq DOMAIN j /\ Charged(d) \subseteq DOMAIN d
  BY <1>1, <1>2
<1> QED
  BY <1>3 DEF jd, n

LEMMA AccountExtended ==
    ASSUME NEW j \in Seq(EventRecord), NEW d \in Seq(EventRecord), Accounted(j),
           Balances(j)[Len(j)] \in Nat, NEW price \in Nat,
           \A k \in DOMAIN j : Charge(j \o d, k) = Charge(j, k),
           \A k, l \in Charged(d) : k = l,
           \A k \in Charged(d) : Charge(j \o d, Len(j) + k) = price
    PROVE  /\ Accounted(j \o d)
           /\ Balances(j \o d)[Len(j \o d)] =
                  IF Charged(d) = {} THEN Balances(j)[Len(j)] ELSE Balances(j)[Len(j)] + price
<1> DEFINE jd   == j \o d
           n    == Len(j)
           m    == Len(d)
           a    == Balances(j)
           last == a[n]
           C    == Charged(d)
           paid(k) == IF \E l \in C : n + l <= k THEN last + price ELSE last
           b == [k \in 0 .. Len(jd) |-> IF k <= n THEN a[k] ELSE paid(k)]
<1>1. /\ n \in Nat /\ m \in Nat /\ Len(jd) = n + m /\ last \in Nat
      /\ DOMAIN j = 1 .. n /\ DOMAIN d = 1 .. m /\ C \subseteq 1 .. m
  BY JoinedAt DEF Charged
<1>2. \A k \in 0 .. n : a[k] = IF k = 0 THEN 0 ELSE a[k - 1] + Charge(j, k)
  <2>1. a = [k \in 0 .. n |-> IF k = 0 THEN 0 ELSE a[k - 1] + Charge(j, k)]
    BY DEF Accounted
  <2> HIDE DEF a, n
  <2> QED
    BY <2>1
<1>3. ASSUME NEW k \in 1 .. m
      PROVE  Charge(jd, n + k) = IF k \in C THEN price ELSE 0
  <2>1. n + k \in Charged(jd) <=> k \in C
    BY <1>1, <1>3, ChargedJoined
  <2>2. k \in C => Charge(jd, n + k) = price
    OBVIOUS
  <2>3. n + k \notin Charged(jd) => Charge(jd, n + k) = 0
    BY DEF Charge
  <2> HIDE DEF jd, n, C
  <2> QED
    BY <2>1, <2>2, <2>3
<1>4. /\ \A k \in 1 .. n : Charge(jd, k) = Charge(j, k)
      /\ \A k, l \in C : k = l
  BY <1>1
<1> DEFINE next(k) == b[k - 1] + Charge(jd, k)
<1>5. /\ \A k \in 0 .. Len(jd) : b[k] = IF k <= n THEN a[k] ELSE paid(k)
      /\ b = [k \in 0 .. Len(jd) |-> b[k]]
  OBVIOUS
<1> HIDE DEF b, C, jd, n, m, a
<1>6. ASSUME NEW k \in 1 .. n
      PROVE  b[k] = next(k)
  <2>1. b[k] = a[k] /\ b[k - 1] = a[k - 1] /\ k # 0 /\ k \in 0 .. n
    BY <1>1, <1>5
  <2> QED
    BY <1>2, <1>4, <2>1
<1>7. ASSUME NEW i \in 1 .. m
      PROVE  b[n + i] = next(n + i)
  <2>1. b[n + i] = paid(n + i)
    BY <1>1, <1>5
  <2>2. b[n + i - 1] = paid(n + i - 1)
    <3>1. CASE i = 1
      <4>1. b[n + i - 1] = last
        BY <1>1, <1>5, <3>1
      <4>2. \A l \in C : ~(n + l <= n + i - 1)
        BY <1>1, <3>1
      <4> QED
        BY <4>1, <4>2
    <3>2. CASE i # 1
      BY <1>1, <1>5, <3>2
    <3> QED
      BY <3>1, <3>2
  <2>3. CASE i \in C
    <3>1. paid(n + i) = last + price
      BY <1>1, <2>3
    <3>2. \A l \in C : ~(n + l <= n + i - 1)
      BY <1>1, <1>4, <2>3
    <3>3. paid(n + i - 1) = last
      BY <3>2
    <3>4. Charge(jd, n + i) = price
      BY <1>3, <2>3
    <3>5. b[n + i] = last + price /\ b[n + i - 1] = last
      BY <2>1, <2>2, <3>1, <3>3
    <3>6. next(n + i) = b[n + i - 1] + Charge(jd, n + i)
      <4>1. (n + i) - 1 = n + i - 1
        BY <1>1
      <4> QED
        BY <4>1
    <3> HIDE DEF paid, last, next
    <3> QED
      BY <3>4, <3>5, <3>6
  <2>4. CASE i \notin C
    <3>1. \A l \in C : l \in Nat /\ l # i
      BY <1>1, <2>4
    <3>4. \A l \in C : (n + l <= n + i) <=> (n + l <= n + i - 1)
      BY <1>1, <3>1
    <3>2. paid(n + i) = paid(n + i - 1) /\ paid(n + i) \in Nat
      BY <1>1, <3>4
    <3>3. Charge(jd, n + i) = 0
      BY <1>3, <2>4
    <3>5. b[n + i] = b[n + i - 1] /\ b[n + i] \in Nat
      BY <2>1, <2>2, <3>2
    <3>6. next(n + i) = b[n + i - 1] + Charge(jd, n + i)
      <4>1. (n + i) - 1 = n + i - 1
        BY <1>1
      <4> QED
        BY <4>1
    <3> HIDE DEF paid, next
    <3> QED
      BY <3>3, <3>5, <3>6
  <2> QED
    BY <2>3, <2>4
<1>8. Account(b, jd)
  <2>1. b[0] = 0
    <3>1. 0 \in 0 .. Len(jd) /\ 0 <= n /\ 0 \in 0 .. n
      BY <1>1
    <3>2. b[0] = a[0]
      BY <1>5, <3>1
    <3>3. a[0] = 0
      BY <1>2, <3>1
    <3> QED
      BY <3>2, <3>3
  <2>2. ASSUME NEW k \in 0 .. Len(jd)
        PROVE  b[k] = IF k = 0 THEN 0 ELSE next(k)
    <3>1. k = 0 \/ k \in 1 .. n \/ (k - n \in 1 .. m /\ k = n + (k - n))
      BY <1>1
    <3> HIDE DEF next
    <3>2. k # 0 => b[k] = next(k)
      BY <1>6, <1>7, <3>1
    <3> QED
      BY <2>1, <3>2
  <2> QED
    BY <1>5, <2>2 DEF Account
<1>9. Balances(jd) = b /\ Accounted(jd)
  BY <1>1, <1>8, BalancesAre
<1>10. b[Len(jd)] = IF C = {} THEN last ELSE last + price
  <2>1. CASE m = 0
    BY <1>1, <1>5, <2>1
  <2>2. CASE m # 0
    <3>1. b[Len(jd)] = paid(n + m)
      BY <1>1, <1>5, <2>2
    <3>2. \A l \in C : n + l <= n + m
      BY <1>1
    <3> QED
      BY <3>1, <3>2
  <2> QED
    BY <2>1, <2>2
<1> QED
  BY <1>9, <1>10 DEF jd, C, n, a

(* A settlement is charged at most once, and closes its attempt. *)
LEMMA SettledOnce ==
    ASSUME NEW d, NEW id, Settles(d, id)
    PROVE  /\ \A k, l \in Charged(d) : k = l
           /\ \A k \in Charged(d) : d[k].id = id
           /\ ClosedIn(d) = {id} /\ Prepared(d) = {}
<1>1. /\ Charged(d) \subseteq AttemptEventsOf(d) /\ Closings(d) \subseteq AttemptEventsOf(d)
      /\ Prepared(d) \subseteq AttemptEventsOf(d)
      /\ Closings(d) = {k \in DOMAIN d : d[k].type \in ClosingTypes}
      /\ AttemptEventsOf(d) \subseteq DOMAIN d
      /\ \A k \in AttemptEventsOf(d) : d[k].id = id
  BY EventTypes, ClosingsByType DEF Charged, AttemptEventsOf, Settles
<1>2. \A k \in Charged(d) :
          d[k].type \in {"action_execution_confirmed", "action_reconciled"}
  BY DEF Charged
<1>3. \A k \in Prepared(d) : d[k].type = "action_prepared"
  BY DEF Prepared
<1>4. ASSUME NEW k \in AttemptEventsOf(d), d[k].type \in ClosingTypes
      PROVE  ClosedIn(d) = {id}
  <2>1. k \in Closings(d) /\ d[k].id = id
    BY <1>1, <1>4
  <2> QED
    BY <1>1, <2>1 DEF ClosedIn, AttemptsAt
<1>5. CASE \E k : AttemptEventsOf(d) = {k} /\ d[k].type \in SettlingTypes
  <2>1. PICK k : AttemptEventsOf(d) = {k} /\ d[k].type \in SettlingTypes
    BY <1>5
  <2>2. d[k].type \in ClosingTypes /\ d[k].type # "action_prepared"
    BY <2>1 DEF SettlingTypes, ClosingTypes
  <2> QED
    BY <1>1, <1>3, <1>4, <2>1, <2>2
<1>6. CASE \E k, l : /\ AttemptEventsOf(d) = {k, l} /\ k < l
                     /\ d[k].type = "action_execution_confirmed"
                     /\ d[l].type = "action_checkpoint_committed"
  <2>1. PICK k, l : /\ AttemptEventsOf(d) = {k, l}
                    /\ d[k].type = "action_execution_confirmed"
                    /\ d[l].type = "action_checkpoint_committed"
    BY <1>6
  <2>2. d[l].type \in ClosingTypes
    BY <2>1 DEF ClosingTypes
  <2>3. Charged(d) \subseteq {k} /\ Prepared(d) = {}
    BY <1>1, <1>2, <1>3, <2>1
  <2> QED
    BY <1>1, <1>4, <2>1, <2>2, <2>3
<1> QED
  BY <1>5, <1>6 DEF Settles

(* What a transaction must establish of the budget: it spends nothing, and *)
(* opens an attempt only within the budget; or it pays for the attempt that *)
(* is open.                                                                *)
SpendWritten(c) ==
    \/ /\ c.task.spend = store.task.spend /\ Charged(c.drafts) = {}
       /\ \A k \in Prepared(c.drafts) : c.task.spend + Cost[c.drafts[k].act] <= MaxSpend
    \/ \E id \in Prepared(store.journal) \ ClosedIn(store.journal) :
           Pays(c, store.task, id, Cost[store.journal[id].act])

(* What is charged stays charged for the same action. *)
LEMMA ChargesKept ==
    ASSUME NEW j \in Seq(EventRecord), NEW d \in Seq(EventRecord),
           AttemptsInOrder(j), AttemptsInOrder(j \o d)
    PROVE  /\ \A id \in Prepared(j) : /\ id \in Prepared(j \o d) /\ (j \o d)[id] = j[id]
                                      /\ AttemptAction(j \o d, id) = j[id].act
           /\ \A k \in Charged(j) : j[k].id \in Prepared(j)
           /\ \A k \in DOMAIN j : Charge(j \o d, k) = Charge(j, k)
           /\ \A k \in DOMAIN d : (j \o d)[Len(j) + k] = d[k]
<1> DEFINE jd == j \o d
<1>1. /\ \A k \in DOMAIN j : k \in DOMAIN jd /\ jd[k] = j[k]
      /\ \A k \in DOMAIN d : jd[Len(j) + k] = d[k]
      /\ jd \in Seq(EventRecord)
  BY JoinedAt
<1>2. /\ \A k \in DOMAIN j : k \in Charged(jd) <=> k \in Charged(j)
      /\ Charged(j) \subseteq DOMAIN j
  BY ChargedJoined
<1> HIDE DEF jd
<1>3. AttemptsInOrder(jd)
  BY DEF jd
<1>4. ASSUME NEW id \in Prepared(j)
      PROVE  /\ id \in Prepared(jd) /\ jd[id] = j[id]
             /\ AttemptAction(jd, id) = j[id].act /\ AttemptAction(j, id) = j[id].act
  <2>1. id \in Prepared(jd) /\ jd[id] = j[id]
    BY <1>1 DEF Prepared
  <2>2. AttemptAction(jd, id) = jd[id].act /\ AttemptAction(j, id) = j[id].act
    BY <1>1, <1>3, <2>1, InOrder
  <2> QED
    BY <2>1, <2>2
<1>5. ASSUME NEW k \in Charged(j)
      PROVE  j[k].id \in Prepared(j)
  <2>1. k \in AttemptEventsOf(j)
    BY EventTypes DEF Charged, AttemptEventsOf
  <2> QED
    BY <2>1 DEF AttemptsInOrder
<1>6. ASSUME NEW k \in DOMAIN j
      PROVE  Charge(jd, k) = Charge(j, k)
  <2>1. jd[k].id = j[k].id
    BY <1>1
  <2>2. k \in Charged(j) => AttemptAction(jd, j[k].id) = AttemptAction(j, j[k].id)
    BY <1>4, <1>5
  <2> QED
    BY <1>2, <2>1, <2>2 DEF Charge
<1> QED
  BY <1>1, <1>4, <1>5, <1>6 DEF jd

LEMMA SpendStored ==
    ASSUME LedgerInv, LedgerInv', SpendingInv, NEW c, NEW t, Numbered(c, t),
           Accepts(store, c), store' = Stored(store, c), SpendWritten(c)
    PROVE  SpendingInv'
<1> DEFINE j  == store.journal
           d  == c.drafts
           jd == j \o d
           s  == store.task.spend
           s2 == store'.task.spend
<1>1. /\ j \in Seq(EventRecord) /\ d \in Seq(EventRecord) /\ store'.journal = jd
      /\ store'.task = c.task /\ NamesActions(j)
      /\ AttemptsInOrder(j) /\ AttemptsInOrder(jd)
      /\ store.task \in TaskRecord
  BY NumberedStored DEF LedgerInv, TypeInv, StoreOK, StoreType
<1>2. /\ Accounted(j) /\ s = Balances(j)[Len(j)] /\ s <= MaxSpend
      /\ \A k, l \in Charged(j) : j[k].id = j[l].id => k = l
      /\ \A k \in Charged(j) : j[k].id \in ClosedIn(j)
      /\ \A id \in Prepared(j) \ ClosedIn(j) : s + Cost[j[id].act] <= MaxSpend
  BY DEF SpendingInv, SpendMatchesJournal
<1>3. s \in Nat
  BY <1>1 DEF TaskRecord
<1>4. s2 = c.task.spend
  BY <1>1
<1>5. /\ \A id \in Prepared(j) : /\ id \in Prepared(jd) /\ jd[id] = j[id]
                                 /\ AttemptAction(jd, id) = j[id].act
      /\ \A k \in DOMAIN j : Charge(jd, k) = Charge(j, k)
      /\ \A k \in DOMAIN d : jd[Len(j) + k] = d[k]
  BY <1>1, ChargesKept
<1>6. /\ \A k \in DOMAIN j : (k \in Charged(jd) <=> k \in Charged(j)) /\ jd[k] = j[k]
      /\ \A k \in DOMAIN d : Len(j) + k \in Charged(jd) <=> k \in Charged(d)
      /\ \A k \in Charged(jd) :
             k \in DOMAIN j \/ (k - Len(j) \in DOMAIN d /\ k = Len(j) + (k - Len(j)))
      /\ Charged(j) \subseteq DOMAIN j /\ Charged(d) \subseteq DOMAIN d
  <2>1. \A k \in DOMAIN j : jd[k] = j[k]
    <3>1. j \in Seq(EventRecord) /\ d \in Seq(EventRecord)
      BY <1>1
    <3> HIDE DEF j, d
    <3> QED
      BY <3>1, Appending
  <2>2. /\ \A k \in DOMAIN j : k \in Charged(jd) <=> k \in Charged(j)
        /\ \A k \in DOMAIN d : Len(j) + k \in Charged(jd) <=> k \in Charged(d)
        /\ \A k \in Charged(jd) :
               k \in DOMAIN j \/ (k - Len(j) \in DOMAIN d /\ k = Len(j) + (k - Len(j)))
        /\ Charged(j) \subseteq DOMAIN j /\ Charged(d) \subseteq DOMAIN d
    BY <1>1, ChargedJoined
  <2> HIDE DEF j, d, jd
  <2> QED
    BY <2>1, <2>2
<1>7. /\ ClosedIn(jd) = ClosedIn(j) \cup ClosedIn(d)
      /\ \A k \in Prepared(jd) :
             \/ k \in Prepared(j)
             \/ \E l \in Prepared(d) : k = Len(j) + l
  <2>1. ClosedIn(jd) = ClosedIn(j) \cup ClosedIn(d)
    BY <1>1, AttemptsJoined
  <2>2. ASSUME NEW k \in Prepared(jd)
        PROVE  k \in Prepared(j) \/ \E l \in Prepared(d) : k = Len(j) + l
    <3> DEFINE n == Len(j)
               m == Len(d)
    <3>1. /\ n \in Nat /\ m \in Nat /\ DOMAIN j = 1 .. n /\ DOMAIN d = 1 .. m
          /\ DOMAIN jd = 1 .. n + m
          /\ \A l \in 1 .. n : jd[l] = j[l]
          /\ \A l \in 1 .. m : jd[n + l] = d[l]
      BY <1>1, JoinedAt
    <3>2. k \in DOMAIN jd /\ jd[k].type = "action_prepared"
      BY DEF Prepared
    <3> HIDE DEF n, m, jd
    <3>3. \/ k \in 1 .. n
          \/ k - n \in 1 .. m /\ k = n + (k - n)
      BY <3>1, <3>2
    <3>4. k \in 1 .. n => k \in Prepared(j)
      BY <3>1, <3>2 DEF Prepared
    <3>5. ASSUME k - n \in 1 .. m, k = n + (k - n)
          PROVE  \E l \in Prepared(d) : k = n + l
      <4> DEFINE l == k - n
      <4>1. l \in 1 .. m /\ k = n + l
        BY <3>5
      <4> HIDE DEF l
      <4>2. l \in Prepared(d)
        BY <3>1, <3>2, <4>1 DEF Prepared
      <4> QED
        BY <4>1, <4>2
    <3> QED
      BY <3>3, <3>4, <3>5 DEF n
  <2> QED
    BY <2>1, <2>2
<1>10. jd = j \o d
  OBVIOUS
<1> HIDE DEF j, d, jd, s, s2
<1>8. CASE /\ s2 = s /\ Charged(d) = {}
           /\ \A k \in Prepared(d) : s2 + Cost[d[k].act] <= MaxSpend
  <2>1. Accounted(jd) /\ Balances(jd)[Len(jd)] = s
    <3>1. /\ \A k, l \in Charged(d) : k = l
          /\ \A k \in Charged(d) : Charge(j \o d, Len(j) + k) = 0
          /\ Balances(j)[Len(j)] \in Nat /\ 0 \in Nat
          /\ \A k \in DOMAIN j : Charge(j \o d, k) = Charge(j, k)
      BY <1>2, <1>3, <1>5, <1>8, <1>10
    <3>2. /\ Accounted(j \o d)
          /\ Balances(j \o d)[Len(j \o d)] = Balances(j)[Len(j)]
      BY <1>1, <1>2, <1>8, <3>1, AccountExtended
    <3> QED
      BY <1>2, <1>10, <3>2
  <2>2. Charged(jd) = Charged(j)
    BY <1>6, <1>8
  <2>3. \A k \in Charged(j) : jd[k] = j[k]
    BY <1>6
  <2>4. ASSUME NEW id \in Prepared(jd) \ ClosedIn(jd)
        PROVE  s2 + Cost[jd[id].act] <= MaxSpend
    <3>1. CASE id \in Prepared(j)
      BY <1>2, <1>5, <1>7, <1>8, <3>1
    <3>2. CASE \E l \in Prepared(d) : id = Len(j) + l
      <4>1. PICK l \in Prepared(d) : id = Len(j) + l
        BY <3>2
      <4>2. jd[id] = d[l]
        BY <1>5, <4>1 DEF Prepared
      <4> QED
        BY <1>8, <4>1, <4>2
    <3> QED
      BY <1>7, <3>1, <3>2
  <2>5. /\ Accounted(jd) /\ s2 = Balances(jd)[Len(jd)] /\ s2 <= MaxSpend
        /\ \A k, l \in Charged(jd) : jd[k].id = jd[l].id => k = l
        /\ \A k \in Charged(jd) : jd[k].id \in ClosedIn(jd)
        /\ \A id \in Prepared(jd) \ ClosedIn(jd) : s2 + Cost[jd[id].act] <= MaxSpend
    BY <1>2, <1>7, <1>8, <2>1, <2>2, <2>3, <2>4
  <2> QED
    BY <1>1, <2>5 DEF SpendingInv, SpendMatchesJournal, s2
<1>9. ASSUME NEW id \in Prepared(j) \ ClosedIn(j), Settles(d, id),
             s2 = IF Charged(d) = {} THEN s ELSE s + Cost[j[id].act]
      PROVE  SpendingInv'
  <2> DEFINE price == Cost[j[id].act]
  <2>1. price \in Nat /\ s + price <= MaxSpend
    <3>1. j[id].act \in Acts
      BY <1>1 DEF NamesActions, Prepared
    <3> QED
      BY <1>2, <3>1, TaskAssumption
  <2>2. /\ \A k, l \in Charged(d) : k = l
        /\ \A k \in Charged(d) : d[k].id = id
        /\ ClosedIn(d) = {id} /\ Prepared(d) = {}
    BY <1>9, SettledOnce
  <2>3. ASSUME NEW k \in Charged(d)
        PROVE  /\ Charge(jd, Len(j) + k) = price /\ jd[Len(j) + k].id = id
               /\ Len(j) + k \in Charged(jd)
    <3>1. Len(j) + k \in Charged(jd) /\ jd[Len(j) + k].id = id
      BY <1>5, <1>6, <2>2
    <3>2. AttemptAction(jd, id) = j[id].act
      BY <1>5
    <3> QED
      BY <3>1, <3>2 DEF Charge
  <2>8. s2 = IF Charged(d) = {} THEN s ELSE s + price
    BY <1>9
  <2> HIDE DEF price
  <2>4. /\ Accounted(jd)
        /\ Balances(jd)[Len(jd)] = IF Charged(d) = {} THEN s ELSE s + price
    <3>1. /\ \A k \in Charged(d) : Charge(j \o d, Len(j) + k) = price
          /\ Balances(j)[Len(j)] \in Nat
          /\ \A k \in DOMAIN j : Charge(j \o d, k) = Charge(j, k)
      BY <1>2, <1>3, <1>5, <1>10, <2>3
    <3>2. /\ Accounted(j \o d)
          /\ Balances(j \o d)[Len(j \o d)] =
                 IF Charged(d) = {} THEN Balances(j)[Len(j)] ELSE Balances(j)[Len(j)] + price
      BY <1>1, <1>2, <2>1, <2>2, <3>1, AccountExtended
    <3> QED
      BY <1>2, <1>10, <3>2
  <2>5. \A k \in Charged(jd) :
            \/ k \in Charged(j) /\ jd[k] = j[k] /\ j[k].id # id
            \/ jd[k].id = id /\ \E l \in Charged(d) : k = Len(j) + l
    BY <1>2, <1>6, <2>3
  <2>6. \A k, l \in Charged(jd) : jd[k].id = jd[l].id => k = l
    <3> SUFFICES ASSUME NEW k \in Charged(jd), NEW l \in Charged(jd), jd[k].id = jd[l].id
                 PROVE  k = l
      OBVIOUS
    <3> QED
      BY <1>2, <2>2, <2>5
  <2>7. \A o \in Prepared(jd) : o \in ClosedIn(jd)
    <3>1. ASSUME NEW o \in Prepared(j), o # id
          PROVE  o \in ClosedIn(j)
      BY <1>1, <3>1, OneOpen
    <3> QED
      BY <1>7, <2>2, <3>1
  <2>9. \A k \in Charged(jd) : jd[k].id \in ClosedIn(jd)
    BY <1>2, <1>7, <2>2, <2>5
  <2>10. s2 <= MaxSpend
    BY <1>2, <2>1, <2>8
  <2>11. /\ Accounted(jd) /\ s2 = Balances(jd)[Len(jd)] /\ s2 <= MaxSpend
         /\ \A k, l \in Charged(jd) : jd[k].id = jd[l].id => k = l
         /\ \A k \in Charged(jd) : jd[k].id \in ClosedIn(jd)
         /\ \A o \in Prepared(jd) \ ClosedIn(jd) : s2 + Cost[jd[o].act] <= MaxSpend
    BY <2>4, <2>6, <2>7, <2>8, <2>9, <2>10
  <2> QED
    BY <1>1, <2>11 DEF SpendingInv, SpendMatchesJournal, s2
<1> QED
  BY <1>4, <1>8, <1>9 DEF SpendWritten, Pays, j, d, s

LEMMA SubmitSpending ==
    ASSUME LedgerInv, LedgerInv', SpendingInv, NEW r, NEW c, NEW t, Numbered(c, t),
           NEW done, NEW failed, Submit(r, c, done, failed),
           Newest(store, t) => SpendWritten(c)
    PROVE  SpendingInv'
<1>1. CASE Accepts(store, c) /\ store' = Stored(store, c)
  <2>1. Newest(store, t)
    BY <1>1, NumberedStored DEF LedgerInv, TypeInv, StoreOK
  <2> QED
    BY <1>1, <2>1, SpendStored
<1>2. CASE UNCHANGED store
  BY <1>2 DEF SpendingInv, SpendMatchesJournal
<1> QED
  BY <1>1, <1>2 DEF Submit

LEMMA ConcludeSpending ==
    ASSUME LedgerInv, LedgerInv', SpendingInv, NEW o, NEW c, NEW t, Numbered(c, t),
           Conclude(o, c), Newest(store, t) => SpendWritten(c)
    PROVE  SpendingInv'
<1>1. CASE Accepts(store, c) /\ store' = Stored(store, c)
  <2>1. Newest(store, t)
    BY <1>1, NumberedStored DEF LedgerInv, TypeInv, StoreOK
  <2> QED
    BY <1>1, <2>1, SpendStored
<1>2. CASE UNCHANGED store
  BY <1>2 DEF SpendingInv, SpendMatchesJournal
<1> QED
  BY <1>1, <1>2 DEF Conclude

(* A transaction that spends nothing and prepares nothing. *)
LEMMA NothingSpent ==
    ASSUME NEW c, c.task.spend = store.task.spend,
           \A k \in AttemptEventsOf(c.drafts) :
               /\ c.drafts[k].type # "action_prepared" /\ c.drafts[k].res # "success"
    PROVE  SpendWritten(c)
<1>1. /\ Charged(c.drafts) \subseteq AttemptEventsOf(c.drafts)
      /\ Prepared(c.drafts) \subseteq AttemptEventsOf(c.drafts)
  BY EventTypes, ClosingsByType DEF Charged, AttemptEventsOf
<1>2. Charged(c.drafts) = {} /\ Prepared(c.drafts) = {}
  BY <1>1 DEF Charged, Prepared
<1> QED
  BY <1>2 DEF SpendWritten

(* What a session has read of the budget is what is stored. *)
LEMMA BudgetRead ==
    ASSUME RuntimeInv, NEW r \in Runners
    PROVE  /\ Newest(store, proc[r].rec) => proc[r].rec.spend = store.task.spend
           /\ Newest(store, proc[r].outer) => proc[r].outer.spend = store.task.spend
  BY RuntimeFacts DEF HoldsAuthority, SameMeans

LEMMA GateSpending ==
    ASSUME RuntimeInv, LedgerInv', SpendingInv, NEW r \in Runners, Gate(r)
    PROVE  SpendingInv'
<1>1. ASSUME NEW c, NEW done, GateCommit(r, c, done)
      PROVE  SpendingInv'
  <2>1. PICK e : /\ c.drafts = <<e>> /\ e.res # "success"
                 /\ e.type \in {"action_reconciled", "action_reconciliation_required"}
    BY <1>1, Zenon DEF GateCommit
  <2>2. \A k \in AttemptEventsOf(c.drafts) : c.drafts[k] = e
    BY <2>1 DEF AttemptEventsOf
  <2>3. ASSUME Newest(store, proc[r].rec)
        PROVE  SpendWritten(c)
    <3>1. c.task.spend = store.task.spend
      BY <1>1, <2>3, BudgetRead DEF GateCommit, SameMeans
    <3> QED
      BY <2>1, <2>2, <3>1, NothingSpent
  <2> QED
    BY <1>1, <2>3, SubmitSpending DEF GateCommit, RuntimeInv
<1>2. CASE UNCHANGED store
  BY <1>2 DEF SpendingInv, SpendMatchesJournal
<1> QED
  BY <1>1, <1>2, GateCommits DEF RuntimeInv

(* A transaction of session r about no attempt. *)
LEMMA QuietSpending ==
    ASSUME RuntimeInv, LedgerInv', SpendingInv, NEW r \in Runners, NEW c,
           NEW t \in {proc[r].rec, proc[r].outer}, Numbered(c, t),
           AttemptEventsOf(c.drafts) = {}, c.task.spend = t.spend,
           NEW done, NEW failed, Submit(r, c, done, failed)
    PROVE  SpendingInv'
<1>1. ASSUME Newest(store, t)
      PROVE  SpendWritten(c)
  <2>1. c.task.spend = store.task.spend
    BY <1>1, BudgetRead
  <2> QED
    BY <2>1, NothingSpent
<1> QED
  BY <1>1, SubmitSpending DEF RuntimeInv

LEMMA ResolvingSpending ==
    ASSUME RuntimeInv, LedgerInv', SpendingInv, NEW r \in Runners, NEW c, NEW after,
           ResolvingCommit(r, c, after)
    PROVE  SpendingInv'
<1>1. /\ Numbered(c, proc[r].rec)
      /\ Submit(r, c, AfterIteration(r, c.task, after), Abandoned(r))
  BY DEF ResolvingCommit, SubmitIteration
<1>2. ASSUME Newest(store, proc[r].rec)
      PROVE  SpendWritten(c)
  <2>1. proc[r].rec.spend = store.task.spend
    BY <1>2, BudgetRead
  <2>2. CASE AttemptEventsOf(c.drafts) = {} /\ c.task.spend = proc[r].rec.spend
    BY <2>1, <2>2, NothingSpent
  <2>3. CASE /\ Resolves(store.journal, c.drafts, proc[r].att)
             /\ Pays(c, proc[r].rec, proc[r].att, Cost[proc[r].act])
             /\ proc[r].pc = "executed" \/ Charged(c.drafts) = {}
    <3>1. proc[r].att \in Prepared(store.journal) \ ClosedIn(store.journal)
      BY <2>3 DEF Resolves, MovesAttempt
    <3>2. proc[r].pc = "executed" => store.journal[proc[r].att].act = proc[r].act
      BY RuntimeFacts DEF SessionInLedger, Acting
    <3>3. Pays(c, store.task, proc[r].att, Cost[store.journal[proc[r].att].act])
      BY <2>1, <2>3, <3>2 DEF Pays
    <3> QED
      BY <3>1, <3>3 DEF SpendWritten
  <2> QED
    BY <1>2, <2>2, <2>3 DEF ResolvingCommit
<1> QED
  BY <1>1, <1>2, SubmitSpending DEF RuntimeInv

LEMMA AttemptSpending ==
    ASSUME RuntimeInv, LedgerInv', SpendingInv, NEW r \in Runners, NEW c, NEW next,
           AttemptCommit(r, c, next)
    PROVE  SpendingInv'
<1>1. /\ Numbered(c, proc[r].rec) /\ Submit(r, c, next, Abandoned(r))
      /\ SameMeans(c.task, proc[r].rec)
  BY DEF AttemptCommit
<1>2. PICK e : /\ c.drafts = <<e>> /\ e.res = "none"
               /\ next.pc = "prepared" => e.act = next.act
               /\ next.pc = "started" => e.type = "action_execution_started"
  BY DEF AttemptCommit
<1>3. \A k \in DOMAIN c.drafts : c.drafts[k] = e
  BY <1>2
<1>4. \A k \in Charged(c.drafts) : k \in DOMAIN c.drafts /\ c.drafts[k].res = "success"
  BY DEF Charged
<1>5. Charged(c.drafts) = {}
  BY <1>2, <1>3, <1>4
<1>6. ASSUME Newest(store, proc[r].rec)
      PROVE  SpendWritten(c)
  <2>1. c.task.spend = store.task.spend /\ c.task.spend = proc[r].rec.spend
    BY <1>1, <1>6, BudgetRead DEF SameMeans
  <2>2. ASSUME next.pc = "prepared", MayExecute(r, next.act)
        PROVE  \A k \in Prepared(c.drafts) : c.task.spend + Cost[c.drafts[k].act] <= MaxSpend
    <3>1. proc[r].rec.spend + Cost[next.act] <= MaxSpend
      BY <2>2 DEF MayExecute, PolicyAllows
    <3> QED
      BY <1>2, <1>3, <2>1, <2>2, <3>1 DEF Prepared
  <2>3. ASSUME next.pc = "started"
        PROVE  Prepared(c.drafts) = {}
    BY <1>2, <1>3, <2>3 DEF Prepared
  <2>4. \A k \in Prepared(c.drafts) : c.task.spend + Cost[c.drafts[k].act] <= MaxSpend
    BY <2>2, <2>3 DEF AttemptCommit
  <2> QED
    BY <1>5, <2>1, <2>4 DEF SpendWritten
<1> QED
  BY <1>1, <1>6, SubmitSpending DEF RuntimeInv

LEMMA DecisionSpending ==
    ASSUME RuntimeInv, LedgerInv', SpendingInv, NEW o \in Operators, NEW c, DecisionCommit(o, c)
    PROVE  SpendingInv'
<1> DEFINE view == command[o].view
<1>1. /\ Conclude(o, c) /\ Numbered(c, view.task) /\ AttemptEventsOf(c.drafts) = {}
      /\ c.task.spend = view.task.spend /\ command[o].name # "none"
  BY DEF DecisionCommit
<1>2. ASSUME Newest(store, view.task)
      PROVE  SpendWritten(c)
  <2>1. view = store
    BY <1>1, <1>2, ViewLedger DEF RuntimeInv
  <2> QED
    BY <1>1, <2>1, NothingSpent
<1> HIDE DEF view
<1> QED
  BY <1>1, <1>2, ConcludeSpending DEF RuntimeInv

LEMMA ResolveSpending ==
    ASSUME RuntimeInv, LedgerInv', SpendingInv, NEW o \in Operators, NEW c, ResolveCommit(o, c)
    PROVE  SpendingInv'
<1> DEFINE view == command[o].view
           id   == UnresolvedAttempt(view.journal)
<1>1. /\ Conclude(o, c) /\ Numbered(c, view.task) /\ command[o].name # "none"
      /\ Newest(store, view.task) => Resolves(store.journal, c.drafts, id)
      /\ Pays(c, view.task, id, Cost[AttemptAction(view.journal, id)])
  BY DEF ResolveCommit, Reconciles
<1>2. ASSUME Newest(store, view.task)
      PROVE  SpendWritten(c)
  <2>1. view = store /\ store.journal \in Seq(EventRecord) /\ AttemptsInOrder(store.journal)
    BY <1>1, <1>2, ViewLedger DEF RuntimeInv
  <2> HIDE DEF view
  <2>2. id \in Prepared(store.journal) \ ClosedIn(store.journal)
    BY <1>1, <1>2 DEF Resolves, MovesAttempt
  <2>3. AttemptAction(view.journal, id) = store.journal[id].act
    BY <2>1, <2>2, InOrder
  <2>4. Pays(c, store.task, id, Cost[store.journal[id].act])
    BY <1>1, <2>1, <2>3
  <2> HIDE DEF id
  <2> QED
    BY <2>2, <2>4 DEF SpendWritten
<1> HIDE DEF view, id
<1> QED
  BY <1>1, <1>2, ConcludeSpending DEF RuntimeInv

LEMMA SpendingInvStep == RuntimeInv /\ LedgerInv' /\ SpendingInv /\ [Next]_vars => SpendingInv'
<1> SUFFICES ASSUME RuntimeInv, LedgerInv', SpendingInv, [Next]_vars PROVE SpendingInv'
  OBVIOUS
<1>1. LedgerInv /\ TypeInv
  BY DEF RuntimeInv, LedgerInv
<1>2. CASE UNCHANGED store
  BY <1>2 DEF SpendingInv, SpendMatchesJournal
<1>3. ASSUME NEW r \in Runners, NEW c, NEW observation, LoopCommit(r, c, observation)
      PROVE  SpendingInv'
  BY <1>3, QuietSpending DEF LoopCommit, SubmitIteration, SameMeans
<1>4. ASSUME NEW r \in Runners, NEW c, NEW done, NEW failed, StartCommit(r, c, done, failed)
      PROVE  SpendingInv'
  BY <1>4, QuietSpending DEF StartCommit, SameMeans
<1>5. ASSUME NEW r \in Runners, NEW c, ShutdownCommit(r, c)
      PROVE  SpendingInv'
  BY <1>5, QuietSpending DEF ShutdownCommit, SameMeans
<1>6. ASSUME NEW r \in Runners, Resume(r) \/ Step(r) \/ Crash(r)
      PROVE  SpendingInv'
  <2>1. CASE Resume(r) \/ Reopen(r) \/ Enter(r) \/ Yield(r) \/ AdapterRaises(r) \/ Crash(r)
               \/ Execute(r)
    BY <1>2, <2>1 DEF Resume, Reopen, Enter, Yield, AdapterRaises, Crash, Execute
  <2>2. CASE Iterate(r)
    BY <1>1, <1>3, <2>1, <2>2, IterateCommits
  <2>3. CASE Shutdown(r)
    BY <1>1, <1>2, <1>5, <2>3, ShutdownCommits
  <2> QED
    BY <1>1, <1>4, <1>6, <2>1, <2>2, <2>3, GateSpending, StartPendingCommit, StartWaitingCommit,
       RefreshCommit, InitializationFailureCommit, PrepareCommit, StartExecutionCommit,
       AttemptSpending, ConfirmCommit, ErrorCommit, ResolvingSpending
    DEF Step, Transact
<1>7. ASSUME NEW o \in Operators, Operate(o)
      PROVE  SpendingInv'
  <2>1. CASE \E name \in Commands : Read(o, name)
    BY <1>2, <2>1 DEF Read
  <2> QED
    BY <1>1, <1>7, <2>1, ApproveCommits, DenyCommits, CancelCommits, DecisionSpending,
       ResolveCommits, ResolveSpending DEF Operate
<1>8. CASE Drift \/ UNCHANGED vars
  BY <1>2, <1>8 DEF Drift, vars
<1> QED
  BY <1>6, <1>7, <1>8 DEF Next

LEMMA SpendingInvInit == Init => SpendingInv
<1> SUFFICES ASSUME Init PROVE SpendingInv
  OBVIOUS
<1> DEFINE j == store.journal
           b == [k \in 0 .. 1 |-> 0]
<1>1. j = <<Event("task_created")>> /\ store.task.spend = 0
  BY DEF Init, CreatedStore, NewTask
<1>2. Len(j) = 1 /\ DOMAIN j = {1} /\ j[1].type = "task_created"
  BY <1>1 DEF Event
<1> HIDE DEF j
<1>3. Charged(j) = {} /\ Prepared(j) = {}
  BY <1>2 DEF Charged, Prepared
<1>4. Account(b, j)
  <2>1. \A k : Charge(j, k) = 0
    BY <1>3 DEF Charge
  <2>2. \A k \in 0 .. 1 : 0 = IF k = 0 THEN 0 ELSE b[k - 1] + Charge(j, k)
    BY <2>1
  <2>3. b = [k \in 0 .. 1 |-> IF k = 0 THEN 0 ELSE b[k - 1] + Charge(j, k)]
    BY <2>2
  <2> HIDE DEF b
  <2> QED
    BY <1>2, <2>3 DEF Account
<1>5. Balances(j) = b /\ Accounted(j)
  BY <1>2, <1>4, BalancesAre
<1>6. Balances(j)[Len(j)] = 0
  BY <1>2, <1>5
<1> HIDE DEF b
<1> QED
  BY <1>1, <1>3, <1>5, <1>6, TaskAssumption DEF SpendingInv, SpendMatchesJournal, j

LEMMA SpendingInvariant == Spec => []SpendingInv
<1>1. Init => SpendingInv
  BY SpendingInvInit
<1>2. /\ LedgerInv /\ LedgerInv' /\ StatusInv /\ GrantsInv /\ SpendingInv /\ [Next]_vars
      => SpendingInv'
  BY SpendingInvStep DEF RuntimeInv
<1> QED
  BY <1>1, <1>2, LedgerInvariant, StatusInvariant, GrantsInvariant, PTL DEF Spec

(* The spend of the task row is the cost of the attempts its journal shows *)
(* as successful, each counted once, and within the budget: whether the    *)
(* session committed the attempt (action_execution.py:109) or an operator  *)
(* resolved what a crash left behind (engine.py:173), which adds to the    *)
(* spend without asking the policy.                                        *)
THEOREM SpendAccounted == Spec => []SpendMatchesJournal
<1>1. SpendingInv => SpendMatchesJournal
  BY DEF SpendingInv
<1> QED
  BY <1>1, SpendingInvariant, PTL

--------------------------------------------------------------------------------
(* The statuses of the attempts in a longer journal. *)

LEMMA StatusByLast ==
    ASSUME NEW j \in Seq(EventRecord), NEW n, NEW id, NEW m \in AttemptPositions(j, id), m < n,
           \A l \in AttemptPositions(j, id) : l < n => l <= m
    PROVE  StatusBefore(j, n, id) = AttemptEventStatus[j[m].type]
<1> DEFINE K == {k \in AttemptPositions(j, id) : k < n}
           x == CHOOSE k \in K : \A l \in K : l <= k
<1>1. m \in K /\ \A l \in K : l <= m
  OBVIOUS
<1>2. \A k \in K : k \in Nat
  BY LenProperties DEF AttemptPositions
<1>3. StatusBefore(j, n, id) = AttemptEventStatus[j[x].type]
  BY <1>1 DEF StatusBefore
<1>4. x \in K /\ \A l \in K : l <= x
  BY <1>1
<1> HIDE DEF K, x
<1>5. x <= m /\ m <= x /\ x \in Nat /\ m \in Nat
  BY <1>1, <1>2, <1>4
<1>6. x = m
  BY <1>5
<1> QED
  BY <1>3, <1>6

LEMMA StatusAgrees ==
    ASSUME NEW i \in Seq(EventRecord), NEW j, NEW m, NEW n, NEW id,
           {k \in AttemptPositions(i, id) : k < m} = {k \in AttemptPositions(j, id) : k < n},
           \A k \in AttemptPositions(i, id) : k < m => i[k] = j[k]
    PROVE  StatusBefore(i, m, id) = StatusBefore(j, n, id)
<1> DEFINE K == {k \in AttemptPositions(i, id) : k < m}
           x == CHOOSE k \in K : \A l \in K : l <= k
<1>1. CASE K = {}
  BY <1>1 DEF StatusBefore
<1>2. CASE K # {}
  <2>1. K \in SUBSET (1 .. Len(i)) /\ Len(i) \in Nat
    BY LenProperties DEF AttemptPositions
  <2>2. \E k \in K : \A l \in K : l <= k
    <3> HIDE DEF K
    <3> QED
      BY <1>2, <2>1, LastPosition
  <2>3. x \in K
    BY <2>2
  <2>4. i[x] = j[x]
    BY <2>3
  <2>5. /\ StatusBefore(i, m, id) = AttemptEventStatus[i[x].type]
        /\ StatusBefore(j, n, id) = AttemptEventStatus[j[x].type]
    BY <1>2 DEF StatusBefore
  <2> HIDE DEF x
  <2> QED
    BY <2>4, <2>5
<1> QED
  BY <1>1, <1>2

(* Nothing that is appended changes the status before an earlier position, *)
(* or before the first event about the attempt.                            *)
LEMMA StatusJoined ==
    ASSUME NEW j \in Seq(EventRecord), NEW d \in Seq(EventRecord), NEW n \in Nat, NEW id
    PROVE  /\ n <= Len(j) + 1 => StatusBefore(j \o d, n, id) = StatusBefore(j, n, id)
           /\ /\ n > Len(j)
              /\ \A k \in AttemptEventsOf(d) : d[k].id = id => n <= Len(j) + k
              => StatusBefore(j \o d, n, id) = AttemptStatus(j, id)
<1> DEFINE jd == j \o d
<1>1. /\ jd = j \o d /\ Len(j) \in Nat /\ DOMAIN j = 1 .. Len(j) /\ DOMAIN d = 1 .. Len(d)
      /\ DOMAIN jd = 1 .. Len(j) + Len(d) /\ Len(d) \in Nat
      /\ \A k \in 1 .. Len(j) : jd[k] = j[k]
      /\ \A k \in 1 .. Len(j) + Len(d) :
             k \in 1 .. Len(j) \/ (k > Len(j) /\ k - Len(j) \in 1 .. Len(d)
                                   /\ jd[k] = d[k - Len(j)])
  BY JoinedAt
<1> HIDE DEF jd
<1>2. \A k \in AttemptPositions(j, id) : k \in 1 .. Len(j) /\ k \in AttemptPositions(jd, id)
  BY <1>1 DEF AttemptPositions
<1>3. \A k \in AttemptPositions(jd, id) : k \in 1 .. Len(j) => k \in AttemptPositions(j, id)
  BY <1>1 DEF AttemptPositions
<1>4. ASSUME n <= Len(j) + 1
      PROVE  StatusBefore(j, n, id) = StatusBefore(jd, n, id)
  <2>1. \A k \in AttemptPositions(jd, id) : k < n => k \in 1 .. Len(j)
    BY <1>1, <1>4 DEF AttemptPositions
  <2>2. {k \in AttemptPositions(j, id) : k < n} = {k \in AttemptPositions(jd, id) : k < n}
    BY <1>2, <1>3, <2>1
  <2>3. \A k \in AttemptPositions(j, id) : k < n => j[k] = jd[k]
    BY <1>1, <1>2
  <2> QED
    BY <2>2, <2>3, StatusAgrees
<1>5. ASSUME n > Len(j), \A k \in AttemptEventsOf(d) : d[k].id = id => n <= Len(j) + k
      PROVE  AttemptStatus(j, id) = StatusBefore(jd, n, id)
  <2>1. ASSUME NEW k \in AttemptPositions(jd, id), k < n, k \notin 1 .. Len(j)
        PROVE  FALSE
    <3>1. k \in Nat /\ k - Len(j) \in AttemptEventsOf(d) /\ d[k - Len(j)].id = id
      BY <1>1, <2>1 DEF AttemptPositions, AttemptEventsOf
    <3>2. n <= Len(j) + (k - Len(j))
      BY <1>5, <3>1
    <3> QED
      BY <1>1, <2>1, <3>1, <3>2
  <2>2. {k \in AttemptPositions(j, id) : k < Len(j) + 1}
            = {k \in AttemptPositions(jd, id) : k < n}
    <3>1. \A k \in AttemptPositions(j, id) : k < Len(j) + 1 /\ k < n
      BY <1>1, <1>2, <1>5
    <3> QED
      BY <1>2, <1>3, <2>1, <3>1
  <2>3. \A k \in AttemptPositions(j, id) : k < Len(j) + 1 => j[k] = jd[k]
    BY <1>1, <1>2
  <2> QED
    BY <2>2, <2>3, StatusAgrees DEF AttemptStatus
<1> QED
  BY <1>1, <1>4, <1>5

LEMMA AttemptsStillLoad ==
    ASSUME NEW j \in Seq(EventRecord), NEW d \in Seq(EventRecord), AttemptsInOrder(j),
           AttemptsInOrder(j \o d), AttemptsLoad(j),
           \A k \in AttemptEventsOf(d) :
               /\ AttemptEventStatus[d[k].type]
                      \in AttemptTransitions[StatusBefore(j \o d, Len(j) + k, d[k].id)]
               /\ \/ d[k].id \in ClosedIn(j \o d)
                  \/ AttemptStatus(j \o d, d[k].id) \in OpenStatuses(j \o d, d[k].id)
    PROVE  AttemptsLoad(j \o d)
<1> DEFINE jd == j \o d
<1>1. /\ jd = j \o d /\ jd \in Seq(EventRecord) /\ Len(j) \in Nat /\ Len(d) \in Nat
      /\ DOMAIN j = 1 .. Len(j) /\ DOMAIN d = 1 .. Len(d)
      /\ DOMAIN jd = 1 .. Len(j) + Len(d) /\ Len(jd) = Len(j) + Len(d)
      /\ \A k \in 1 .. Len(j) : jd[k] = j[k]
      /\ \A k \in 1 .. Len(j) + Len(d) :
             k \in 1 .. Len(j) \/ (k > Len(j) /\ k - Len(j) \in 1 .. Len(d)
                                   /\ jd[k] = d[k - Len(j)])
  BY JoinedAt
<1>2. /\ StartedIn(jd) = StartedIn(j) \cup StartedIn(d)
      /\ ClosedIn(jd) = ClosedIn(j) \cup ClosedIn(d)
      /\ Prepared(jd) = Prepared(j) \cup Attempts(d)
  <2>1. /\ StartedIn(jd) = StartedIn(j) \cup StartedIn(d)
        /\ ClosedIn(jd) = ClosedIn(j) \cup ClosedIn(d)
        /\ Attempts(jd) = Attempts(j) \cup Attempts(d)
    BY AttemptsJoined
  <2>2. AttemptsInOrder(jd)
    OBVIOUS
  <2> HIDE DEF jd
  <2>3. Attempts(jd) = Prepared(jd) /\ Attempts(j) = Prepared(j)
    BY <1>1, <2>2, InOrder
  <2> QED
    BY <2>1, <2>3
<1>a. \A k \in AttemptEventsOf(d) :
          /\ AttemptEventStatus[d[k].type]
                 \in AttemptTransitions[StatusBefore(jd, Len(j) + k, d[k].id)]
          /\ \/ d[k].id \in ClosedIn(jd)
             \/ AttemptStatus(jd, d[k].id) \in OpenStatuses(jd, d[k].id)
  OBVIOUS
<1>b. \A n \in Nat : \A id :
          /\ n <= Len(j) + 1 => StatusBefore(jd, n, id) = StatusBefore(j, n, id)
          /\ /\ n > Len(j)
             /\ \A k \in AttemptEventsOf(d) : d[k].id = id => n <= Len(j) + k
             => StatusBefore(jd, n, id) = AttemptStatus(j, id)
  BY StatusJoined
<1> HIDE DEF jd
<1>3. ASSUME NEW k \in DOMAIN jd, jd[k].type \in AttemptEvents
      PROVE  AttemptEventStatus[jd[k].type] \in AttemptTransitions[StatusBefore(jd, k, jd[k].id)]
  <2>1. CASE k \in 1 .. Len(j)
    <3>1. jd[k] = j[k] /\ k \in Nat /\ k <= Len(j) + 1 /\ k \in DOMAIN j
      BY <1>1, <2>1
    <3>2. StatusBefore(jd, k, jd[k].id) = StatusBefore(j, k, j[k].id)
      BY <1>b, <3>1
    <3> QED
      BY <1>3, <3>1, <3>2 DEF AttemptsLoad, AttemptsWellFormed
  <2>2. CASE k \notin 1 .. Len(j)
    <3>1. k - Len(j) \in AttemptEventsOf(d) /\ jd[k] = d[k - Len(j)]
          /\ Len(j) + (k - Len(j)) = k
      BY <1>1, <1>3, <2>2 DEF AttemptEventsOf
    <3> QED
      BY <1>a, <3>1
  <2> QED
    BY <2>1, <2>2
<1>4. ASSUME NEW id \in Prepared(jd) \ ClosedIn(jd)
      PROVE  AttemptStatus(jd, id) \in OpenStatuses(jd, id)
  <2>1. CASE \E k \in AttemptEventsOf(d) : d[k].id = id
    BY <1>a, <1>4, <2>1
  <2>2. CASE \A k \in AttemptEventsOf(d) : d[k].id # id
    <3>1. id \notin Attempts(d) /\ id \notin StartedIn(d)
      BY <2>2, ClosingsByType DEF Attempts, StartedIn, AttemptsAt
    <3>2. id \in Prepared(j) \ ClosedIn(j) /\ (id \in StartedIn(jd) <=> id \in StartedIn(j))
      BY <1>2, <1>4, <3>1
    <3>3. AttemptStatus(jd, id) = AttemptStatus(j, id)
      <4>1. Len(jd) + 1 \in Nat /\ Len(jd) + 1 > Len(j)
        BY <1>1
      <4> QED
        BY <1>b, <2>2, <4>1 DEF AttemptStatus
    <3> QED
      BY <3>2, <3>3 DEF AttemptsLoad, OpenStatuses
  <2> QED
    BY <2>1, <2>2
<1> QED
  BY <1>3, <1>4 DEF AttemptsLoad, AttemptsWellFormed, jd

(* Event k is the last about the attempt, of those appended before position n. *)
LastAppended(j, d, n, id, k) ==
    /\ k \in AttemptEventsOf(d) /\ d[k].id = id /\ Len(j) + k < n
    /\ \A l \in AttemptEventsOf(d) : d[l].id = id /\ Len(j) + l < n => l <= k

(* The last of the events appended about an attempt tells its status. *)
LEMMA StatusAppended ==
    ASSUME NEW j \in Seq(EventRecord), NEW d \in Seq(EventRecord), NEW n \in Nat, NEW id, NEW k,
           LastAppended(j, d, n, id, k)
    PROVE  StatusBefore(j \o d, n, id) = AttemptEventStatus[d[k].type]
<1>a. /\ k \in AttemptEventsOf(d) /\ d[k].id = id /\ Len(j) + k < n
      /\ \A l \in AttemptEventsOf(d) : d[l].id = id /\ Len(j) + l < n => l <= k
  BY DEF LastAppended
<1> DEFINE jd == j \o d
           m == Len(j) + k
<1>1. /\ jd = j \o d /\ jd \in Seq(EventRecord) /\ Len(j) \in Nat
      /\ DOMAIN j = 1 .. Len(j) /\ DOMAIN d = 1 .. Len(d) /\ Len(d) \in Nat
      /\ DOMAIN jd = 1 .. Len(j) + Len(d)
      /\ \A l \in 1 .. Len(d) : jd[Len(j) + l] = d[l]
      /\ \A l \in 1 .. Len(j) + Len(d) :
             l \in 1 .. Len(j) \/ (l > Len(j) /\ l - Len(j) \in 1 .. Len(d)
                                   /\ jd[l] = d[l - Len(j)])
  BY JoinedAt
<1> HIDE DEF jd
<1>2. k \in 1 .. Len(d) /\ d[k].type \in AttemptEvents
  BY <1>1, <1>a DEF AttemptEventsOf
<1>3. m \in 1 .. Len(j) + Len(d) /\ jd[m] = d[k] /\ m = Len(j) + k /\ m < n
  BY <1>1, <1>2, <1>a
<1> HIDE DEF m
<1>4. m \in AttemptPositions(jd, id)
  BY <1>1, <1>2, <1>3, <1>a DEF AttemptPositions
<1>5. ASSUME NEW l \in AttemptPositions(jd, id), l < n
      PROVE  l <= m
  <2>1. l \in 1 .. Len(j) + Len(d) /\ jd[l].type \in AttemptEvents /\ jd[l].id = id
    BY <1>1 DEF AttemptPositions
  <2>2. CASE l \in 1 .. Len(j)
    BY <1>1, <1>2, <1>3, <2>2
  <2>3. CASE l > Len(j) /\ l - Len(j) \in 1 .. Len(d) /\ jd[l] = d[l - Len(j)]
    <3> DEFINE i == l - Len(j)
    <3>1. i \in 1 .. Len(d) /\ jd[l] = d[i] /\ l = Len(j) + i
      BY <1>1, <2>1, <2>3
    <3> HIDE DEF i
    <3>2. i \in AttemptEventsOf(d) /\ d[i].id = id
      BY <1>1, <2>1, <3>1 DEF AttemptEventsOf
    <3>3. i <= k
      BY <1>5, <1>a, <3>1, <3>2
    <3> QED
      BY <1>1, <1>2, <1>3, <3>1, <3>3
  <2> QED
    BY <1>1, <2>1, <2>2, <2>3
<1>6. StatusBefore(jd, n, id) = AttemptEventStatus[jd[m].type]
  <2>1. jd \in Seq(EventRecord) /\ m < n
        /\ \A l \in AttemptPositions(jd, id) : l < n => l <= m
    BY <1>1, <1>3, <1>5
  <2> QED
    BY <1>4, <2>1, StatusByLast, Zenon
<1> QED
  BY <1>1, <1>3, <1>6

(* The steps of an attempt that a journal can be loaded with. *)
MoveLoads(journal, e) ==
    /\ AttemptEventStatus[e.type] \in AttemptTransitions[AttemptStatus(journal, e.id)]
    /\ \/ e.type \in ClosingTypes
       \/ e.type = "action_prepared" /\ e.id \notin StartedIn(journal)
       \/ e.type = "action_execution_started"
       \/ e.type = "action_reconciliation_required" /\ e.id \in StartedIn(journal)

LEMMA MovedLoads ==
    ASSUME NEW j \in Seq(EventRecord), NEW d \in Seq(EventRecord), AttemptsInOrder(j),
           AttemptsInOrder(j \o d), AttemptsLoad(j), NEW k, AttemptEventsOf(d) = {k},
           MoveLoads(j, d[k])
    PROVE  /\ AttemptsLoad(j \o d)
           /\ AttemptStatus(j \o d, d[k].id) = AttemptEventStatus[d[k].type]
<1> DEFINE jd == j \o d
           id == d[k].id
<1>1. /\ jd = j \o d /\ Len(j) \in Nat /\ Len(d) \in Nat /\ Len(jd) = Len(j) + Len(d)
      /\ DOMAIN d = 1 .. Len(d)
  BY JoinedAt
<1>2. k \in 1 .. Len(d) /\ d[k].type \in AttemptEvents /\ k \in AttemptEventsOf(d)
  BY <1>1 DEF AttemptEventsOf
<1>3. /\ StartedIn(jd) = StartedIn(j) \cup StartedIn(d)
      /\ ClosedIn(jd) = ClosedIn(j) \cup ClosedIn(d)
  BY AttemptsJoined
<1>4. StatusBefore(jd, Len(j) + k, id) = AttemptStatus(j, id)
  <2>1. Len(j) + k \in Nat /\ Len(j) + k > Len(j)
    BY <1>1, <1>2
  <2>2. \A l \in AttemptEventsOf(d) : d[l].id = id => Len(j) + k <= Len(j) + l
    BY <2>1
  <2> QED
    BY <2>1, <2>2, StatusJoined
<1>5. AttemptStatus(jd, id) = AttemptEventStatus[d[k].type]
  <2> DEFINE n == Len(jd) + 1
  <2>1. n \in Nat /\ Len(j) + k < n /\ k <= k
    BY <1>1, <1>2
  <2>2. AttemptStatus(jd, id) = StatusBefore(jd, n, id)
    BY DEF AttemptStatus
  <2> HIDE DEF n
  <2>3. StatusBefore(j \o d, n, id) = AttemptEventStatus[d[k].type]
    BY <1>2, <2>1, StatusAppended DEF LastAppended
  <2> QED
    BY <2>2, <2>3
<1>6. /\ AttemptEventStatus[d[k].type] \in AttemptTransitions[AttemptStatus(j, id)]
      /\ \/ d[k].type \in ClosingTypes
         \/ d[k].type = "action_prepared" /\ id \notin StartedIn(j)
         \/ d[k].type = "action_execution_started"
         \/ d[k].type = "action_reconciliation_required" /\ id \in StartedIn(j)
  BY DEF MoveLoads
<1>7. id \in ClosedIn(jd) \/ AttemptStatus(jd, id) \in OpenStatuses(jd, id)
  <2>1. /\ Closings(d) = {l \in DOMAIN d : d[l].type \in ClosingTypes}
        /\ Starts(d) \subseteq {k}
    BY ClosingsByType
  <2> HIDE DEF jd, id
  <2>2. ASSUME d[k].type \in ClosingTypes
        PROVE  id \in ClosedIn(d)
    BY <1>1, <1>2, <2>1, <2>2 DEF ClosedIn, AttemptsAt, id
  <2>3. ASSUME d[k].type = "action_prepared", id \notin StartedIn(j)
        PROVE  AttemptStatus(jd, id) \in OpenStatuses(jd, id)
    <3>1. Starts(d) = {}
      BY <2>1, <2>3 DEF Starts
    <3>2. StartedIn(d) = {}
      BY <3>1 DEF StartedIn, AttemptsAt
    <3> QED
      BY <1>3, <1>5, <2>3, <3>2 DEF OpenStatuses, AttemptEventStatus
  <2>4. ASSUME d[k].type = "action_execution_started"
        PROVE  AttemptStatus(jd, id) \in OpenStatuses(jd, id)
    <3>1. k \in Starts(d)
      BY <1>1, <1>2, <2>4 DEF Starts
    <3>2. id \in StartedIn(d)
      BY <3>1 DEF StartedIn, AttemptsAt, id
    <3> QED
      BY <1>3, <1>5, <2>4, <3>2 DEF OpenStatuses, AttemptEventStatus
  <2>5. ASSUME d[k].type = "action_reconciliation_required", id \in StartedIn(j)
        PROVE  AttemptStatus(jd, id) \in OpenStatuses(jd, id)
    BY <1>3, <1>5, <2>5 DEF OpenStatuses, AttemptEventStatus
  <2> QED
    BY <1>3, <1>6, <2>2, <2>3, <2>4, <2>5
<1>8. \A l \in AttemptEventsOf(d) :
          /\ AttemptEventStatus[d[l].type]
                 \in AttemptTransitions[StatusBefore(j \o d, Len(j) + l, d[l].id)]
          /\ \/ d[l].id \in ClosedIn(j \o d)
             \/ AttemptStatus(j \o d, d[l].id) \in OpenStatuses(j \o d, d[l].id)
  BY <1>4, <1>6, <1>7
<1>9. AttemptsLoad(j \o d)
  BY <1>8, AttemptsStillLoad
<1> QED
  BY <1>5, <1>9

LEMMA SettledLoads ==
    ASSUME NEW j \in Seq(EventRecord), NEW d \in Seq(EventRecord), AttemptsInOrder(j),
           AttemptsInOrder(j \o d), AttemptsLoad(j), NEW id \in Prepared(j) \ ClosedIn(j),
           Settles(d, id),
           \A k \in AttemptEventsOf(d) : d[k].type = "action_execution_confirmed" =>
               AttemptStatus(j, id) = "execution_started"
    PROVE  AttemptsLoad(j \o d)
<1>1. AttemptStatus(j, id) \in {"execution_started", "reconciliation_required", "prepared"}
  BY DEF AttemptsLoad, OpenStatuses
<1>2. ASSUME NEW k, AttemptEventsOf(d) = {k}, d[k].type \in SettlingTypes
      PROVE  AttemptsLoad(j \o d)
  <2>1. d[k].id = id
    BY <1>2 DEF Settles
  <2>2. MoveLoads(j, d[k])
    BY <1>1, <1>2, <2>1 DEF MoveLoads, SettlingTypes, ClosingTypes, AttemptEventStatus,
                            AttemptTransitions
  <2> QED
    BY <1>2, <2>2, MovedLoads
<1>3. ASSUME NEW k, NEW l, AttemptEventsOf(d) = {k, l}, k < l,
             d[k].type = "action_execution_confirmed",
             d[l].type = "action_checkpoint_committed"
      PROVE  AttemptsLoad(j \o d)
  <2> DEFINE jd == j \o d
  <2>1. /\ jd = j \o d /\ Len(j) \in Nat /\ Len(d) \in Nat /\ DOMAIN d = 1 .. Len(d)
    BY JoinedAt
  <2>2. /\ k \in 1 .. Len(d) /\ l \in 1 .. Len(d) /\ d[k].id = id /\ d[l].id = id
        /\ k \in AttemptEventsOf(d) /\ l \in AttemptEventsOf(d)
        /\ AttemptStatus(j, id) = "execution_started"
    <3>1. k \in AttemptEventsOf(d) /\ l \in AttemptEventsOf(d)
      BY <1>3
    <3> QED
      BY <1>3, <2>1, <3>1 DEF Settles, AttemptEventsOf
  <2>3. StatusBefore(jd, Len(j) + k, id) = "execution_started"
    <3>1. Len(j) + k \in Nat /\ Len(j) + k > Len(j)
          /\ Len(j) + k <= Len(j) + k /\ Len(j) + k <= Len(j) + l
      BY <1>3, <2>1, <2>2
    <3>2. \A i \in AttemptEventsOf(d) : d[i].id = id => Len(j) + k <= Len(j) + i
      BY <1>3, <3>1
    <3> QED
      BY <2>2, <3>1, <3>2, StatusJoined
  <2>4. StatusBefore(jd, Len(j) + l, id) = "execution_confirmed"
    <3> DEFINE n == Len(j) + l
    <3>1. n \in Nat /\ Len(j) + k < n /\ ~(Len(j) + l < n) /\ k <= k
      BY <1>3, <2>1, <2>2
    <3> HIDE DEF n
    <3>2. \A i \in AttemptEventsOf(d) : d[i].id = id /\ Len(j) + i < n => i <= k
      BY <1>3, <3>1
    <3>3. n \in Nat /\ LastAppended(j, d, n, id, k)
      BY <2>2, <3>1, <3>2 DEF LastAppended
    <3>4. StatusBefore(j \o d, n, id) = AttemptEventStatus[d[k].type]
      BY <3>3, StatusAppended
    <3>5. AttemptEventStatus[d[k].type] = "execution_confirmed"
      BY <1>3 DEF AttemptEventStatus
    <3>6. StatusBefore(jd, n, id) = StatusBefore(j \o d, n, id) /\ n = Len(j) + l
      BY DEF n
    <3> HIDE DEF jd
    <3> QED
      BY <3>4, <3>5, <3>6
  <2>5. id \in ClosedIn(jd)
    <3>1. l \in Closings(d)
      BY <1>3, <2>1, <2>2, ClosingsByType DEF ClosingTypes
    <3>2. id \in ClosedIn(d)
      BY <2>2, <3>1 DEF ClosedIn, AttemptsAt
    <3> QED
      BY <3>2, AttemptsJoined
  <2> HIDE DEF jd
  <2>6. \A i \in AttemptEventsOf(d) :
            /\ AttemptEventStatus[d[i].type]
                   \in AttemptTransitions[StatusBefore(jd, Len(j) + i, d[i].id)]
            /\ \/ d[i].id \in ClosedIn(jd)
               \/ AttemptStatus(jd, d[i].id) \in OpenStatuses(jd, d[i].id)
    BY <1>3, <2>2, <2>3, <2>4, <2>5 DEF AttemptEventStatus, AttemptTransitions
  <2> QED
    BY <2>1, <2>6, AttemptsStillLoad
<1> QED
  BY <1>2, <1>3 DEF Settles

LEMMA QuietLoads ==
    ASSUME NEW j \in Seq(EventRecord), NEW d \in Seq(EventRecord), AttemptsInOrder(j),
           AttemptsInOrder(j \o d), AttemptsLoad(j), AttemptEventsOf(d) = {}
    PROVE  AttemptsLoad(j \o d)
  BY AttemptsStillLoad

--------------------------------------------------------------------------------
(* One transaction, and what can be loaded after it. *)

(* What a transaction does to the requests: it keeps them in a task that   *)
(* may keep them, it makes one where there is none, or it answers one.     *)
RequestsKept(c) ==
    /\ c.create = {} /\ c.update = {}
    /\ Pending(store.approvals) # {} => c.task.status \in {"waiting", "cancelled"}
    /\ c.task.status = "waiting" =>
           /\ store.task.status = "waiting"
           /\ c.task.approvedAction = store.task.approvedAction

RequestMade(c) ==
    /\ Pending(store.approvals) = {} /\ c.task.status = "waiting" /\ c.update = {}
    /\ \E a : c.create = {a} /\ a.status = "pending"

RequestAnswered(c) ==
    /\ c.create = {} /\ \E u : c.update = {u} /\ u.status # "pending"
    /\ c.task.status = "waiting" => c.task.approvedAction # NoVal

(* What a transaction must establish. *)
RecordsWritten(c) ==
    LET journal == store.journal \o c.drafts
    IN  /\ AttemptsLoad(journal)
        /\ Saves(c, LatestObservation(store.journal))
        /\ c.task.status \in ObservedStatuses =>
               store.task.status \in ObservedStatuses \/ LatestObservation(journal) # NoVal
        /\ RequestsKept(c) \/ RequestMade(c) \/ RequestAnswered(c)

(* A task record a transaction can be based on. *)
Loadable(t) == Cancellation(t) /\ InStatus(store, t)

LEMMA EndingStored ==
    ASSUME RuntimeInv, RecordsInv, NEW c, NEW t, Numbered(c, t), Ends(c, t), Loadable(t),
           Accepts(store, c), store' = Stored(store, c), TerminalKept
    PROVE  EndingLoads(store') /\ Cancellation(c.task)
<1> DEFINE j == store.journal
           d == c.drafts
<1>1. store \in StoreType
  BY DEF RuntimeInv, LedgerInv, TypeInv, StoreOK
<1>2. /\ j \in Seq(EventRecord) /\ d \in Seq(EventRecord) /\ store'.journal = j \o d
      /\ Len(store'.journal) = Len(j) + Len(d) /\ store'.task = c.task
      /\ Len(j) \in Nat /\ Len(d) \in Nat \ {0} /\ Newest(store, t)
  BY <1>1, NumberedStored
<1>3. t.status = store.task.status
  BY <1>2 DEF Loadable, InStatus
<1>4. store' # store
  <2> DEFINE n == Len(j)
             m == Len(d)
  <2>1. n \in Nat /\ m \in Nat \ {0} /\ Len(store'.journal) = n + m
        /\ Len(store.journal) = n
    BY <1>2
  <2> HIDE DEF n, m
  <2>2. n + m # n
    BY <2>1
  <2> QED
    BY <2>1, <2>2
<1>5. Cancellation(c.task)
  <2>1. t.cancelRequested => store.task.status = "cancelled"
    BY <1>3 DEF Loadable, Cancellation
  <2>2. store.task.status = "cancelled" => c.task.status = "cancelled"
    BY <1>2, StatusWords DEF TerminalKept
  <2> QED
    BY <2>1, <2>2 DEF Ends, Cancellation
<1>6. ASSUME c.task.status \in Terminal \ {"cancelled"}
      PROVE  store'.journal[Len(store'.journal)].type = TerminalEvent[c.task.status]
  <2>1. c.task.status # t.status
    BY <1>3, <1>4, <1>6 DEF TerminalKept
  <2>2. d[Len(d)].type = TerminalEvent[c.task.status]
    BY <1>6, <2>1 DEF Ends
  <2>3. (j \o d)[Len(j) + Len(d)] = d[Len(d)]
    <3>1. Len(d) \in 1 .. Len(d)
      BY <1>2
    <3> QED
      BY <1>2, <3>1, JoinedAt
  <2> QED
    BY <1>2, <2>2, <2>3
<1> QED
  BY <1>2, <1>5, <1>6 DEF EndingLoads

LEMMA ApprovalsLoaded ==
    ASSUME RuntimeInv, RecordsInv, NEW c, Accepts(store, c), store' = Stored(store, c),
           RequestsKept(c) \/ RequestMade(c) \/ RequestAnswered(c)
    PROVE  ApprovalsLoad(store')
<1> DEFINE kept == {a \in store.approvals : \A u \in c.update : u.id # a.id}
<1>1. store'.approvals = kept \cup c.create \cup c.update /\ store'.task = c.task
  BY DEF Stored
<1>2. /\ \A a, b \in Pending(store.approvals) : a = b
      /\ Pending(store.approvals) # {} => store.task.status \in {"waiting", "cancelled"}
      /\ store.task.status = "waiting" =>
             Pending(store.approvals) # {} \/ store.task.approvedAction # NoVal
  BY DEF RecordsInv, ApprovalsLoad
<1>3. CASE RequestsKept(c)
  <2>1. store'.approvals = store.approvals
    BY <1>1, <1>3 DEF RequestsKept
  <2> QED
    BY <1>1, <1>2, <1>3, <2>1 DEF RequestsKept, ApprovalsLoad
<1>4. CASE RequestMade(c)
  <2>1. PICK a : c.create = {a} /\ a.status = "pending"
    BY <1>4 DEF RequestMade
  <2>2. c.update = {} /\ Pending(store.approvals) = {} /\ c.task.status = "waiting"
    BY <1>4 DEF RequestMade
  <2>3. Pending(store'.approvals) = {a}
    BY <1>1, <2>1, <2>2 DEF Pending
  <2> QED
    BY <1>1, <2>2, <2>3 DEF ApprovalsLoad
<1>5. CASE RequestAnswered(c)
  <2>1. PICK u : c.update = {u} /\ u.status # "pending"
    BY <1>5 DEF RequestAnswered
  <2>2. PICK b \in store.approvals : b.id = u.id /\ b.status = "pending"
    BY <2>1 DEF Accepts, ApprovalResolvable
  <2>3. Pending(kept) = {}
    BY <1>2, <2>1, <2>2 DEF Pending
  <2>4. c.create = {} /\ (c.task.status = "waiting" => c.task.approvedAction # NoVal)
    BY <1>5 DEF RequestAnswered
  <2>5. Pending(store'.approvals) = {}
    BY <1>1, <2>1, <2>3, <2>4 DEF Pending
  <2> QED
    BY <1>1, <2>4, <2>5 DEF ApprovalsLoad
<1> QED
  BY <1>3, <1>4, <1>5

LEMMA CheckpointStored ==
    ASSUME RuntimeInv, RecordsInv, NEW c, NEW t, Numbered(c, t),
           Accepts(store, c), store' = Stored(store, c), RecordsWritten(c)
    PROVE  CheckpointLoads(store')
<1> DEFINE j  == store.journal
           d  == c.drafts
           before == LatestObservation(j)
           after  == LatestObservation(j \o d)
<1>1. store \in StoreType
  BY DEF RuntimeInv, LedgerInv, TypeInv, StoreOK
<1>2. /\ j \in Seq(EventRecord) /\ d \in Seq(EventRecord) /\ store'.journal = j \o d
      /\ Len(store'.journal) = Len(j) + Len(d) /\ store'.task = c.task
      /\ Len(j) \in Nat /\ Len(d) \in Nat \ {0} /\ Newest(store', c.task)
  BY <1>1, NumberedStored
<1>3. /\ store.task.status \in ObservedStatuses => before # NoVal
      /\ before = store.checkpoint.state
      /\ store.checkpoint.state = NoVal => store.checkpoint = NoCheckpoint
      /\ store.checkpoint.seq <= Len(j) /\ store.checkpoint.seq \in Nat
  BY <1>1 DEF RecordsInv, CheckpointLoads, StoreType
<1>4. after = IF c.snap = NoVal THEN before ELSE c.snap
  BY <1>2, LastShown DEF RecordsWritten, Saves
<1>5. /\ c.task.status \in ObservedStatuses =>
             store.task.status \in ObservedStatuses \/ after # NoVal
      /\ c.task.sequence = Len(store'.journal)
  BY <1>2 DEF RecordsWritten, Newest
<1>6. store'.checkpoint = IF c.snap = NoVal THEN store.checkpoint
                          ELSE [seq |-> c.task.sequence, state |-> c.snap]
  BY DEF Stored
<1>7. after = LatestObservation(store'.journal)
  BY <1>2
<1> HIDE DEF after, before, j, d
<1>8. /\ after = store'.checkpoint.state
      /\ store'.checkpoint.state = NoVal => store'.checkpoint = NoCheckpoint
      /\ store'.checkpoint.seq <= Len(store'.journal)
  BY <1>2, <1>3, <1>4, <1>5, <1>6
<1>9. c.task.status \in ObservedStatuses => after # NoVal
  BY <1>3, <1>4, <1>5
<1> QED
  BY <1>2, <1>7, <1>8, <1>9 DEF CheckpointLoads

(* What run_runtime's shutdown would checkpoint is the journal's last      *)
(* observation, or that of a game outside.                                 *)
ShutdownSaves(s, p) ==
    Newest(s, p.outer) /\ p.outer.status = "running" =>
        External \/ p.sim = LatestObservation(s.journal)

LEMMA RestingInRecords ==
    ASSUME NEW s, NEW p, p.pc \notin Acting \cup {"start", "error"},
           Cancellation(p.rec), Cancellation(p.outer), ShutdownSaves(s, p)
    PROVE  SessionInRecords(s, p)
  BY DEF SessionInRecords, ShutdownSaves, Acting

LEMMA RecordsStored ==
    ASSUME RuntimeInv, RecordsInv, NEW c, NEW t, Numbered(c, t), Ends(c, t), Loadable(t),
           Accepts(store, c), store' = Stored(store, c), TerminalKept, RecordsWritten(c)
    PROVE  /\ EndingLoads(store') /\ AttemptsLoad(store'.journal)
           /\ ApprovalsLoad(store') /\ CheckpointLoads(store')
           /\ Cancellation(c.task) /\ store'.journal = store.journal \o c.drafts
           /\ \A u \in TaskRecord : u.sequence <= Len(store.journal) => ~Newest(store', u)
           /\ \A q \in Runners : SessionInRecords(store', proc[q])
<1>1. /\ store \in StoreType
      /\ \A q \in Runners : /\ proc[q].rec \in TaskRecord /\ proc[q].outer \in TaskRecord
                            /\ proc[q].rec.sequence <= Len(store.journal)
                            /\ proc[q].outer.sequence <= Len(store.journal)
                            /\ SessionInRecords(store, proc[q])
  BY RuntimeFacts DEF RuntimeInv, LedgerInv, TypeInv, StoreOK, RecordsInv
<1>2. \A u \in TaskRecord : u.sequence <= Len(store.journal) => ~Newest(store', u)
  BY <1>1, NoLongerNewest
<1>3. ASSUME NEW q \in Runners
      PROVE  SessionInRecords(store', proc[q])
  <2>1. ~Newest(store', proc[q].rec) /\ ~Newest(store', proc[q].outer)
    BY <1>1, <1>2
  <2> QED
    BY <1>1, <2>1 DEF SessionInRecords
<1>4. store'.journal = store.journal \o c.drafts
  BY DEF Stored
<1> QED
  BY <1>2, <1>3, <1>4, EndingStored, ApprovalsLoaded, CheckpointStored DEF RecordsWritten

(* A session of its own and the task record it closed with, after a commit. *)
Continues(r, c, done, failed) ==
    /\ done.rec \in {c.task, NewTask} /\ done.outer \in {c.task, NewTask, proc[r].outer}
    /\ done.pc \notin {"start", "error", "executed"}
    /\ done.pc \in Acting => done.outer = proc[r].outer
    /\ failed.pc \notin Acting \cup {"start", "error"} /\ failed.rec = NewTask
    /\ failed.outer \in {NewTask, proc[r].outer, proc[r].rec} /\ ShutdownSaves(store, failed)

(* What the session that made the transaction must see. *)
SeesRecords(r, c, done) ==
    LET observation == LatestObservation(store.journal \o c.drafts)
    IN  /\ done.outer \notin {NewTask, proc[r].outer} /\ c.task.status = "running" =>
               External \/ done.sim = observation
        /\ done.pc \in Acting => done.obs = observation

LEMMA NewTaskLoadable == Cancellation(NewTask) /\ NewTask.status = "pending"
  BY DEF Cancellation, NewTask

LEMMA SubmitRecords ==
    ASSUME RuntimeInv, TerminalKept, RecordsInv, NEW r \in Runners, NEW c, NEW t,
           Numbered(c, t), Ends(c, t), Cancellation(t), t \in {proc[r].rec, proc[r].outer},
           NEW done, NEW failed, Submit(r, c, done, failed), UNCHANGED command,
           Continues(r, c, done, failed),
           ASSUME Newest(store, t), Accepts(store, c), store' = Stored(store, c)
           PROVE  RecordsWritten(c) /\ SeesRecords(r, c, done)
    PROVE  RecordsInv'
<1>1. /\ DOMAIN proc = Runners /\ store \in StoreType
      /\ \A q \in Runners : SessionInRecords(store, proc[q])
      /\ \A o \in Operators : Cancellation(command'[o].view.task)
  BY DEF RuntimeInv, LedgerInv, TypeInv, StoreOK, RecordsInv
<1>2. Loadable(t)
  BY RuntimeFacts DEF Loadable, InStatus, SessionInStatus
<1>3. Cancellation(failed.rec) /\ Cancellation(failed.outer)
  BY <1>1, NewTaskLoadable DEF Continues, SessionInRecords
<1>4. CASE Accepts(store, c) /\ store' = Stored(store, c)
  <2>1. proc' = [proc EXCEPT ![r] = done] \/ proc' = [proc EXCEPT ![r] = failed]
    BY DEF Submit
  <2>2. Newest(store, t)
    BY <1>1, <1>4, NumberedStored
  <2>3. RecordsWritten(c) /\ SeesRecords(r, c, done)
    BY <1>4, <2>2
  <2>4. /\ EndingLoads(store') /\ AttemptsLoad(store'.journal)
        /\ ApprovalsLoad(store') /\ CheckpointLoads(store')
        /\ Cancellation(c.task) /\ store'.journal = store.journal \o c.drafts
        /\ \A u \in TaskRecord : u.sequence <= Len(store.journal) => ~Newest(store', u)
        /\ \A q \in Runners : SessionInRecords(store', proc[q])
    BY <1>2, <1>4, <2>3, RecordsStored
  <2>5. /\ ~Newest(store', NewTask) /\ ~Newest(store', proc[r].outer)
        /\ ~Newest(store', proc[r].rec)
    BY <2>4, RuntimeFacts
  <2>6. SessionInRecords(store', failed)
    <3>1. ShutdownSaves(store', failed)
      BY <2>5 DEF Continues, ShutdownSaves
    <3> QED
      BY <1>3, <3>1, RestingInRecords DEF Continues
  <2>7. SessionInRecords(store', done)
    <3>1. Cancellation(done.rec) /\ Cancellation(done.outer)
      BY <1>1, <2>4, NewTaskLoadable DEF Continues, SessionInRecords
    <3>2. ShutdownSaves(store', done)
      <4>1. ASSUME Newest(store', done.outer), done.outer.status = "running"
            PROVE  External \/ done.sim = LatestObservation(store'.journal)
        <5>1. done.outer = c.task /\ done.outer \notin {NewTask, proc[r].outer}
          BY <2>5, <4>1 DEF Continues
        <5> QED
          BY <2>3, <2>4, <4>1, <5>1 DEF SeesRecords
      <4> QED
        BY <4>1 DEF ShutdownSaves
    <3>3. done.pc \in Acting => /\ done.obs = LatestObservation(store'.journal)
                                /\ ~Newest(store', done.outer)
      BY <2>3, <2>4, <2>5 DEF SeesRecords, Continues
    <3> QED
      BY <3>1, <3>2, <3>3 DEF SessionInRecords, ShutdownSaves, Continues, Acting
  <2>8. \A q \in Runners : SessionInRecords(store', proc'[q])
    BY <1>1, <2>1, <2>4, <2>6, <2>7
  <2> QED
    BY <1>1, <2>4, <2>8 DEF RecordsInv
<1>5. CASE store' = store /\ proc' = [proc EXCEPT ![r] = failed]
  <2>1. SessionInRecords(store, failed)
    BY <1>3, RestingInRecords DEF Continues
  <2>2. \A q \in Runners : SessionInRecords(store', proc'[q])
    BY <1>1, <1>5, <2>1
  <2> QED
    BY <1>1, <1>5, <2>2 DEF RecordsInv
<1> QED
  BY <1>4, <1>5 DEF Submit

(* A step of session r without a transaction. *)
LEMMA SessionStepRecords ==
    ASSUME RuntimeInv, RecordsInv, NEW r \in Runners, NEW next,
           proc' = [proc EXCEPT ![r] = next], UNCHANGED <<store, command>>,
           SessionInRecords(store, next)
    PROVE  RecordsInv'
<1>1. DOMAIN proc = Runners /\ \A q \in Runners : SessionInRecords(store, proc[q])
  BY DEF RuntimeInv, LedgerInv, TypeInv, RecordsInv
<1>2. \A q \in Runners : SessionInRecords(store', proc'[q])
  BY <1>1
<1> QED
  BY <1>2 DEF RecordsInv

(* A transaction of operator o. *)
LEMMA ConcludeRecords ==
    ASSUME RuntimeInv, TerminalKept, RecordsInv, NEW o \in Operators, NEW c,
           command[o].name # "none", Numbered(c, command[o].view.task),
           Ends(c, command[o].view.task), Conclude(o, c),
           ASSUME command[o].view = store, Accepts(store, c), store' = Stored(store, c)
           PROVE  RecordsWritten(c)
    PROVE  RecordsInv'
<1> DEFINE t == command[o].view.task
<1>1. /\ DOMAIN command = Operators /\ store \in StoreType
      /\ \A q \in Runners : SessionInRecords(store, proc[q])
      /\ \A p \in Operators : Cancellation(command[p].view.task)
  BY DEF RuntimeInv, LedgerInv, TypeInv, StoreOK, RecordsInv
<1>2. UNCHANGED proc /\ command' = [command EXCEPT ![o] = NoCommand]
  BY DEF Conclude
<1>3. \A p \in Operators : Cancellation(command'[p].view.task)
  <2>1. NoCommand.view.task = NewTask
    BY DEF NoCommand, CreatedStore
  <2> QED
    BY <1>1, <1>2, <2>1, NewTaskLoadable
<1>4. Newest(store, t) => command[o].view = store
  BY ViewLedger DEF RuntimeInv
<1>5. Loadable(t)
  BY <1>1, <1>4 DEF Loadable, InStatus
<1>6. Numbered(c, t) /\ Ends(c, t)
  OBVIOUS
<1>7. CASE Accepts(store, c) /\ store' = Stored(store, c)
  <2>1. Newest(store, t)
    BY <1>1, <1>6, <1>7, NumberedStored
  <2>2. RecordsWritten(c)
    BY <1>4, <1>7, <2>1
  <2> HIDE DEF t
  <2>3. /\ EndingLoads(store') /\ AttemptsLoad(store'.journal)
        /\ ApprovalsLoad(store') /\ CheckpointLoads(store')
        /\ \A q \in Runners : SessionInRecords(store', proc[q])
    BY <1>5, <1>6, <1>7, <2>2, RecordsStored
  <2> QED
    BY <1>2, <1>3, <2>3 DEF RecordsInv
<1>8. CASE UNCHANGED store
  BY <1>1, <1>2, <1>3, <1>8 DEF RecordsInv
<1> QED
  BY <1>7, <1>8 DEF Conclude

--------------------------------------------------------------------------------
(* The steps. *)

LEMMA RecordsFacts ==
    ASSUME RuntimeInv, RecordsInv, NEW r \in Runners
    PROVE  /\ SessionInRecords(store, proc[r]) /\ ShutdownSaves(store, proc[r])
           /\ Cancellation(proc[r].rec) /\ Cancellation(proc[r].outer)
           /\ Cancellation(store.task) /\ AttemptsLoad(store.journal)
           /\ LatestObservation(store.journal) = store.checkpoint.state
           /\ store.task.status \in {"running", "pending"} => Pending(store.approvals) = {}
           /\ Newest(store, proc[r].rec) => /\ proc[r].rec.status = store.task.status
                                            /\ SameMeans(proc[r].rec, store.task)
           /\ Newest(store, proc[r].outer) => /\ proc[r].outer.status = store.task.status
                                              /\ SameMeans(proc[r].outer, store.task)
  BY RuntimeFacts DEF RecordsInv, SessionInRecords, ShutdownSaves, EndingLoads, CheckpointLoads,
                      ApprovalsLoad, SessionInStatus, HoldsAuthority

(* The session's next phase, if it has not the attempt. *)
LEMMA IdleFields ==
    /\ Idle.pc = "idle" /\ Idle.rec = NewTask /\ Idle.outer = NewTask
    /\ \A s : ShutdownSaves(s, Idle)
  BY NewTaskLoadable DEF Idle, ShutdownSaves

(* A transaction about no attempt can be loaded. *)
LEMMA QuietAttemptsLoad ==
    ASSUME RuntimeInv, RecordsInv, NEW c, CommitOK(c), AttemptEventsOf(c.drafts) = {}
    PROVE  AttemptsLoad(store.journal \o c.drafts)
<1> DEFINE j == store.journal
           d == c.drafts
<1>1. /\ j \in Seq(EventRecord) /\ d \in Seq(EventRecord) /\ AttemptsInOrder(j)
      /\ AttemptsLoad(j) /\ AttemptEventsOf(d) = {}
  BY DEF RuntimeInv, LedgerInv, TypeInv, StoreOK, StoreType, CommitOK, CommitType, RecordsInv
<1> HIDE DEF j, d
<1>2. AttemptsInOrder(j \o d)
  BY <1>1, WritesInOrder DEF Writes
<1>3. AttemptsLoad(j \o d)
  BY <1>1, <1>2, QuietLoads
<1> QED
  BY <1>3 DEF j, d

(* A transaction of one event about an attempt. *)
LEMMA EventSaves ==
    ASSUME NEW c, NEW e, c.drafts = <<e>>, e.type \in AttemptEvents, c.snap = NoVal
    PROVE  /\ AttemptEventsOf(c.drafts) = {1} /\ c.drafts[1] = e
           /\ Observed(c.drafts) = {} /\ \A before : Saves(c, before)
<1>1. DOMAIN c.drafts = {1} /\ c.drafts[1] = e
  OBVIOUS
<1>2. e.type # "observation_recorded"
  BY EventTypes
<1>3. AttemptEventsOf(c.drafts) = {1} /\ Observed(c.drafts) = {}
  BY <1>1, <1>2 DEF AttemptEventsOf, Observed
<1> QED
  BY <1>1, <1>3 DEF Saves, ShowsLast

LEMMA EventLoads ==
    ASSUME RuntimeInv, RecordsInv, NEW c, NEW t, Numbered(c, t), NEW e, c.drafts = <<e>>,
           e.type \in AttemptEvents, c.snap = NoVal, MoveLoads(store.journal, e),
           Accepts(store, c), store' = Stored(store, c), LedgerInv'
    PROVE  /\ AttemptsLoad(store.journal \o c.drafts) /\ Saves(c, LatestObservation(store.journal))
           /\ LatestObservation(store.journal \o c.drafts) = LatestObservation(store.journal)
<1> DEFINE j == store.journal
           d == c.drafts
<1>1. /\ j \in Seq(EventRecord) /\ d \in Seq(EventRecord) /\ AttemptsInOrder(j)
      /\ AttemptsLoad(j) /\ store'.journal = j \o d /\ AttemptsInOrder(store'.journal)
  BY DEF RuntimeInv, LedgerInv, TypeInv, StoreOK, StoreType, Numbered, CommitType, RecordsInv,
         Stored
<1>2. /\ AttemptEventsOf(d) = {1} /\ d[1] = e /\ Observed(d) = {}
      /\ Saves(c, LatestObservation(store.journal))
  BY EventSaves
<1>3. MoveLoads(j, d[1])
  BY <1>2
<1> HIDE DEF j, d
<1>4. AttemptsLoad(j \o d)
  BY <1>1, <1>2, <1>3, MovedLoads
<1>5. LatestObservation(j \o d) = LatestObservation(j)
  BY <1>1, <1>2, LastShown DEF ShowsLast
<1> QED
  BY <1>2, <1>4, <1>5 DEF j, d

LEMMA GateRecords ==
    ASSUME RuntimeInv, LedgerInv', TerminalKept, RecordsInv, NEW r \in Runners, Gate(r)
    PROVE  RecordsInv'
<1>1. CASE proc' = [proc EXCEPT ![r] = Idle] /\ UNCHANGED <<store, command, effects>>
  BY <1>1, IdleFields, NewTaskLoadable, RestingInRecords, SessionStepRecords DEF Acting
<1>2. ASSUME NEW c, NEW done, GateCommit(r, c, done)
      PROVE  RecordsInv'
  <2>1. /\ proc[r].pc = "gate" /\ Submit(r, c, done, Idle) /\ UNCHANGED command
        /\ Numbered(c, proc[r].rec) /\ Ends(c, proc[r].rec)
        /\ c.task.status = proc[r].rec.status /\ SameMeans(c.task, proc[r].rec)
        /\ c.create = {} /\ c.update = {} /\ c.snap = NoVal
        /\ done.pc \in {"idle", "gated"} /\ done.rec = NewTask /\ done.outer = NewTask
    BY <1>2 DEF GateCommit
  <2>2. PICK e : /\ c.drafts = <<e>> /\ e.id = proc[r].att
                 /\ e.type \in {"action_reconciled", "action_reconciliation_required"}
                 /\ Newest(store, proc[r].rec) =>
                        \/ /\ e.type = "action_reconciled"
                           /\ AttemptStatus(store.journal, e.id) = "prepared"
                        \/ /\ e.type = "action_reconciliation_required"
                           /\ AttemptStatus(store.journal, e.id)
                                  \notin {"prepared", "reconciliation_required"}
    BY <1>2, Zenon DEF GateCommit
  <2>3. Continues(r, c, done, Idle)
    BY <2>1, IdleFields DEF Continues, Acting
  <2>4. ASSUME Newest(store, proc[r].rec), Accepts(store, c), store' = Stored(store, c)
        PROVE  RecordsWritten(c) /\ SeesRecords(r, c, done)
    <3> DEFINE j  == store.journal
               id == proc[r].att
    <3>1. /\ j \in Seq(EventRecord) /\ AttemptsInOrder(j) /\ AttemptsLoad(j)
          /\ id # NoId /\ id = UnresolvedAttempt(j)
      BY <2>1, <2>4, RuntimeFacts, RecordsFacts DEF SessionInLedger
    <3> HIDE DEF j
    <3>2. id \in Prepared(j) \ ClosedIn(j)
      BY <3>1, UnresolvedIsOpen
    <3>3. AttemptStatus(j, id) \in OpenStatuses(j, id)
      BY <3>1, <3>2 DEF AttemptsLoad
    <3>4. MoveLoads(store.journal, e)
      <4>1. \/ e.type = "action_reconciled" /\ AttemptStatus(j, id) = "prepared"
            \/ /\ e.type = "action_reconciliation_required" /\ id \in StartedIn(j)
               /\ AttemptStatus(j, id) = "execution_started"
        BY <2>2, <2>4, <3>3 DEF OpenStatuses, j
      <4> QED
        BY <2>2, <4>1 DEF MoveLoads, ClosingTypes, AttemptEventStatus, AttemptTransitions, j
    <3>5. e.type \in AttemptEvents
      BY <2>2, EventTypes
    <3>6. /\ AttemptsLoad(store.journal \o c.drafts)
          /\ Saves(c, LatestObservation(store.journal))
      BY <2>1, <2>2, <2>4, <3>4, <3>5, EventLoads
    <3>7. /\ c.task.status = store.task.status
          /\ c.task.approvedAction = store.task.approvedAction
      BY <2>1, <2>4, RecordsFacts DEF SameMeans
    <3>8. RequestsKept(c)
      BY <2>1, <3>7 DEF RequestsKept, RecordsInv, ApprovalsLoad
    <3>9. SeesRecords(r, c, done)
      BY <2>1 DEF SeesRecords, Acting
    <3> QED
      BY <3>6, <3>7, <3>8, <3>9 DEF RecordsWritten
  <2> QED
    BY <2>1, <2>3, <2>4, RecordsFacts, SubmitRecords
<1> QED
  BY <1>1, <1>2, GateCommits DEF RuntimeInv

(* A transaction without requests, on a task that runs. *)
LEMMA RunningRequests ==
    ASSUME RuntimeInv, RecordsInv, NEW c, store.task.status \in {"running", "pending"},
           c.create = {}, c.update = {}, c.task.status # "waiting"
    PROVE  RequestsKept(c)
<1>1. Pending(store.approvals) = {}
  BY DEF RecordsInv, ApprovalsLoad
<1> QED
  BY <1>1 DEF RequestsKept

(* What run_iterations goes on with. *)
LEMMA IterationContinues ==
    ASSUME RuntimeInv, RecordsInv, NEW r \in Runners, NEW c, NEW observation
    PROVE  LET done == AfterIteration(r, c.task, observation)
           IN  /\ Continues(r, c, done, Abandoned(r))
               /\ SeesRecords(r, c, done)
<1> DEFINE done  == AfterIteration(r, c.task, observation)
           loops == [Looping(r, c.task, observation) EXCEPT !.worked = TRUE]
<1>1. proc[r] \in SessionType
  BY RuntimeFacts
<1>2. loops.pc = "loop" /\ loops.rec = c.task /\ loops.outer = proc[r].outer
  BY <1>1 DEF Looping, SessionType
<1>3. /\ Closing(r, c.task, observation).pc = "closing"
      /\ Closing(r, c.task, observation).rec = NewTask
      /\ Closing(r, c.task, observation).outer = c.task
  BY ClosingFields
<1>4. \/ done = loops /\ c.task.status = "running"
      \/ done = Closing(r, c.task, observation) /\ c.task.status # "running"
  BY DEF AfterIteration
<1>5. /\ Abandoned(r).pc = "closing" /\ Abandoned(r).rec = NewTask
      /\ Abandoned(r).outer = proc[r].outer /\ Abandoned(r).sim = proc[r].sim
  <2>1. Abandoned(r).sim = proc[r].sim
    BY DEF Abandoned, Closing, Idle
  <2> QED
    BY <2>1, AbandonedFields
<1> HIDE DEF loops, done
<1>6. ShutdownSaves(store, Abandoned(r))
  BY <1>5, RecordsFacts DEF ShutdownSaves
<1>7. Continues(r, c, done, Abandoned(r))
  BY <1>2, <1>3, <1>4, <1>5, <1>6 DEF Continues, Acting
<1>8. SeesRecords(r, c, done)
  BY <1>2, <1>3, <1>4 DEF SeesRecords, Acting
<1> QED
  BY <1>7, <1>8 DEF done

(* A commit of an iteration. *)
LEMMA IterationRecords ==
    ASSUME RuntimeInv, TerminalKept, RecordsInv, NEW r \in Runners, NEW c, NEW observation,
           Numbered(c, proc[r].rec), Ends(c, proc[r].rec), SubmitIteration(r, c, observation),
           ASSUME Newest(store, proc[r].rec), Accepts(store, c), store' = Stored(store, c)
           PROVE  RecordsWritten(c)
    PROVE  RecordsInv'
<1> DEFINE done == AfterIteration(r, c.task, observation)
<1>1. Submit(r, c, done, Abandoned(r)) /\ UNCHANGED command
  BY DEF SubmitIteration
<1>2. Continues(r, c, done, Abandoned(r)) /\ SeesRecords(r, c, done)
  BY IterationContinues
<1> HIDE DEF done
<1> QED
  BY <1>1, <1>2, RecordsFacts, SubmitRecords

LEMMA LoopRecords ==
    ASSUME RuntimeInv, TerminalKept, RecordsInv, NEW r \in Runners, NEW c, NEW observation,
           LoopCommit(r, c, observation)
    PROVE  RecordsInv'
<1>1. /\ proc[r].pc = "loop" /\ SubmitIteration(r, c, observation)
      /\ CommitOK(c) /\ Numbered(c, proc[r].rec) /\ Ends(c, proc[r].rec)
      /\ AttemptEventsOf(c.drafts) = {}
      /\ External \/ observation = proc[r].obs
      /\ External \/ proc[r].sim = observation => Saves(c, proc[r].obs)
      /\ c.update = {}
      /\ \/ c.create = {} /\ (c.task.status = "waiting" => proc[r].rec.status = "waiting")
         \/ \E a : /\ c.create = {a} /\ a.status = "pending" /\ c.task.status = "waiting"
  BY Zenon DEF LoopCommit, InLoop
<1>2. SessionInStatus(store, proc[r])
  BY RuntimeFacts
<1>3. proc[r].rec.status = "running" /\ Watching(proc[r])
  BY <1>1, <1>2 DEF SessionInStatus, InFlight, Watching
<1>4. ASSUME Newest(store, proc[r].rec)
      PROVE  RecordsWritten(c)
  <2>1. store.task.status = "running" /\ Pending(store.approvals) = {}
    BY <1>3, <1>4, RecordsFacts
  <2>2. proc[r].obs = LatestObservation(store.journal) /\ (External \/ proc[r].sim = proc[r].obs)
    BY <1>2, <1>3, <1>4 DEF SessionInStatus
  <2>3. Saves(c, LatestObservation(store.journal))
    BY <1>1, <2>2
  <2>4. AttemptsLoad(store.journal \o c.drafts)
    BY <1>1, QuietAttemptsLoad
  <2>5. RequestsKept(c) \/ RequestMade(c)
    <3>1. CASE c.create = {} /\ c.task.status # "waiting"
      BY <1>1, <2>1, <3>1, RunningRequests
    <3>2. CASE \E a : c.create = {a} /\ a.status = "pending" /\ c.task.status = "waiting"
      <4>1. c.task.status = "waiting" /\ \E a : c.create = {a} /\ a.status = "pending"
        BY <3>2, Zenon
      <4> QED
        BY <1>1, <2>1, <4>1 DEF RequestMade
    <3> QED
      BY <1>1, <1>3, <3>1, <3>2
  <2> QED
    BY <2>1, <2>3, <2>4, <2>5 DEF RecordsWritten, ObservedStatuses
<1> QED
  BY <1>1, <1>4, IterationRecords

LEMMA ResolvingRecords ==
    ASSUME RuntimeInv, LedgerInv', TerminalKept, RecordsInv, NEW r \in Runners, NEW c, NEW after,
           ResolvingCommit(r, c, after)
    PROVE  RecordsInv'
<1>1. /\ proc[r].pc \in {"executed", "error"} /\ SubmitIteration(r, c, after)
      /\ CommitOK(c) /\ Numbered(c, proc[r].rec) /\ Ends(c, proc[r].rec)
      /\ c.create = {} /\ c.update = {}
      /\ Newest(store, proc[r].rec) =>
             \/ AttemptEventsOf(c.drafts) = {}
             \/ /\ Resolves(store.journal, c.drafts, proc[r].att)
                /\ Settles(c.drafts, proc[r].att)
      /\ External \/ proc[r].pc = "executed" => Saves(c, proc[r].obs)
      /\ c.task.status \in {"blocked", "failed", "running"}
  BY DEF ResolvingCommit, Pays
<1>2. SessionInStatus(store, proc[r]) /\ SessionInRecords(store, proc[r])
  BY RuntimeFacts, RecordsFacts
<1>3. proc[r].rec.status = "running"
  BY <1>1, <1>2 DEF SessionInStatus, InFlight
<1>4. ASSUME Newest(store, proc[r].rec), Accepts(store, c), store' = Stored(store, c)
      PROVE  RecordsWritten(c)
  <2>1. store.task.status = "running" /\ RequestsKept(c)
    <3>1. store.task.status = "running"
      BY <1>3, <1>4, RecordsFacts
    <3> QED
      BY <1>1, <3>1, RunningRequests
  <2>2. Saves(c, LatestObservation(store.journal))
    <3>1. proc[r].obs = LatestObservation(store.journal)
      BY <1>1, <1>2, <1>4 DEF SessionInRecords, Acting
    <3>2. External \/ proc[r].pc = "executed"
      BY <1>1, <1>2 DEF SessionInRecords
    <3> QED
      BY <1>1, <3>1, <3>2
  <2>3. CASE AttemptEventsOf(c.drafts) = {}
    <3>1. AttemptsLoad(store.journal \o c.drafts)
      BY <1>1, <2>3, QuietAttemptsLoad
    <3> QED
      BY <2>1, <2>2, <3>1 DEF RecordsWritten, ObservedStatuses
  <2>4. CASE /\ Resolves(store.journal, c.drafts, proc[r].att)
             /\ Settles(c.drafts, proc[r].att)
    <3> DEFINE j  == store.journal
               d  == c.drafts
               id == proc[r].att
    <3>1. /\ j \in Seq(EventRecord) /\ d \in Seq(EventRecord) /\ AttemptsInOrder(j)
          /\ AttemptsLoad(j) /\ AttemptsInOrder(j \o d)
      <4>1. store'.journal = j \o d /\ AttemptsInOrder(store'.journal)
        BY <1>4 DEF Stored, LedgerInv
      <4> QED
        BY <1>1, <4>1, RuntimeFacts, RecordsFacts DEF CommitOK, CommitType
    <3>2. id \in Prepared(j) \ ClosedIn(j) /\ Settles(d, id)
      BY <2>4 DEF Resolves, MovesAttempt
    <3>3. AttemptStatus(j, id) = "execution_started"
      <4>1. id # NoId
        <5> HIDE DEF j, id
        <5> QED
          BY <3>1, <3>2, InOrder
      <4> QED
        BY <1>1, <1>2, <1>4, <4>1 DEF SessionInRecords
    <3> HIDE DEF j, d, id
    <3>4. AttemptsLoad(j \o d)
      BY <3>1, <3>2, <3>3, SettledLoads
    <3> QED
      BY <2>1, <2>2, <3>4 DEF RecordsWritten, ObservedStatuses, j, d
  <2> QED
    BY <1>1, <1>4, <2>3, <2>4
<1> QED
  BY <1>1, <1>4, IterationRecords

LEMMA YieldRecords ==
    ASSUME RuntimeInv, RecordsInv, NEW r \in Runners, Yield(r)
    PROVE  RecordsInv'
<1> DEFINE next == Closing(r, proc[r].rec, proc[r].obs)
<1>1. proc' = [proc EXCEPT ![r] = next] /\ UNCHANGED <<store, command>> /\ proc[r].pc = "loop"
  BY DEF Yield, InLoop
<1>2. /\ next.pc = "closing" /\ next.rec = NewTask /\ next.outer = proc[r].rec
      /\ next.sim = proc[r].sim
  <2>1. next.sim = proc[r].sim
    BY DEF Closing, Idle
  <2> QED
    BY <2>1, ClosingFields
<1> HIDE DEF next
<1>3. ShutdownSaves(store, next)
  <2>1. SessionInStatus(store, proc[r])
    BY RuntimeFacts
  <2> QED
    BY <1>1, <1>2, <2>1 DEF ShutdownSaves, SessionInStatus, Watching
<1>4. SessionInRecords(store, next)
  BY <1>2, <1>3, NewTaskLoadable, RecordsFacts, RestingInRecords DEF Acting
<1> QED
  BY <1>1, <1>4, SessionStepRecords

(* The commits that open a session: the first run, the resumption of a     *)
(* waiting task, the refresh, and the failure of any of them.              *)
LEMMA StartRecords ==
    ASSUME RuntimeInv, TerminalKept, RecordsInv, NEW r \in Runners, NEW c, NEW done, NEW failed,
           StartCommit(r, c, done, failed)
    PROVE  RecordsInv'
<1> DEFINE rec   == proc[r].rec
           after == LatestObservation(store.journal \o c.drafts)
<1>1. /\ proc[r].pc \in {"start", "refresh"} /\ Submit(r, c, done, failed) /\ UNCHANGED command
      /\ failed = Abandoned(r) \/ \E s \in States : failed = Closing(r, rec, s)
      /\ CommitOK(c) /\ Numbered(c, rec) /\ AttemptEventsOf(c.drafts) = {}
      /\ c.create = {} /\ c.update = {} /\ done.outer = c.task
      /\ \/ c.task.status = "failed" /\ done.pc = "closing" /\ done.rec = NewTask
         \/ /\ c.task.status = IF proc[r].pc = "start" THEN "running" ELSE rec.status
            /\ done.pc \in {"loop", "refresh"} /\ done.rec = c.task
      /\ done.pc = "loop" => Sees(r, c, done)
      /\ done.pc = "refresh" => External /\ rec.status = "waiting"
      /\ Ends(c, rec) /\ \A before : Saves(c, before)
  BY DEF StartCommit
<1>2. /\ SessionInStatus(store, proc[r]) /\ SessionInRecords(store, proc[r])
      /\ ShutdownSaves(store, proc[r])
      /\ proc[r].pc = "start" => rec.status \in {"pending", "waiting"}
      /\ proc[r].pc = "refresh" => External /\ rec.status = "running"
      /\ Newest(store, rec) => rec.status = store.task.status
      /\ store.journal \in Seq(EventRecord) /\ c.drafts \in Seq(EventRecord)
  BY <1>1, RuntimeFacts, RecordsFacts
  DEF TypeInv, SessionOK, SessionInStatus, InFlight, CommitOK, CommitType
<1>3. c.task.status \in {"failed", "running"}
  BY <1>1, <1>2
<1>4. /\ failed.pc = "closing" /\ failed.rec = NewTask /\ failed.outer \in {proc[r].outer, rec}
      /\ ShutdownSaves(store, failed)
  <2>1. CASE failed = Abandoned(r)
    <3>1. Abandoned(r).sim = proc[r].sim
      BY DEF Abandoned, Closing, Idle
    <3> QED
      BY <1>2, <2>1, <3>1, AbandonedFields DEF ShutdownSaves
  <2>2. ASSUME NEW s \in States, failed = Closing(r, rec, s)
        PROVE  /\ failed.pc = "closing" /\ failed.rec = NewTask /\ failed.outer = rec
               /\ ShutdownSaves(store, failed)
    <3>1. failed.pc = "closing" /\ failed.rec = NewTask /\ failed.outer = rec
      BY <2>2, ClosingFields
    <3> QED
      BY <1>1, <1>2, <3>1 DEF ShutdownSaves
  <2> QED
    BY <1>1, <2>1, <2>2
<1>5. Continues(r, c, done, failed)
  BY <1>1, <1>4 DEF Continues, Acting
<1>6. ASSUME Newest(store, rec), done.pc = "loop"
      PROVE  /\ External \/ done.sim = after
             /\ rec.status = "waiting" \/ after # NoVal
  <2>1. CASE /\ proc[r].pc = "start" /\ rec.status = "waiting"
             /\ Observed(c.drafts) = {} /\ done.obs = proc[r].obs /\ done.sim = proc[r].sim
    <3>1. proc[r].obs = LatestObservation(store.journal) /\ (External \/ proc[r].sim = proc[r].obs)
      BY <1>2, <1>6, <2>1 DEF SessionInStatus, Watching
    <3>2. after = LatestObservation(store.journal)
      BY <1>2, <2>1, LastShown DEF ShowsLast
    <3> QED
      BY <2>1, <3>1, <3>2
  <2>2. CASE /\ Observed(c.drafts) # {} /\ ShowsLast(c.drafts, NoVal, done.obs)
             /\ done.obs \in States /\ (External \/ done.sim = done.obs)
    <3>1. after = done.obs
      BY <1>2, <2>2, LastShown DEF ShowsLast
    <3> QED
      BY <2>2, <3>1, NoValAssumption
  <2> QED
    BY <1>1, <1>6, <2>1, <2>2 DEF Sees
<1>7. ASSUME Newest(store, rec)
      PROVE  RecordsWritten(c) /\ SeesRecords(r, c, done)
  <2>1. Pending(store.approvals) = {}
    BY <1>1, <1>2, <1>7, RecordsFacts DEF SessionInRecords
  <2>2. RequestsKept(c)
    BY <1>1, <1>3, <2>1 DEF RequestsKept
  <2>3. AttemptsLoad(store.journal \o c.drafts)
    BY <1>1, QuietAttemptsLoad
  <2>4. c.task.status = "running" =>
            /\ External \/ done.sim = after
            /\ store.task.status \in ObservedStatuses \/ after # NoVal
    BY <1>1, <1>2, <1>6, <1>7 DEF ObservedStatuses
  <2>5. RecordsWritten(c)
    BY <1>1, <1>3, <2>2, <2>3, <2>4 DEF RecordsWritten, ObservedStatuses
  <2>6. SeesRecords(r, c, done)
    BY <1>1, <2>4 DEF SeesRecords, Acting
  <2> QED
    BY <2>5, <2>6
<1> QED
  BY <1>1, <1>5, <1>7, RecordsFacts, SubmitRecords

(* A number no write-ahead record has is that of an attempt without status. *)
LEMMA NoStatusYet ==
    ASSUME NEW j \in Seq(EventRecord), AttemptsInOrder(j), NEW id, id \notin Prepared(j)
    PROVE  AttemptStatus(j, id) = "none" /\ id \notin StartedIn(j)
<1>1. \A k \in AttemptEventsOf(j) : j[k].id \in Prepared(j)
  BY DEF AttemptsInOrder
<1>2. AttemptPositions(j, id) = {}
  BY <1>1 DEF AttemptPositions, AttemptEventsOf
<1> QED
  BY <1>2, InOrder DEF AttemptStatus, StatusBefore

(* The write-ahead records are steps an attempt can take. *)
LEMMA WriteAheadLoads ==
    ASSUME RuntimeInv, RecordsInv, NEW r \in Runners, Newest(store, proc[r].rec), NEW e,
           \/ e.type = "action_prepared" /\ e.id = proc[r].rec.sequence + 1
           \/ /\ proc[r].pc = "prepared"
              /\ e.type = "action_execution_started" /\ e.id = proc[r].att
    PROVE  MoveLoads(store.journal, e) /\ e.type \in AttemptEvents
<1> DEFINE j == store.journal
<1>1. /\ j \in Seq(EventRecord) /\ AttemptsInOrder(j) /\ AttemptsLoad(j)
      /\ SessionInLedger(store, proc[r]) /\ proc[r].rec.sequence = Len(j)
  BY RuntimeFacts, RecordsFacts DEF Newest
<1>2. CASE e.type = "action_prepared" /\ e.id = proc[r].rec.sequence + 1
  <2>1. e.id \notin Prepared(j)
    <3>1. Prepared(j) \subseteq 1 .. Len(j) /\ Len(j) \in Nat /\ e.id = Len(j) + 1
      BY <1>1, <1>2, InOrder
    <3> HIDE DEF j
    <3> QED
      BY <3>1
  <2>2. AttemptStatus(j, e.id) = "none" /\ e.id \notin StartedIn(j)
    <3> HIDE DEF j
    <3> QED
      BY <1>1, <2>1, NoStatusYet
  <2> QED
    BY <1>2, <2>2, EventTypes DEF MoveLoads, AttemptEventStatus, AttemptTransitions
<1>3. CASE /\ proc[r].pc = "prepared"
           /\ e.type = "action_execution_started" /\ e.id = proc[r].att
  <2>1. e.id \in Prepared(j) \ ClosedIn(j) /\ e.id \notin StartedIn(j)
    BY <1>1, <1>3 DEF SessionInLedger, Acting
  <2>2. AttemptStatus(j, e.id) = "prepared"
    BY <1>1, <2>1 DEF AttemptsLoad, OpenStatuses
  <2> QED
    BY <1>3, <2>2, EventTypes DEF MoveLoads, AttemptEventStatus, AttemptTransitions
<1> QED
  BY <1>2, <1>3

LEMMA AttemptRecords ==
    ASSUME RuntimeInv, LedgerInv', TerminalKept, RecordsInv, NEW r \in Runners, NEW c, NEW next,
           AttemptCommit(r, c, next)
    PROVE  RecordsInv'
<1>1. /\ Submit(r, c, next, Abandoned(r)) /\ UNCHANGED command
      /\ CommitOK(c) /\ Numbered(c, proc[r].rec) /\ c.create = {} /\ c.update = {}
      /\ c.snap = NoVal /\ Ends(c, proc[r].rec)
      /\ c.task.status = proc[r].rec.status
      /\ next.rec = c.task /\ next.outer = proc[r].outer /\ next.obs = proc[r].obs
      /\ \/ proc[r].pc = "loop" /\ next.pc = "prepared"
         \/ proc[r].pc = "prepared" /\ next.pc = "started"
  BY DEF AttemptCommit, InLoop
<1>2. PICK e : /\ c.drafts = <<e>>
               /\ \/ e.type = "action_prepared" /\ e.id = proc[r].rec.sequence + 1
                  \/ /\ proc[r].pc = "prepared"
                     /\ e.type = "action_execution_started" /\ e.id = proc[r].att
  <2>1. PICK e : /\ c.drafts = <<e>>
                 /\ next.pc = "prepared" =>
                        /\ e.type = "action_prepared"
                        /\ e.id = next.att /\ next.att = proc[r].rec.sequence + 1
                 /\ next.pc = "started" =>
                        e.type = "action_execution_started" /\ e.id = proc[r].att
    BY DEF AttemptCommit
  <2> QED
    BY <1>1, <2>1
<1>3. SessionInStatus(store, proc[r]) /\ SessionInRecords(store, proc[r])
  BY RuntimeFacts, RecordsFacts
<1>4. proc[r].rec.status = "running"
  BY <1>1, <1>3 DEF SessionInStatus, InFlight
<1>5. ASSUME Newest(store, proc[r].rec), Accepts(store, c), store' = Stored(store, c)
      PROVE  RecordsWritten(c) /\ SeesRecords(r, c, next)
  <2>1. store.task.status = "running"
    BY <1>4, <1>5, RecordsFacts
  <2>2. MoveLoads(store.journal, e) /\ e.type \in AttemptEvents
    BY <1>2, <1>5, WriteAheadLoads
  <2>3. /\ AttemptsLoad(store.journal \o c.drafts)
        /\ Saves(c, LatestObservation(store.journal))
        /\ LatestObservation(store.journal \o c.drafts) = LatestObservation(store.journal)
    BY <1>1, <1>2, <1>5, <2>2, EventLoads
  <2>4. RequestsKept(c)
    BY <1>1, <1>4, <2>1, RunningRequests
  <2>5. proc[r].obs = LatestObservation(store.journal)
    BY <1>1, <1>3, <1>5 DEF SessionInRecords, SessionInStatus, Watching, Acting
  <2>6. SeesRecords(r, c, next)
    BY <1>1, <2>3, <2>5 DEF SeesRecords
  <2> QED
    BY <2>1, <2>3, <2>4, <2>6 DEF RecordsWritten, ObservedStatuses
<1>6. Continues(r, c, next, Abandoned(r))
  <2>1. Abandoned(r).sim = proc[r].sim
    BY DEF Abandoned, Closing, Idle
  <2>2. ShutdownSaves(store, Abandoned(r))
    BY <2>1, AbandonedFields, RecordsFacts DEF ShutdownSaves
  <2> QED
    BY <1>1, <2>2, AbandonedFields DEF Continues, Acting
<1> QED
  BY <1>1, <1>5, <1>6, RecordsFacts, SubmitRecords

(* The start of an attempt is the journal's last event until someone writes. *)
LEMMA StartIsLast ==
    ASSUME RuntimeInv, NEW r \in Runners, proc[r].pc = "started", Newest(store, proc[r].rec)
    PROVE  AttemptStatus(store.journal, proc[r].att) = "execution_started"
<1> DEFINE j  == store.journal
           id == proc[r].att
<1>1. /\ SessionInLedger(store, proc[r]) /\ j \in Seq(EventRecord) /\ AttemptsInOrder(j)
  BY RuntimeFacts
<1>2. j[Len(j)] = AttemptEvent("action_execution_started", id)
  BY <1>1 DEF SessionInLedger
<1>3. j # <<>> /\ Len(j) \in Nat /\ DOMAIN j = 1 .. Len(j)
  BY <1>1, LenProperties DEF AttemptsInOrder
<1>4. Len(j) \in DOMAIN j
  <2>1. Len(j) # 0
    BY <1>1, <1>3, EmptySeq
  <2> HIDE DEF j
  <2> QED
    BY <1>3, <2>1
<1>5. j[Len(j)].type = "action_execution_started" /\ j[Len(j)].id = id
  BY <1>2 DEF AttemptEvent, Event
<1> HIDE DEF j, id
<1>6. Len(j) \in AttemptPositions(j, id)
  BY <1>4, <1>5, EventTypes DEF AttemptPositions
<1>7. \A l \in AttemptPositions(j, id) : l < Len(j) + 1 => l <= Len(j)
  BY <1>3 DEF AttemptPositions
<1>8. StatusBefore(j, Len(j) + 1, id) = AttemptEventStatus[j[Len(j)].type]
  BY <1>1, <1>3, <1>6, <1>7, StatusByLast
<1> QED
  BY <1>5, <1>8 DEF AttemptStatus, AttemptEventStatus, id, j

LEMMA ExecuteRecords ==
    ASSUME RuntimeInv, RecordsInv, NEW r \in Runners, Execute(r)
    PROVE  RecordsInv'
<1> DEFINE next(pc, ok, s) == [proc[r] EXCEPT !.pc = pc, !.success = ok, !.sim = s]
           j == store.journal
<1>1. PICK answer \in IF External THEN {"success", "failure", "raised"} ELSE {"success"} :
          proc' = [proc EXCEPT ![r] =
              next(IF answer = "raised" THEN "error" ELSE "executed", answer = "success",
                   IF External THEN proc[r].sim ELSE Effect[proc[r].act][proc[r].sim])]
  BY Zenon DEF Execute
<1> DEFINE pc == IF answer = "raised" THEN "error" ELSE "executed"
           p  == next(pc, answer = "success",
                      IF External THEN proc[r].sim ELSE Effect[proc[r].act][proc[r].sim])
<1>2. /\ pc \in {"error", "executed"} /\ (pc = "error" => External)
      /\ proc' = [proc EXCEPT ![r] = p]
      /\ proc[r].pc = "started" /\ UNCHANGED <<store, command>>
  BY <1>1 DEF Execute
<1>3. /\ p.pc = pc /\ p.rec = proc[r].rec /\ p.outer = proc[r].outer /\ p.obs = proc[r].obs
      /\ p.att = proc[r].att
  BY RuntimeFacts DEF SessionType
<1> HIDE DEF p, pc
<1>4. /\ SessionInRecords(store, proc[r]) /\ SessionInLedger(store, proc[r])
      /\ j \in Seq(EventRecord) /\ AttemptsInOrder(j)
  BY RuntimeFacts, RecordsFacts
<1>5. Newest(store, proc[r].rec) => AttemptStatus(j, proc[r].att) = "execution_started"
  BY <1>2, StartIsLast
<1>6. SessionInRecords(store, p)
  BY <1>2, <1>3, <1>4, <1>5 DEF SessionInRecords, Acting
<1> QED
  BY <1>2, <1>6, SessionStepRecords

LEMMA AdapterRaisesRecords ==
    ASSUME RuntimeInv, RecordsInv, NEW r \in Runners, AdapterRaises(r)
    PROVE  RecordsInv'
<1>1. /\ External /\ UNCHANGED <<store, command>> /\ proc[r] \in SessionType
      /\ SessionInRecords(store, proc[r]) /\ SessionInLedger(store, proc[r])
      /\ SessionInStatus(store, proc[r])
  BY RuntimeFacts, RecordsFacts DEF AdapterRaises
<1>2. CASE Undecided(r) /\ proc' = [proc EXCEPT ![r] = [@ EXCEPT !.pc = "error", !.rec = Counted(r)]]
  <2> DEFINE p == [proc[r] EXCEPT !.pc = "error", !.rec = Counted(r)]
  <2>1. proc[r].pc = "loop" /\ proc' = [proc EXCEPT ![r] = p]
    BY <1>2 DEF Undecided, Iterating, InLoop
  <2>2. /\ p.pc = "error" /\ p.rec = Counted(r) /\ p.outer = proc[r].outer
        /\ p.obs = proc[r].obs /\ p.att = proc[r].att
    BY <1>1 DEF SessionType
  <2>3. /\ Counted(r).sequence = proc[r].rec.sequence
        /\ Counted(r).cancelRequested = proc[r].rec.cancelRequested
        /\ Counted(r).status = proc[r].rec.status
    BY <1>1 DEF Counted, SessionType, TaskRecord
  <2> HIDE DEF p
  <2>4. p.att = NoId
    BY <1>1, <2>1, <2>2 DEF SessionInLedger
  <2>5. Newest(store, p.rec) => p.obs = LatestObservation(store.journal)
    BY <1>1, <2>1, <2>2, <2>3 DEF SessionInStatus, Watching, Newest
  <2>6. Cancellation(p.rec) /\ Cancellation(p.outer)
    BY <1>1, <2>2, <2>3 DEF SessionInRecords, Cancellation
  <2>7. SessionInRecords(store, p)
    BY <1>1, <2>2, <2>4, <2>5, <2>6 DEF SessionInRecords, Acting
  <2> QED
    BY <1>1, <2>1, <2>7, SessionStepRecords
<1>3. CASE proc[r].pc = "executed" /\ proc' = [proc EXCEPT ![r] = [@ EXCEPT !.pc = "error"]]
  <2> DEFINE p == [proc[r] EXCEPT !.pc = "error"]
  <2>1. /\ p.pc = "error" /\ p.rec = proc[r].rec /\ p.outer = proc[r].outer
        /\ p.obs = proc[r].obs /\ p.att = proc[r].att
        /\ proc' = [proc EXCEPT ![r] = p]
    BY <1>1, <1>3 DEF SessionType
  <2> HIDE DEF p
  <2>2. SessionInRecords(store, p)
    BY <1>1, <1>3, <2>1 DEF SessionInRecords, Acting
  <2> QED
    BY <1>1, <2>1, <2>2, SessionStepRecords
<1> QED
  BY <1>2, <1>3 DEF AdapterRaises

(* A session that ends without a transaction. *)
LEMMA EndedRecords ==
    ASSUME RuntimeInv, RecordsInv, NEW r \in Runners,
           proc' = [proc EXCEPT ![r] = Idle], UNCHANGED <<store, command>>
    PROVE  RecordsInv'
  BY IdleFields, NewTaskLoadable, RestingInRecords, SessionStepRecords DEF Acting

(* What a failing shutdown checkpoints is an observation the journal has:  *)
(* this is where the configuration matters.                                *)
LEMMA ShutdownRecords ==
    ASSUME ShutdownIsSafe, RuntimeInv, TerminalKept, RecordsInv, NEW r \in Runners, NEW c,
           ShutdownCommit(r, c)
    PROVE  RecordsInv'
<1>1. /\ proc[r].outer.status = "running" /\ Submit(r, c, Idle, Idle) /\ UNCHANGED command
      /\ CommitOK(c) /\ Numbered(c, proc[r].outer) /\ AttemptEventsOf(c.drafts) = {}
      /\ c.task.status = "failed" /\ c.create = {} /\ c.update = {}
      /\ "shutdown" \in Environment /\ Ends(c, proc[r].outer)
      /\ External \/ Saves(c, proc[r].sim)
  BY DEF ShutdownCommit
<1>2. ~External
  BY <1>1 DEF ShutdownIsSafe
<1>3. ASSUME Newest(store, proc[r].outer)
      PROVE  RecordsWritten(c) /\ SeesRecords(r, c, Idle)
  <2>1. store.task.status = "running" /\ proc[r].sim = LatestObservation(store.journal)
    BY <1>1, <1>2, <1>3, RecordsFacts DEF ShutdownSaves
  <2>2. RequestsKept(c)
    BY <1>1, <2>1, RunningRequests
  <2>3. AttemptsLoad(store.journal \o c.drafts)
    BY <1>1, QuietAttemptsLoad
  <2>4. SeesRecords(r, c, Idle)
    BY IdleFields DEF SeesRecords, Acting
  <2> QED
    BY <1>1, <1>2, <2>1, <2>2, <2>3, <2>4 DEF RecordsWritten, ObservedStatuses
<1>4. Continues(r, c, Idle, Idle)
  BY IdleFields DEF Continues, Acting
<1> QED
  BY <1>1, <1>3, <1>4, RecordsFacts, SubmitRecords

(* Opening a session: what it reads is the store's. *)
LEMMA OpeningRecords ==
    ASSUME RuntimeInv, RecordsInv, NEW r \in Runners, Resume(r) \/ Reopen(r) \/ Enter(r)
    PROVE  RecordsInv'
<1> DEFINE pc   == IF store.task.status # "running" THEN "start"
                   ELSE IF External THEN "refresh" ELSE "loop"
           observed == LatestObservation(store.journal)
           open == [proc[r] EXCEPT !.pc = pc, !.rec = store.task, !.obs = observed,
                                   !.outer = store.task, !.outerObs = observed]
<1>1. UNCHANGED <<store, command>>
  BY DEF Resume, Reopen, Enter
<1>2. /\ Cancellation(store.task) /\ observed = store.checkpoint.state
      /\ proc[r] \in SessionType
  BY RuntimeFacts, RecordsFacts
<1>3. SessionInRecords(store, AtGate(r))
  <2>1. /\ AtGate(r).pc = "gate" /\ AtGate(r).rec = store.task /\ AtGate(r).outer = NewTask
    BY DEF AtGate, Idle
  <2>2. ShutdownSaves(store, AtGate(r))
    BY <2>1, NewTaskLoadable DEF ShutdownSaves
  <2> QED
    BY <1>2, <2>1, <2>2, NewTaskLoadable, RestingInRecords DEF Acting
<1>4. SessionInRecords(store, WithAdapter(r))
  <2>1. /\ WithAdapter(r).pc = "opened" /\ WithAdapter(r).rec = NewTask
        /\ WithAdapter(r).outer = NewTask
    BY DEF WithAdapter, Idle
  <2>2. ShutdownSaves(store, WithAdapter(r))
    BY <2>1, NewTaskLoadable DEF ShutdownSaves
  <2> QED
    BY <2>1, <2>2, NewTaskLoadable, RestingInRecords DEF Acting
<1>5. SessionInRecords(store, Idle)
  BY IdleFields, NewTaskLoadable, RestingInRecords DEF Acting
<1>6. ASSUME Runnable(store),
             External \/ store.task.status = "pending" \/ proc[r].sim = store.checkpoint.state
      PROVE  SessionInRecords(store, open)
  <2>1. /\ open.pc = pc /\ open.rec = store.task /\ open.outer = store.task
        /\ open.sim = proc[r].sim
    BY <1>2 DEF SessionType
  <2>2. pc \in {"start", "refresh", "loop"}
    OBVIOUS
  <2> HIDE DEF open, pc
  <2>3. ShutdownSaves(store, open)
    BY <1>2, <1>6, <2>1 DEF ShutdownSaves
  <2>4. Pending(store.approvals) = {}
    BY <1>6 DEF Runnable
  <2> QED
    BY <1>2, <2>1, <2>2, <2>3, <2>4 DEF SessionInRecords, ShutdownSaves, Acting
<1>7. \E next : proc' = [proc EXCEPT ![r] = next] /\ SessionInRecords(store, next)
  <2>1. CASE Resume(r)
    BY <1>3, <1>4, <2>1 DEF Resume
  <2>2. CASE Reopen(r)
    BY <1>4, <1>5, <2>2, Zenon DEF Reopen
  <2>3. CASE Enter(r)
    <3> HIDE DEF open
    <3>1. \/ proc' = [proc EXCEPT ![r] = Idle]
          \/ proc' = [proc EXCEPT ![r] = AtGate(r)]
          \/ /\ proc' = [proc EXCEPT ![r] = open] /\ Runnable(store)
             /\ External \/ store.task.status = "pending" \/ proc[r].sim = store.checkpoint.state
      BY <2>3 DEF Enter, open
    <3> QED
      BY <1>3, <1>5, <1>6, <3>1
  <2> QED
    BY <2>1, <2>2, <2>3
<1> QED
  BY <1>1, <1>7, SessionStepRecords

LEMMA ReadRecords ==
    ASSUME RuntimeInv, RecordsInv, NEW o \in Operators, NEW name \in Commands, Read(o, name)
    PROVE  RecordsInv'
<1>1. PICK asked : command' = [command EXCEPT ![o] =
                                   [name |-> name, view |-> store, asked |-> asked]]
  BY DEF Read
<1>2. UNCHANGED <<store, proc>> /\ DOMAIN command = Operators /\ Cancellation(store.task)
  BY DEF Read, RuntimeInv, LedgerInv, TypeInv, RecordsInv, EndingLoads
<1>3. \A p \in Operators : Cancellation(command'[p].view.task)
  BY <1>1, <1>2 DEF RecordsInv
<1> QED
  BY <1>2, <1>3 DEF RecordsInv

LEMMA DecisionRecords ==
    ASSUME RuntimeInv, TerminalKept, RecordsInv, NEW o \in Operators, NEW c, DecisionCommit(o, c)
    PROVE  RecordsInv'
<1> DEFINE view == command[o].view
<1>1. /\ Conclude(o, c) /\ CommitOK(c) /\ Numbered(c, view.task)
      /\ AttemptEventsOf(c.drafts) = {} /\ c.create = {}
      /\ Ends(c, view.task) /\ Saves(c, view.checkpoint.state)
      /\ command[o].name \in {"cancel", "deny", "approve"}
  BY DEF DecisionCommit
<1>2. /\ CommandInStatus(command[o]) /\ StoreOK(view)
      /\ LatestObservation(store.journal) = store.checkpoint.state
  BY DEF RuntimeInv, StatusInv, LedgerInv, TypeInv, CommandOK, RecordsInv, CheckpointLoads
<1>3. ASSUME view = store
      PROVE  RecordsWritten(c)
  <2>1. /\ AttemptsLoad(store.journal \o c.drafts)
        /\ Saves(c, LatestObservation(store.journal))
    BY <1>1, <1>2, <1>3, QuietAttemptsLoad
  <2>2. CASE command[o].name = "cancel" /\ c.task.status = "cancelled" /\ c.update = {}
    <3>1. RequestsKept(c)
      BY <1>1, <2>2 DEF RequestsKept
    <3> QED
      BY <2>1, <2>2, <3>1 DEF RecordsWritten, ObservedStatuses
  <2>3. ASSUME NEW pending \in Pending(view.approvals), NEW status \in {"denied", "approved"},
               c.update = {[pending EXCEPT !.status = status]},
               command[o].name \in {"approve", "deny"},
               \/ c.task.status = "blocked"
               \/ c.task.status = view.task.status /\ c.task.approvedAction = pending.act
        PROVE  RecordsWritten(c)
    <3>1. pending \in ApprovalRecord
      BY <1>2, <2>3 DEF StoreOK, StoreType, Pending
    <3>2. [pending EXCEPT !.status = status].status # "pending" /\ pending.act # NoVal
      BY <2>3, <3>1, NoValAssumption DEF ApprovalRecord
    <3>3. store.task.status = "waiting"
      BY <1>2, <1>3, <2>3 DEF CommandInStatus
    <3>4. RequestAnswered(c)
      BY <1>1, <2>3, <3>2 DEF RequestAnswered
    <3> QED
      BY <2>1, <3>3, <3>4 DEF RecordsWritten, ObservedStatuses
  <2> HIDE DEF view
  <2> QED
    BY <2>2, <2>3 DEF DecisionCommit, view
<1> QED
  BY <1>1, <1>3, ConcludeRecords

LEMMA ResolveRecords ==
    ASSUME RuntimeInv, LedgerInv', TerminalKept, RecordsInv, NEW o \in Operators, NEW c,
           ResolveCommit(o, c)
    PROVE  RecordsInv'
<1> DEFINE view == command[o].view
           id   == UnresolvedAttempt(view.journal)
<1>1. /\ command[o].name = "resolve" /\ Conclude(o, c)
      /\ CommitOK(c) /\ Numbered(c, view.task) /\ c.create = {} /\ c.update = {}
      /\ \/ c.task.status = view.task.status
         \/ c.task.status = "blocked" /\ CanMove(view.task.status, "blocked")
      /\ Newest(store, view.task) => Resolves(store.journal, c.drafts, id)
      /\ Settles(c.drafts, id)
      /\ \A k \in AttemptEventsOf(c.drafts) : c.drafts[k].type = "action_reconciled"
      /\ Ends(c, view.task) /\ Saves(c, view.checkpoint.state)
  BY DEF ResolveCommit, Reconciles, Pays
<1>2. ASSUME view = store, Accepts(store, c), store' = Stored(store, c)
      PROVE  RecordsWritten(c)
  <2> DEFINE j == store.journal
             d == c.drafts
  <2>1. /\ j \in Seq(EventRecord) /\ d \in Seq(EventRecord) /\ AttemptsInOrder(j)
        /\ AttemptsLoad(j) /\ AttemptsInOrder(j \o d)
        /\ AllClosed(j) \/ store.task.status \in {"running", "cancelled"}
        /\ LatestObservation(j) = store.checkpoint.state /\ Newest(store, store.task)
    <3>1. store'.journal = j \o d /\ AttemptsInOrder(store'.journal)
      BY <1>2 DEF Stored, LedgerInv
    <3> QED
      BY <1>1, <3>1 DEF CommitOK, CommitType, RuntimeInv, StatusInv, LedgerInv, TypeInv, StoreOK,
                        StoreType, RecordsInv, CheckpointLoads
  <2>2. id \in Prepared(j) \ ClosedIn(j) /\ Settles(d, id)
    BY <1>1, <1>2, <2>1 DEF Resolves, MovesAttempt
  <2>3. Saves(c, LatestObservation(j))
    BY <1>1, <1>2, <2>1
  <2>4. \A k \in AttemptEventsOf(d) : d[k].type # "action_execution_confirmed"
    BY <1>1
  <2> HIDE DEF j, d, id, view
  <2>5. AttemptsLoad(j \o d)
    BY <2>1, <2>2, <2>4, SettledLoads
  <2>6. store.task.status \in {"running", "cancelled"}
    BY <2>1, <2>2, InOrder DEF AllClosed
  <2>7. /\ c.task.status \in {store.task.status, "blocked"}
        /\ store.task.status = "cancelled" => c.task.status = "cancelled"
    BY <1>1, <1>2, <2>6 DEF CanMove, Transitions
  <2>8. RequestsKept(c)
    <3>1. Pending(store.approvals) # {} => store.task.status = "cancelled"
      BY <2>6 DEF RecordsInv, ApprovalsLoad
    <3> QED
      BY <1>1, <2>6, <2>7, <3>1 DEF RequestsKept
  <2> QED
    BY <2>3, <2>5, <2>6, <2>7, <2>8 DEF RecordsWritten, ObservedStatuses, j, d
<1> HIDE DEF id
<1> QED
  BY <1>1, <1>2, ConcludeRecords

--------------------------------------------------------------------------------
(* The invariant, and what it means for a restart. *)

LEMMA RecordsInvInit == Init => RecordsInv
<1> SUFFICES ASSUME Init PROVE RecordsInv
  OBVIOUS
<1> DEFINE j == store.journal
<1>1. /\ j = <<Event("task_created")>> /\ store.task = NewTask /\ store.approvals = {}
      /\ store.checkpoint = NoCheckpoint
  BY DEF Init, CreatedStore
<1>2. Len(j) = 1 /\ DOMAIN j = {1} /\ j[1].type = "task_created"
  BY <1>1 DEF Event
<1>3. /\ \A k \in DOMAIN j : j[k].type \notin AttemptEvents
      /\ Prepared(j) = {} /\ Observed(j) = {}
  BY <1>2, EventTypes DEF Prepared, Observed
<1>4. AttemptsLoad(j)
  BY <1>3 DEF AttemptsLoad, AttemptsWellFormed
<1>5. LatestObservation(j) = NoVal
  BY <1>3 DEF LatestObservation
<1> HIDE DEF j
<1>6. CheckpointLoads(store)
  BY <1>1, <1>2, <1>5, NewTaskLoadable
  DEF CheckpointLoads, ObservedStatuses, NoCheckpoint, j
<1>7. EndingLoads(store) /\ ApprovalsLoad(store)
  BY <1>1, NewTaskLoadable, TerminalWords DEF EndingLoads, ApprovalsLoad, Pending
<1>8. ASSUME NEW r \in Runners
      PROVE  SessionInRecords(store, proc[r])
  <2>1. proc[r] = Idle
    BY DEF Init
  <2> QED
    BY <2>1, IdleFields, NewTaskLoadable, RestingInRecords DEF Acting
<1>9. ASSUME NEW o \in Operators
      PROVE  Cancellation(command[o].view.task)
  BY NewTaskLoadable DEF Init, NoCommand, CreatedStore
<1> QED
  BY <1>4, <1>6, <1>7, <1>8, <1>9 DEF RecordsInv, j

LEMMA RecordsInvStep ==
    ASSUME ShutdownIsSafe, RuntimeInv, LedgerInv', TerminalKept, RecordsInv, [Next]_vars
    PROVE  RecordsInv'
<1>1. LedgerInv /\ TypeInv
  BY DEF RuntimeInv, LedgerInv
<1>2. ASSUME NEW r \in Runners, Resume(r) \/ Step(r) \/ Crash(r)
      PROVE  RecordsInv'
  <2>1. CASE Resume(r) \/ Reopen(r) \/ Enter(r)
    BY <2>1, OpeningRecords
  <2>2. CASE Gate(r)
    BY <2>2, GateRecords
  <2>3. CASE StartPending(r) \/ StartWaiting(r) \/ Refresh(r) \/ InitializationFailure(r)
    BY <1>1, <2>3, StartPendingCommit, StartWaitingCommit, RefreshCommit,
       InitializationFailureCommit, StartRecords
  <2>4. CASE Iterate(r)
    BY <1>1, <2>4, IterateCommits, YieldRecords, LoopRecords
  <2>5. CASE Transact(r)
    BY <1>1, <2>5, PrepareCommit, StartExecutionCommit, AttemptRecords, ExecuteRecords,
       ConfirmCommit, ResolvingRecords DEF Transact
  <2>6. CASE AdapterRaises(r) \/ Error(r)
    BY <1>1, <2>6, AdapterRaisesRecords, ErrorCommit, ResolvingRecords
  <2>7. CASE Shutdown(r)
    BY <1>1, <2>7, ShutdownCommits, EndedRecords, ShutdownRecords
  <2>8. CASE Crash(r)
    BY <2>8, EndedRecords DEF Crash
  <2> QED
    BY <1>2, <2>1, <2>2, <2>3, <2>4, <2>5, <2>6, <2>7, <2>8 DEF Step
<1>3. ASSUME NEW o \in Operators, Operate(o)
      PROVE  RecordsInv'
  BY <1>1, <1>3, ReadRecords, ApproveCommits, DenyCommits, CancelCommits, DecisionRecords,
     ResolveCommits, ResolveRecords DEF Operate
<1>4. CASE Drift \/ UNCHANGED vars
  BY <1>4 DEF Drift, vars, RecordsInv
<1> QED
  BY <1>2, <1>3, <1>4 DEF Next

(* The reconstructor's checks are what the invariants say of the records. *)
LEMMA RecordsReconstruct ==
    ASSUME RuntimeInv, RecordsInv
    PROVE  Reconstructable
<1> SUFFICES ASSUME store.task.status # "cancelled" PROVE Reconstructs(store)
  BY DEF Reconstructable
<1>1. /\ store \in StoreType /\ AttemptsInOrder(store.journal) /\ Newest(store, store.task)
      /\ EndingLoads(store) /\ AttemptsLoad(store.journal)
      /\ ApprovalsLoad(store) /\ CheckpointLoads(store) /\ Granted(store, store.task)
      /\ \A a, b \in store.approvals : a.id = b.id => a = b
  BY DEF RuntimeInv, LedgerInv, TypeInv, StoreOK, RecordsInv, GrantsInv, AuthorityInv
<1>2. HistoryConsistent(store)
  <2>1. store.task.cancelRequested \in BOOLEAN
    BY <1>1 DEF StoreType, TaskRecord
  <2>2. store.task.cancelRequested = FALSE
    BY <1>1, <2>1 DEF EndingLoads, Cancellation
  <2> QED
    BY <1>1, <2>2 DEF HistoryConsistent, AttemptsInOrder, Newest, EndingLoads, AttemptsLoad
<1>3. ApprovalsConsistent(store)
  <2> DEFINE id  == store.task.approvedId
             act == store.task.approvedAction
             grants == {a \in store.approvals : a.id = id /\ a.status = "approved" /\ a.act = act}
  <2>1. ASSUME act # NoVal
        PROVE  Cardinality(grants) = 1
    <3>1. Grant(id, act) \in store.approvals
      BY <1>1, <2>1 DEF Granted
    <3>2. grants = {Grant(id, act)}
      BY <1>1, <3>1 DEF Grant
    <3> QED
      BY <3>2, FS_Singleton
  <2> QED
    BY <1>1, <2>1 DEF ApprovalsConsistent, ApprovalsLoad, Granted
<1>4. CheckpointConsistent(store)
  BY <1>1 DEF CheckpointConsistent, CheckpointLoads, ObservedStatuses, NoCheckpoint, Newest
<1> QED
  BY <1>2, <1>3, <1>4 DEF Reconstructs

LEMMA RecordsInvariant ==
    ASSUME ShutdownIsSafe
    PROVE  Spec => []RecordsInv
<1>1. Init => RecordsInv
  BY RecordsInvInit
<1>2. /\ LedgerInv /\ LedgerInv' /\ StatusInv /\ GrantsInv /\ RecordsInv /\ [Next]_vars
      => RecordsInv'
  BY RecordsInvStep, StatusInvStep DEF RuntimeInv
<1> QED
  BY <1>1, <1>2, LedgerInvariant, StatusInvariant, GrantsInvariant, PTL DEF Spec

(* Every store that a crash can leave behind, between any two transactions  *)
(* of any number of runners and operators, passes the checks of the         *)
(* reconstructor (reconstruction.py), so that the task can be resumed,      *)
(* resolved or decided again; only a cancelled task's need not.  The        *)
(* hypothesis leaves out the one configuration in which the code does       *)
(* write a store it cannot load: a refused refresh of a moving game meets   *)
(* a failing shutdown (execution.py:195).                                   *)
THEOREM RestartsLoad ==
    ASSUME ShutdownIsSafe
    PROVE  Spec => []Reconstructable
<1>1. LedgerInv /\ StatusInv /\ GrantsInv /\ RecordsInv => Reconstructable
  BY RecordsReconstruct DEF RuntimeInv
<1> QED
  BY <1>1, RecordsInvariant, LedgerInvariant, StatusInvariant, GrantsInvariant, PTL

--------------------------------------------------------------------------------
(* One process at a time. *)

(* A step of session r, as far as the other processes can tell. *)
MovesSession(r) ==
    /\ UNCHANGED command /\ (Active(r) \/ MayEnter)
    /\ \E next : /\ proc' = [proc EXCEPT ![r] = next]
                 /\ next.pc = "started" => Newest(store', next.rec)

LEMMA SubmitMoves ==
    ASSUME RuntimeInv, NEW r \in Runners, Active(r), NEW c, NEW t, Numbered(c, t),
           NEW done, NEW failed, Submit(r, c, done, failed), UNCHANGED command,
           done.pc = "started" => done.rec = c.task, failed.pc # "started"
    PROVE  MovesSession(r)
<1>1. CASE Accepts(store, c) /\ store' = Stored(store, c)
  <2>1. store \in StoreType
    BY RuntimeFacts
  <2>2. Newest(store', c.task)
    BY <1>1, <2>1, NumberedStored
  <2> QED
    BY <2>2 DEF Submit, MovesSession
<1>2. CASE proc' = [proc EXCEPT ![r] = failed]
  BY <1>2 DEF MovesSession
<1> QED
  BY <1>1, <1>2 DEF Submit

(* What run_iterations goes on with has nothing started. *)
LEMMA IterationMoves ==
    ASSUME RuntimeInv, NEW r \in Runners, Active(r), NEW c, NEW observation,
           Numbered(c, proc[r].rec), SubmitIteration(r, c, observation)
    PROVE  MovesSession(r)
<1>1. AfterIteration(r, c.task, observation).pc # "started"
  <2>1. proc[r] \in SessionType
    BY RuntimeFacts
  <2> QED
    BY <2>1, ClosingFields DEF AfterIteration, Looping, SessionType
<1>2. Abandoned(r).pc # "started"
  BY AbandonedFields
<1> QED
  BY <1>1, <1>2, SubmitMoves DEF SubmitIteration

LEMMA RestingMoves ==
    ASSUME NEW r \in Runners, Active(r) \/ MayEnter, NEW next,
           proc' = [proc EXCEPT ![r] = next], UNCHANGED command, next.pc # "started"
    PROVE  MovesSession(r)
  BY DEF MovesSession

LEMMA SessionMoves ==
    ASSUME RuntimeInv, NEW r \in Runners, Resume(r) \/ Step(r) \/ Crash(r)
    PROVE  MovesSession(r)
<1>1. TypeInv /\ LedgerInv /\ proc[r] \in SessionType
  BY RuntimeFacts
<1>2. Idle.pc = "idle" /\ Abandoned(r).pc = "closing" /\ AtGate(r).pc = "gate"
      /\ WithAdapter(r).pc = "opened"
  BY AbandonedFields DEF Idle, AtGate, WithAdapter
<1>3. CASE Resume(r)
  BY <1>2, <1>3, RestingMoves DEF Resume
<1>4. CASE Reopen(r)
  <2>1. Active(r) /\ UNCHANGED command
    BY <1>4 DEF Reopen, Active
  <2>2. \E next \in {Idle, WithAdapter(r)} : proc' = [proc EXCEPT ![r] = next]
    BY <1>4, Zenon DEF Reopen
  <2> QED
    BY <1>2, <2>1, <2>2, RestingMoves
<1>5. CASE Enter(r)
  <2> DEFINE pc   == IF store.task.status # "running" THEN "start"
                     ELSE IF External THEN "refresh" ELSE "loop"
             observed == LatestObservation(store.journal)
             open == [proc[r] EXCEPT !.pc = pc, !.rec = store.task, !.obs = observed,
                                     !.outer = store.task, !.outerObs = observed]
  <2>1. Active(r) /\ UNCHANGED command
    BY <1>5 DEF Enter, Active
  <2>2. open.pc # "started"
    BY <1>1 DEF SessionType
  <2> HIDE DEF open
  <2>3. \E next \in {Idle, AtGate(r), open} : proc' = [proc EXCEPT ![r] = next]
    BY <1>5 DEF Enter, open
  <2> QED
    BY <1>2, <2>1, <2>2, <2>3, RestingMoves
<1>6. CASE Gate(r)
  <2>1. Active(r)
    BY <1>6 DEF Gate, Active
  <2>2. ASSUME NEW c, NEW done, GateCommit(r, c, done)
        PROVE  MovesSession(r)
    BY <1>2, <2>1, <2>2, SubmitMoves DEF GateCommit
  <2> QED
    BY <1>1, <1>2, <1>6, <2>1, <2>2, GateCommits, RestingMoves
<1>7. ASSUME NEW c, NEW done, NEW failed, StartCommit(r, c, done, failed)
      PROVE  MovesSession(r)
  <2>1. /\ Active(r) /\ Numbered(c, proc[r].rec) /\ Submit(r, c, done, failed)
        /\ UNCHANGED command /\ done.pc # "started"
        /\ failed = Abandoned(r) \/ \E s \in States : failed = Closing(r, proc[r].rec, s)
    BY <1>7 DEF StartCommit, Active
  <2>2. failed.pc # "started"
    BY <1>2, <2>1, ClosingFields
  <2> QED
    BY <2>1, <2>2, SubmitMoves
<1>8. CASE Iterate(r)
  <2>1. ASSUME NEW c, NEW observation, LoopCommit(r, c, observation)
        PROVE  MovesSession(r)
    BY <2>1, IterationMoves DEF LoopCommit, InLoop, Active
  <2>2. CASE Yield(r)
    BY <2>2, ClosingFields, RestingMoves DEF Yield, InLoop, Active
  <2> QED
    BY <1>1, <1>8, <2>1, <2>2, IterateCommits
<1>9. ASSUME NEW c, NEW next, AttemptCommit(r, c, next)
      PROVE  MovesSession(r)
  BY <1>2, <1>9, SubmitMoves DEF AttemptCommit, InLoop, Active
<1>10. ASSUME NEW c, NEW after, ResolvingCommit(r, c, after)
       PROVE  MovesSession(r)
  BY <1>10, IterationMoves DEF ResolvingCommit, Active
<1>11. CASE Execute(r)
  <2>1. Active(r) /\ UNCHANGED command
    BY <1>11 DEF Execute, Active
  <2>2. PICK answer :
          proc' = [proc EXCEPT ![r] =
              [proc[r] EXCEPT !.pc = IF answer = "raised" THEN "error" ELSE "executed",
                              !.success = (answer = "success"),
                              !.sim = IF External THEN proc[r].sim
                                      ELSE Effect[proc[r].act][proc[r].sim]]]
    BY <1>11, Zenon DEF Execute
  <2> DEFINE p == [proc[r] EXCEPT !.pc = IF answer = "raised" THEN "error" ELSE "executed",
                              !.success = (answer = "success"),
                              !.sim = IF External THEN proc[r].sim
                                      ELSE Effect[proc[r].act][proc[r].sim]]
  <2>3. p.pc # "started"
    BY <1>1 DEF SessionType
  <2> HIDE DEF p
  <2> QED
    BY <2>1, <2>2, <2>3, RestingMoves DEF p
<1>12. CASE AdapterRaises(r)
  <2>1. Active(r) /\ UNCHANGED command
    BY <1>12 DEF AdapterRaises, Undecided, Iterating, InLoop, Active
  <2>2. /\ [proc[r] EXCEPT !.pc = "error", !.rec = Counted(r)].pc = "error"
        /\ [proc[r] EXCEPT !.pc = "error"].pc = "error"
    BY <1>1 DEF SessionType
  <2> QED
    BY <1>12, <2>1, <2>2, RestingMoves DEF AdapterRaises
<1>13. CASE Shutdown(r)
  <2>1. Active(r) /\ Idle.pc # "started"
    BY <1>2, <1>13 DEF Shutdown, Active
  <2>2. ASSUME NEW c, ShutdownCommit(r, c)
        PROVE  MovesSession(r)
    BY <2>1, <2>2, SubmitMoves DEF ShutdownCommit
  <2> QED
    BY <1>1, <1>13, <2>1, <2>2, ShutdownCommits, RestingMoves
<1>14. CASE Crash(r)
  BY <1>2, <1>14, RestingMoves DEF Crash
<1> QED
  BY <1>1, <1>3, <1>4, <1>5, <1>6, <1>7, <1>8, <1>9, <1>10, <1>11, <1>12, <1>13, <1>14,
     StartPendingCommit, StartWaitingCommit, RefreshCommit, InitializationFailureCommit,
     PrepareCommit, StartExecutionCommit, ConfirmCommit, ErrorCommit
  DEF Step, Transact

LEMMA AloneInvStep == RuntimeInv /\ AloneInv /\ [Next]_vars => AloneInv'
<1> SUFFICES ASSUME RuntimeInv, AloneInv, [Next]_vars, SingleActive' PROVE
          /\ \A r, q \in Runners : Active(r)' /\ Active(q)' => r = q
          /\ \A r \in Runners, o \in Operators : Active(r)' => command'[o] = NoCommand
          /\ \A r \in Runners : proc'[r].pc = "started" => Newest(store', proc'[r].rec)
  BY DEF AloneInv
<1>1. /\ \A r, q \in Runners : Active(r) /\ Active(q) => r = q
      /\ \A r \in Runners, o \in Operators : Active(r) => command[o] = NoCommand
      /\ \A r \in Runners : proc[r].pc = "started" => Newest(store, proc[r].rec)
      /\ DOMAIN proc = Runners /\ DOMAIN command = Operators /\ SingleActive
  BY DEF AloneInv, RuntimeInv, LedgerInv, TypeInv
<1>2. ASSUME NEW r \in Runners, Resume(r) \/ Step(r) \/ Crash(r)
      PROVE  /\ \A p, q \in Runners : Active(p)' /\ Active(q)' => p = q
             /\ \A p \in Runners, o \in Operators : Active(p)' => command'[o] = NoCommand
             /\ \A p \in Runners : proc'[p].pc = "started" => Newest(store', proc'[p].rec)
  <2>1. MovesSession(r)
    BY <1>2, SessionMoves
  <2>2. PICK next : /\ proc' = [proc EXCEPT ![r] = next]
                    /\ next.pc = "started" => Newest(store', next.rec)
    BY <2>1 DEF MovesSession
  <2>3. \A p \in Runners \ {r} : ~Active(p) /\ proc'[p] = proc[p] /\ proc[p].pc = "idle"
    BY <1>1, <2>1, <2>2 DEF MovesSession, MayEnter, Quiet, Active
  <2>4. \A o \in Operators : command'[o] = NoCommand
    BY <1>1, <2>1 DEF MovesSession, MayEnter, Quiet
  <2> QED
    BY <1>1, <2>2, <2>3, <2>4 DEF Active
<1>3. ASSUME NEW o \in Operators, Operate(o)
      PROVE  /\ \A p, q \in Runners : Active(p)' /\ Active(q)' => p = q
             /\ \A p \in Runners, q \in Operators : Active(p)' => command'[q] = NoCommand
             /\ \A p \in Runners : proc'[p].pc = "started" => Newest(store', proc'[p].rec)
  <2>1. UNCHANGED proc
    BY <1>3 DEF Operate, Read, Approve, Deny, Cancel, Resolve, Conclude
  <2>2. \A p \in Runners : ~Active(p)
    <3>1. CASE \E name \in Commands : Read(o, name)
      BY <1>1, <3>1 DEF Read, MayEnter, Quiet
    <3>2. CASE Approve(o) \/ Deny(o) \/ Cancel(o) \/ Resolve(o)
      <4>1. command[o] # NoCommand
        BY <3>2 DEF Approve, Deny, Cancel, Resolve, NoCommand
      <4> QED
        BY <1>1, <4>1
    <3> QED
      BY <1>3, <3>1, <3>2 DEF Operate
  <2> QED
    BY <2>1, <2>2 DEF Active
<1>4. CASE Drift \/ UNCHANGED vars
  BY <1>1, <1>4 DEF Drift, vars, Active
<1> QED
  BY <1>2, <1>3, <1>4 DEF Next

LEMMA AloneInvInit == Init => AloneInv
  BY DEF Init, Idle, AloneInv, Active

(* With one process at a time, as the documentation assumes, an effect     *)
(* takes place only while its attempt is journalled as started and not     *)
(* resolved: once the gate or the operator has closed an attempt, it has no *)
(* further effect (action_execution.py:77, engine.py:375).                 *)
THEOREM NoLateEffects ==
    ASSUME SingleActive
    PROVE  Spec => NoEffectAfterResolution
<1>1. ASSUME RuntimeInv, AloneInv, NEW r \in Runners, Execute(r), effects' # effects
      PROVE  AttemptStatus(store.journal, effects'[Len(effects')].att) = "execution_started"
  <2> DEFINE e == [att |-> proc[r].att, act |-> proc[r].act,
                   auth |-> proc[r].auth, seen |-> proc[r].obs]
  <2>1. effects' = Append(effects, e) /\ proc[r].pc = "started"
    BY <1>1 DEF Execute, Apply
  <2>2. effects \in Seq(EffectRecord) /\ effects' \in Seq(EffectRecord \cup {e})
    <3>1. effects \in Seq(EffectRecord)
      BY <1>1 DEF RuntimeInv, LedgerInv, TypeInv
    <3> HIDE DEF e
    <3> QED
      BY <2>1, <3>1
  <2>3. effects'[Len(effects')] = e
    <3> HIDE DEF e
    <3> QED
      BY <2>1, <2>2
  <2>4. Newest(store, proc[r].rec)
    BY <1>1, <2>1 DEF AloneInv
  <2> QED
    BY <1>1, <2>1, <2>3, <2>4, StartIsLast
<1>2. ASSUME NEW r \in Runners, Resume(r) \/ Step(r) \/ Crash(r), ~Execute(r)
      PROVE  UNCHANGED effects
  <2>1. CASE Resume(r) \/ Crash(r) \/ Gate(r) \/ Reopen(r) \/ Enter(r)
    BY <2>1 DEF Resume, Crash, Gate, Reopen, Enter
  <2>2. CASE StartPending(r) \/ StartWaiting(r) \/ Refresh(r) \/ InitializationFailure(r)
    BY <2>2 DEF StartPending, StartWaiting, Refresh, InitializationFailure
  <2>3. CASE Iterate(r)
    BY <2>3 DEF Iterate, Yield, CancelSeen, IterationLimit, Evaluated, ProviderStops,
       FalseCompletion, Wait, RepeatedAction, RejectAction, RequestApproval, SafeguardCommit,
       SubmitIteration
  <2>4. CASE Prepare(r) \/ StartExecution(r) \/ Confirm(r)
    BY <2>4 DEF Prepare, StartExecution, Confirm, SubmitIteration
  <2>5. CASE AdapterRaises(r) \/ Error(r) \/ Shutdown(r)
    BY <2>5 DEF AdapterRaises, Error, SubmitIteration, Shutdown
  <2> QED
    BY <1>2, <2>1, <2>2, <2>3, <2>4, <2>5 DEF Step, Transact
<1>3. ASSUME NEW o \in Operators, Operate(o)
      PROVE  UNCHANGED effects
  BY <1>3 DEF Operate, Read, Approve, Deny, Cancel, Resolve, Conclude
<1>4. ASSUME RuntimeInv, AloneInv, [Next]_vars
      PROVE  [effects' # effects =>
                 AttemptStatus(store.journal, effects'[Len(effects')].att)
                     = "execution_started"]_vars
  <2>1. CASE Drift \/ UNCHANGED vars
    BY <2>1 DEF Drift, vars
  <2> QED
    BY <1>1, <1>2, <1>3, <1>4, <2>1 DEF Next
<1>5. RuntimeInv /\ AloneInv /\ [Next]_vars => AloneInv'
  BY AloneInvStep
<1> QED
  BY <1>4, <1>5, AloneInvInit, LedgerInvariant, StatusInvariant, GrantsInvariant, PTL
  DEF Spec, RuntimeInv, NoEffectAfterResolution

================================================================================
