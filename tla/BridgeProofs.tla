----------------------------- MODULE BridgeProofs ------------------------------
(***************************************************************************)
(* Safety of the OpenTTD bridge, for every number of clients, every set of *)
(* names and command IDs, every limit and every budget of events.          *)
(***************************************************************************)
EXTENDS BridgeInvariants, SequenceTheorems, FiniteSetTheorems, TLAPS

--------------------------------------------------------------------------------
(***************************************************************************)
(* Types: what the script builds.                                          *)
(***************************************************************************)
USE BridgeAssumption, CompositionAssumption

LEMMA BodyTyped ==
    ASSUME NEW type \in MessageTypes, NEW correlation \in Nat
    PROVE  /\ Body(type, correlation) \in BodyType
           /\ Body(type, correlation).type = type
           /\ Body(type, correlation).correlation = correlation
           /\ type \notin Telling => BodyOK(Body(type, correlation))
  BY DEF Body, BodyType, BodyOK, Telling, WorldTypes, PartTypes

LEMMA AnswerTyped ==
    ASSUME NEW q \in CommandType
    PROVE  /\ BodyOK(Accept(q)) /\ Accept(q).type = "command_accepted"
           /\ BodyOK(Complete(q)) /\ Complete(q).type = "command_completed"
           /\ BodyOK(Fail(q)) /\ Fail(q).type = "command_failed"
           /\ BodyOK(Reject(q)) /\ Reject(q).type = "command_rejected"
           /\ Accept(q).correlation = q.request /\ Complete(q).correlation = q.request
           /\ Fail(q).correlation = q.request /\ Reject(q).correlation = q.request
           /\ Complete(q).ref = q.id /\ Complete(q).name = q.name
  BY DEF Body, BodyType, BodyOK, Telling, WorldTypes, PartTypes, CommandType, MessageTypes,
         Accept, Complete, Fail, Reject

LEMMA SnapshotTyped ==
    ASSUME NEW g \in GameType, NEW number \in Nat
    PROVE  /\ BodyOK(CompanySnapshot(g, number))
           /\ CompanySnapshot(g, number).type = "state_snapshot"
           /\ CompanySnapshot(g, number).ref = <<g.inst, g.seq + 4>>
           /\ CompanySnapshot(g, number).number = number
           /\ CompanySnapshot(g, number).correlation = 0
<1>1. CompanySnapshot(g, number) =
        [type |-> "state_snapshot", correlation |-> 0, ref |-> <<g.inst, g.seq + 4>>,
         index |-> 0, name |-> g.name, number |-> number]
  <2> DEFINE id == <<g.inst, g.seq + 4>>
  <2>1. CompanySnapshot(g, number) =
          [Body("state_snapshot", 0) EXCEPT !.ref = id, !.name = g.name, !.number = number]
    BY DEF CompanySnapshot, Id
  <2> HIDE DEF id
  <2>2. CompanySnapshot(g, number) =
          [type |-> "state_snapshot", correlation |-> 0, ref |-> id,
           index |-> 0, name |-> g.name, number |-> number]
    BY <2>1 DEF Body
  <2> QED
    BY <2>2 DEF id
<1>2. <<g.inst, g.seq + 4>> \in Ident /\ g.name \in Names
  BY DEF GameType, Ident
<1>3. CompanySnapshot(g, number) \in BodyType
  BY <1>1, <1>2 DEF BodyType, MessageTypes
<1> QED
  BY <1>1, <1>2, <1>3 DEF BodyOK, Telling

(* A world message is about a capture. *)
LEMMA WorldTyped ==
    ASSUME NEW capture \in [handler : {"world"}, next : Nat, number : Nat, ref : Ident]
    PROVE  /\ BodyOK(WorldMessage(capture))
           /\ WorldMessage(capture).type \in WorldTypes
           /\ WorldMessage(capture).type = "world_manifest" <=> capture.next = 0
           /\ capture.next <= Pages => WorldMessage(capture).type # "world_snapshot_complete"
           /\ WorldMessage(capture).ref = capture.ref
           /\ WorldMessage(capture).number = capture.number
           /\ WorldMessage(capture).correlation = 0
<1> DEFINE type == IF capture.next = 0 THEN "world_manifest"
                   ELSE IF capture.next <= Pages THEN "world_collection_page"
                   ELSE "world_snapshot_complete"
<1>1. /\ type \in WorldTypes
      /\ type = "world_manifest" <=> capture.next = 0
      /\ capture.next <= Pages => type # "world_snapshot_complete"
  BY DEF WorldTypes, PartTypes
<1>2. WorldMessage(capture) =
        [Body(type, 0) EXCEPT !.ref = capture.ref, !.index = capture.next,
                              !.number = capture.number]
  BY DEF WorldMessage
<1>3. type \in MessageTypes /\ type # "state_snapshot"
  BY <1>1 DEF WorldTypes, PartTypes, MessageTypes
<1> HIDE DEF type
<1>4. WorldMessage(capture) =
        [type |-> type, correlation |-> 0, ref |-> capture.ref, index |-> capture.next,
         name |-> None, number |-> capture.number]
  BY <1>2 DEF Body
<1>5. capture.ref \in Ident /\ capture.next \in Nat /\ capture.number \in Nat
  OBVIOUS
<1>6. WorldMessage(capture) \in BodyType
  BY <1>3, <1>4, <1>5 DEF BodyType
<1> QED
  BY <1>1, <1>3, <1>4, <1>5, <1>6 DEF BodyOK, Telling

(* What a list of bodies to send has to be. *)
Bodies(bodies) == bodies \in Seq(BodyType) /\ \A i \in DOMAIN bodies : BodyOK(bodies[i])

LEMMA OneBody ==
    ASSUME NEW b, BodyOK(b)
    PROVE  Bodies(<<b>>) /\ Len(<<b>>) = 1 /\ DOMAIN <<b>> = {1} /\ <<b>>[1] = b
  BY DEF Bodies, BodyOK

LEMMA TwoBodies ==
    ASSUME NEW a, NEW b, BodyOK(a), BodyOK(b)
    PROVE  /\ Bodies(<<a, b>>) /\ Len(<<a, b>>) = 2 /\ DOMAIN <<a, b>> = {1, 2}
           /\ <<a, b>>[1] = a /\ <<a, b>>[2] = b
  BY DEF Bodies, BodyOK

LEMMA GreetingTyped ==
    /\ Bodies(Greeting) /\ Len(Greeting) = 2 /\ DOMAIN Greeting = {1, 2}
    /\ Greeting[1].type = "hello" /\ Greeting[2].type = "capabilities"
    /\ Greeting[1].correlation = 0 /\ Greeting[2].correlation = 0
<1>1. BodyOK(Body("hello", 0)) /\ BodyOK(Body("capabilities", 0))
  BY BodyTyped DEF MessageTypes, Telling, WorldTypes, PartTypes
<1>2. Body("hello", 0).type = "hello" /\ Body("capabilities", 0).type = "capabilities"
      /\ Body("hello", 0).correlation = 0 /\ Body("capabilities", 0).correlation = 0
  BY DEF Body
<1> QED
  BY <1>1, <1>2, TwoBodies DEF Greeting

LEMMA HandshakeTyped ==
    ASSUME NEW g \in GameType, NEW request \in Nat, NEW number \in Nat
    PROVE  LET h == Handshake(g, request, number)
           IN  /\ Bodies(h) /\ Len(h) = 4 /\ DOMAIN h = 1..4
               /\ h[1].type = "hello" /\ h[2].type = "capabilities"
               /\ h[3].type = "resync_response" /\ h[4].type = "state_snapshot"
               /\ h[4].ref = <<g.inst, g.seq + 4>> /\ h[4].number = number
               /\ h[1].correlation = request /\ h[2].correlation = request
               /\ h[3].correlation = request /\ h[4].correlation = 0
<1>1. BodyOK(Body("hello", request)) /\ BodyOK(Body("capabilities", request))
      /\ BodyOK(Body("resync_response", request))
  BY BodyTyped DEF MessageTypes, Telling, WorldTypes, PartTypes
<1>2. /\ Body("hello", request).type = "hello"
      /\ Body("capabilities", request).type = "capabilities"
      /\ Body("resync_response", request).type = "resync_response"
      /\ Body("hello", request).correlation = request
      /\ Body("capabilities", request).correlation = request
      /\ Body("resync_response", request).correlation = request
  BY DEF Body
<1> DEFINE a == Body("hello", request)  b == Body("capabilities", request)
           c == Body("resync_response", request)  d == CompanySnapshot(g, number)
<1>3. BodyOK(a) /\ BodyOK(b) /\ BodyOK(c) /\ BodyOK(d)
  BY <1>1, SnapshotTyped
<1>4. Handshake(g, request, number) = <<a, b, c, d>>
  BY DEF Handshake
<1> HIDE DEF a, b, c, d
<1>5. Bodies(<<a, b, c, d>>) /\ Len(<<a, b, c, d>>) = 4 /\ DOMAIN <<a, b, c, d>> = 1..4
      /\ <<a, b, c, d>>[1] = a /\ <<a, b, c, d>>[2] = b
      /\ <<a, b, c, d>>[3] = c /\ <<a, b, c, d>>[4] = d
  BY <1>3 DEF Bodies, BodyOK
<1> QED
  BY <1>2, <1>4, <1>5, SnapshotTyped DEF a, b, c, d

--------------------------------------------------------------------------------
(***************************************************************************)
(* Types: the script's states.                                             *)
(***************************************************************************)
LEMMA SentTyped ==
    ASSUME NEW g \in GameType, NEW bodies, Bodies(bodies)
    PROVE  /\ Sent(g, bodies) \in GameType
           /\ Sent(g, bodies).seq = g.seq + Len(bodies)
           /\ Sent(g, bodies).inst = g.inst /\ Sent(g, bodies).lastSnap = g.lastSnap
           /\ Sent(g, bodies).ledger = g.ledger /\ Sent(g, bodies).doing = g.doing
           /\ Sent(g, bodies).name = g.name /\ Sent(g, bodies).number = g.number
           /\ Sent(g, bodies).completed = g.completed
<1> DEFINE n == g.seq + Len(bodies)
<1>1. n \in Nat
  BY DEF Bodies, GameType
<1>2. Sent(g, bodies) = [g EXCEPT !.seq = n]
  BY DEF Sent
<1>3. Sent(g, bodies).seq = n
  BY <1>2 DEF GameType
<1> HIDE DEF n
<1>4. Sent(g, bodies) \in GameType
  BY <1>1, <1>2 DEF GameType
<1> QED
  BY <1>2, <1>3, <1>4 DEF GameType, n

LEMMA NewGameTyped ==
    ASSUME NEW inst \in Nat
    PROVE  /\ NewGame(inst, FirstName) \in GameType
           /\ NewGame(inst, FirstName).inst = inst
           /\ NewGame(inst, FirstName).lastSnap = None
           /\ NewGame(inst, FirstName).doing = None
           /\ NewGame(inst, FirstName).number = 0
           /\ NewGame(inst, FirstName).ledger = <<>>
           /\ NewGame(inst, FirstName).completed = <<>>
  BY DEF NewGame, GameType

LEMMA LoadTyped ==
    ASSUME NEW g \in GameType
    PROVE  /\ Load(g) \in GameType /\ Load(g).doing = None
           /\ Load(g).inst = g.inst /\ Load(g).lastSnap = g.lastSnap
           /\ Load(g).ledger = g.ledger /\ Load(g).completed = g.completed
  BY DEF Load, GameType

LEMMA AfterHandshakeTyped ==
    ASSUME NEW g \in GameType, NEW number \in Nat
    PROVE  /\ AfterHandshake(g, number) \in GameType
           /\ AfterHandshake(g, number).inst = g.inst
           /\ AfterHandshake(g, number).seq = g.seq
           /\ AfterHandshake(g, number).lastSnap = <<g.inst, g.seq + 4>>
           /\ AfterHandshake(g, number).number = number
           /\ AfterHandshake(g, number).ledger = g.ledger
           /\ AfterHandshake(g, number).completed = g.completed
           /\ AfterHandshake(g, number).doing =
                [handler |-> "world", next |-> 0, number |-> number,
                 ref |-> <<g.inst, g.seq + 5>>]
<1> DEFINE a == <<g.inst, g.seq + 4>>  d == Collections(g, number)
<1>1. a \in Ident
  BY DEF Ident, GameType
<1>2. d = [handler |-> "world", next |-> 0, number |-> number, ref |-> <<g.inst, g.seq + 5>>]
  BY DEF Collections, Id
<1>3. d \in SuspendedType
  BY <1>2 DEF SuspendedType, Ident, GameType
<1>4. AfterHandshake(g, number) =
        [g EXCEPT !.lastSnap = a, !.number = number, !.doing = d]
  BY DEF AfterHandshake, Id
<1> HIDE DEF a, d
<1>5. /\ AfterHandshake(g, number) \in GameType
      /\ AfterHandshake(g, number).inst = g.inst
      /\ AfterHandshake(g, number).seq = g.seq
      /\ AfterHandshake(g, number).lastSnap = a
      /\ AfterHandshake(g, number).number = number
      /\ AfterHandshake(g, number).ledger = g.ledger
      /\ AfterHandshake(g, number).completed = g.completed
      /\ AfterHandshake(g, number).doing = d
  BY <1>1, <1>3, <1>4 DEF GameType
<1> QED
  BY <1>2, <1>5 DEF a

(* What the script is sending, or has called. *)
LEMMA DoingTyped ==
    ASSUME NEW g \in GameType
    PROVE  /\ SendingWorld(g) =>
                g.doing \in [handler : {"world"}, next : Nat, number : Nat, ref : Ident]
           /\ ChangingName(g) =>
                g.doing \in [handler : {"command"}, request : CommandType, success : BOOLEAN]
<1>1. g.doing # None => g.doing \in SuspendedType
  BY DEF GameType
<1>2. \A d \in [handler : {"world"}, next : Nat, number : Nat, ref : Ident] :
          d.handler = "world"
  OBVIOUS
<1>3. \A d \in [handler : {"command"}, request : CommandType, success : BOOLEAN] :
          d.handler = "command"
  OBVIOUS
<1> QED
  BY <1>1, <1>2, <1>3 DEF SuspendedType, SendingWorld, ChangingName

LEMMA AfterWorldTyped ==
    ASSUME NEW g \in GameType, SendingWorld(g)
    PROVE  /\ AfterWorldMessage(g) \in GameType
           /\ AfterWorldMessage(g).inst = g.inst
           /\ AfterWorldMessage(g).seq = g.seq
           /\ AfterWorldMessage(g).lastSnap = g.lastSnap
           /\ AfterWorldMessage(g).number = g.number
           /\ AfterWorldMessage(g).ledger = g.ledger
           /\ AfterWorldMessage(g).completed = g.completed
           /\ AfterWorldMessage(g).doing =
                IF g.doing.next > Pages THEN None
                ELSE [handler |-> "world", next |-> g.doing.next + 1,
                      number |-> g.doing.number, ref |-> g.doing.ref]
<1> DEFINE d == g.doing
           e == [handler |-> "world", next |-> d.next + 1, number |-> d.number, ref |-> d.ref]
           f == IF d.next > Pages THEN None ELSE e
<1>1. d \in [handler : {"world"}, next : Nat, number : Nat, ref : Ident]
  BY DoingTyped
<1>2. [d EXCEPT !.next = @ + 1] = e
  BY <1>1
<1>3. e \in SuspendedType
  BY <1>1 DEF SuspendedType
<1>4. AfterWorldMessage(g) = [g EXCEPT !.doing = f]
  <2>1. AfterWorldMessage(g) =
          [g EXCEPT !.doing = IF d.next > Pages THEN None ELSE [d EXCEPT !.next = @ + 1]]
    BY DEF AfterWorldMessage
  <2> HIDE DEF e
  <2>2. f = IF d.next > Pages THEN None ELSE [d EXCEPT !.next = @ + 1]
    BY <1>2
  <2> HIDE DEF f, d
  <2> QED
    BY <2>1, <2>2
<1>5. f \in SuspendedType \cup {None}
  BY <1>3
<1> HIDE DEF f
<1>6. /\ AfterWorldMessage(g) \in GameType
      /\ AfterWorldMessage(g).inst = g.inst
      /\ AfterWorldMessage(g).seq = g.seq
      /\ AfterWorldMessage(g).lastSnap = g.lastSnap
      /\ AfterWorldMessage(g).number = g.number
      /\ AfterWorldMessage(g).ledger = g.ledger
      /\ AfterWorldMessage(g).completed = g.completed
      /\ AfterWorldMessage(g).doing = f
  BY <1>4, <1>5 DEF GameType
<1> QED
  BY <1>6 DEF f

LEMMA RenamingTyped ==
    ASSUME NEW g \in GameType, NEW q \in CommandType, NEW success \in BOOLEAN
    PROVE  /\ Renaming(g, q, success) \in GameType
           /\ Renaming(g, q, success).inst = g.inst
           /\ Renaming(g, q, success).seq = g.seq
           /\ Renaming(g, q, success).lastSnap = g.lastSnap
           /\ Renaming(g, q, success).number = g.number
           /\ Renaming(g, q, success).ledger = g.ledger
           /\ Renaming(g, q, success).completed = g.completed
           /\ Renaming(g, q, success).doing =
                [handler |-> "command", request |-> q, success |-> success]
<1> DEFINE d == [handler |-> "command", request |-> q, success |-> success]
           n == IF success THEN q.name ELSE g.name
<1>1. d \in SuspendedType
  BY DEF SuspendedType
<1>2. n \in Names
  BY DEF GameType, CommandType
<1>3. Renaming(g, q, success) = [g EXCEPT !.name = n, !.doing = d]
  BY DEF Renaming, GameType
<1> HIDE DEF d, n
<1>4. /\ Renaming(g, q, success) \in GameType
      /\ Renaming(g, q, success).inst = g.inst
      /\ Renaming(g, q, success).seq = g.seq
      /\ Renaming(g, q, success).lastSnap = g.lastSnap
      /\ Renaming(g, q, success).number = g.number
      /\ Renaming(g, q, success).ledger = g.ledger
      /\ Renaming(g, q, success).completed = g.completed
      /\ Renaming(g, q, success).doing = d
  BY <1>1, <1>2, <1>3 DEF GameType
<1> QED
  BY <1>4 DEF d

LEMMA ExecutedTyped ==
    ASSUME NEW g \in GameType, ChangingName(g)
    PROVE  LET q == g.doing.request
               e == <<q.id, q.name>>
           IN  /\ q \in CommandType /\ e \in CommandIds \X Names
               /\ Remember(g.ledger, e) \in Seq(CommandIds \X Names)
               /\ Executed(g) \in GameType
               /\ Executed(g).inst = g.inst /\ Executed(g).seq = g.seq
               /\ Executed(g).lastSnap = g.lastSnap /\ Executed(g).number = g.number
               /\ Executed(g).doing = None
               /\ Executed(g).ledger = Remember(g.ledger, e)
               /\ Executed(g).completed = Append(g.completed, q.id)
<1> DEFINE q == g.doing.request
           e == <<q.id, q.name>>
           a == Remember(g.ledger, e)
           b == Append(g.completed, q.id)
<1>1. q \in CommandType
  BY DoingTyped
<1>2. e \in CommandIds \X Names
  BY <1>1 DEF CommandType
<1>3. a \in Seq(CommandIds \X Names)
  <2> DEFINE l == Append(g.ledger, e)
  <2>1. l \in Seq(CommandIds \X Names) /\ l # <<>>
    BY <1>2 DEF GameType
  <2>2. Tail(l) \in Seq(CommandIds \X Names)
    BY <2>1
  <2> QED
    BY <2>1, <2>2 DEF Remember
<1>4. b \in Seq(CommandIds)
  BY <1>1 DEF GameType, CommandType
<1>5. Executed(g) = [g EXCEPT !.doing = None, !.completed = b, !.ledger = a]
  BY DEF Executed, GameType
<1> HIDE DEF a, b, e, q
<1>6. /\ Executed(g) \in GameType
      /\ Executed(g).inst = g.inst /\ Executed(g).seq = g.seq
      /\ Executed(g).lastSnap = g.lastSnap /\ Executed(g).number = g.number
      /\ Executed(g).doing = None /\ Executed(g).ledger = a /\ Executed(g).completed = b
  BY <1>3, <1>4, <1>5 DEF GameType
<1> QED
  BY <1>1, <1>2, <1>3, <1>6 DEF a, b, e, q

--------------------------------------------------------------------------------
(***************************************************************************)
(* Types: connections.                                                     *)
(***************************************************************************)

(* Queue t is s with the bodies of g at its end. *)
Grown(s, t, bodies, g) ==
    /\ t \in Seq(MessageType) /\ Len(t) = Len(s) + Len(bodies)
    /\ \A i \in 1..Len(s) : t[i] = s[i]
    /\ \A i \in 1..Len(bodies) :
          t[Len(s) + i] = [inst |-> g.inst, seq |-> g.seq + i, body |-> bodies[i]]

(* Queue t is s without its first message. *)
Shrunk(s, t) ==
    /\ t \in Seq(MessageType) /\ s # <<>> /\ Len(t) = Len(s) - 1
    /\ \A i \in 1..Len(t) : t[i] = s[i + 1]

LEMMA QueueGrows ==
    ASSUME NEW s \in Seq(MessageType), NEW bodies, Bodies(bodies), NEW g \in GameType
    PROVE  Grown(s, s \o Numbered(g, bodies), bodies, g)
<1> DEFINE n == Numbered(g, bodies)
<1>1. DOMAIN bodies = 1..Len(bodies) /\ Len(bodies) \in Nat
      /\ \A i \in 1..Len(bodies) : bodies[i] \in BodyType
  BY DEF Bodies
<1>2. g.inst \in Nat /\ g.seq \in Nat
  BY DEF GameType
<1>3. \A i \in 1..Len(bodies) :
        [inst |-> g.inst, seq |-> g.seq + i, body |-> bodies[i]] \in MessageType
  BY <1>1, <1>2 DEF MessageType
<1>4. n = [i \in 1..Len(bodies) |->
             [inst |-> g.inst, seq |-> g.seq + i, body |-> bodies[i]]]
  BY <1>1 DEF Numbered
<1>5. n \in Seq(MessageType) /\ Len(n) = Len(bodies)
  BY <1>1, <1>3, <1>4
<1> QED
  BY <1>1, <1>4, <1>5 DEF Grown

LEMMA GrownLink ==
    ASSUME NEW l, LinkOK(l), NEW m \in [up : BOOLEAN, queue : Seq(MessageType)],
           NEW bodies, Bodies(bodies), NEW g \in GameType, Grown(l.queue, m.queue, bodies, g)
    PROVE  \A i \in DOMAIN m.queue : BodyOK(m.queue[i].body)
<1> SUFFICES ASSUME NEW i \in DOMAIN m.queue
             PROVE  BodyOK(m.queue[i].body)
  OBVIOUS
<1>1. l.queue \in Seq(MessageType) /\ bodies \in Seq(BodyType)
  BY DEF LinkOK, Bodies
<1>2. CASE i \in 1..Len(l.queue)
  BY <1>1, <1>2 DEF Grown, LinkOK
<1>3. CASE i \notin 1..Len(l.queue)
  <2>1. PICK j \in 1..Len(bodies) : i = Len(l.queue) + j
    <3>1. i \in 1..(Len(l.queue) + Len(bodies)) /\ Len(l.queue) \in Nat /\ Len(bodies) \in Nat
      BY <1>1 DEF Grown
    <3>2. i - Len(l.queue) \in 1..Len(bodies) /\ i = Len(l.queue) + (i - Len(l.queue))
      BY <1>3, <3>1
    <3> QED
      BY <3>2
  <2>2. m.queue[i].body = bodies[j]
    <3>1. m.queue[Len(l.queue) + j] =
            [inst |-> g.inst, seq |-> g.seq + j, body |-> bodies[j]]
      BY Zenon DEF Grown
    <3> QED
      BY <2>1, <3>1
  <2> QED
    BY <1>1, <2>1, <2>2 DEF Bodies
<1> QED
  BY <1>2, <1>3

(* Everybody connected hears what the script sends. *)
Hears(l, m, bodies, g) ==
    /\ LinkOK(m) /\ m.up = l.up
    /\ IF l.up THEN Grown(l.queue, m.queue, bodies, g) ELSE m = l

LEMMA SendHeard ==
    ASSUME TypeInv, NEW bodies, Bodies(bodies), NEW after \in GameType, Send(bodies, after)
    PROVE  /\ game' = Sent(after, bodies) /\ game' \in GameType
           /\ DOMAIN link' = Clients
           /\ \A c \in Clients : Hears(link[c], link'[c], bodies, game)
<1>1. game' = Sent(after, bodies) /\ game' \in GameType /\ game \in GameType
  BY SentTyped DEF Send, TypeInv
<1>2. ASSUME NEW c \in Clients
      PROVE  Hears(link[c], link'[c], bodies, game)
  <2> DEFINE t == link[c].queue \o Numbered(game, bodies)
  <2>1. LinkOK(link[c]) /\ link[c].up \in BOOLEAN /\ link[c].queue \in Seq(MessageType)
    BY DEF TypeInv, LinkOK
  <2>2. link'[c] = IF link[c].up THEN [link[c] EXCEPT !.queue = t] ELSE link[c]
    BY DEF Send
  <2>3. CASE ~link[c].up
    BY <2>1, <2>2, <2>3 DEF Hears
  <2>4. CASE link[c].up
    <3>1. Grown(link[c].queue, t, bodies, game)
      BY <1>1, <2>1, QueueGrows
    <3>2. t \in Seq(MessageType)
      BY <3>1 DEF Grown
    <3> HIDE DEF t
    <3>3. link'[c] \in [up : BOOLEAN, queue : Seq(MessageType)] /\ link'[c].queue = t
          /\ link'[c].up = link[c].up
      BY <2>1, <2>2, <2>4, <3>2 DEF LinkOK
    <3>4. \A i \in DOMAIN link'[c].queue : BodyOK(link'[c].queue[i].body)
      BY <1>1, <2>1, <2>4, <3>1, <3>3, GrownLink
    <3> QED
      BY <2>4, <3>1, <3>3, <3>4 DEF Hears, LinkOK
  <2> QED
    BY <2>3, <2>4
<1> QED
  BY <1>1, <1>2 DEF Send

(* One client takes its first message. *)
Pops(l, m) == LinkOK(m) /\ m.up = l.up /\ Shrunk(l.queue, m.queue)

LEMMA NowPops ==
    ASSUME TypeInv, NEW c \in Clients, NEW k, link[c].queue # <<>>,
           link' = [link EXCEPT ![c].queue = Tail(@)]
    PROVE  /\ DOMAIN link' = Clients
           /\ Pops(link[c], link'[c])
           /\ \A d \in Clients : d # c => link'[d] = link[d]
           /\ Incoming(c) = link[c].queue[1] /\ Incoming(c) \in MessageType
           /\ BodyOK(Incoming(c).body)
<1> DEFINE s == link[c].queue
<1>1. DOMAIN link = Clients /\ LinkOK(link[c])
  BY DEF TypeInv
<1>2. link[c] \in [up : BOOLEAN, queue : Seq(MessageType)] /\ s \in Seq(MessageType)
  BY <1>1 DEF LinkOK
<1>3. Shrunk(s, Tail(s))
  BY <1>2 DEF Shrunk
<1>4. link'[c] = [link[c] EXCEPT !.queue = Tail(s)]
      /\ \A d \in Clients : d # c => link'[d] = link[d]
  BY <1>1
<1>5. link'[c].queue = Tail(s) /\ link'[c].up = link[c].up
      /\ link'[c] \in [up : BOOLEAN, queue : Seq(MessageType)]
  <2> DEFINE t == Tail(s)
  <2>1. t \in Seq(MessageType)
    BY <1>3 DEF Shrunk
  <2> HIDE DEF t
  <2>2. link'[c] = [link[c] EXCEPT !.queue = t]
    BY <1>4 DEF t
  <2>3. link'[c].queue = t /\ link'[c].up = link[c].up
        /\ link'[c] \in [up : BOOLEAN, queue : Seq(MessageType)]
    BY <1>2, <2>1, <2>2
  <2> QED
    BY <2>3 DEF t
<1>6. \A i \in DOMAIN Tail(s) : BodyOK(Tail(s)[i].body)
  BY <1>1, <1>2 DEF LinkOK
<1>7. ~link[c].up => Tail(s) = <<>>
  BY <1>1 DEF LinkOK
<1>8. Head(s) = s[1] /\ s[1] \in MessageType /\ 1 \in DOMAIN s
  BY <1>2
<1> QED
  BY <1>1, <1>3, <1>4, <1>5, <1>6, <1>7, <1>8 DEF Pops, LinkOK, Incoming

--------------------------------------------------------------------------------
(***************************************************************************)
(* Types: what a message does to a client.                                 *)
(***************************************************************************)

(* A message that is accepted changes what the client has seen of the game, *)
(* and nothing of these.                                                   *)
CoreSame(k, n) ==
    /\ n.phase = k.phase /\ n.state = k.state /\ n.request = k.request
    /\ n.command = k.command /\ n.outcome = k.outcome
    /\ n.rejecting = k.rejecting /\ n.home = k.home /\ n.since = k.since

LEMMA ReceivedTyped ==
    ASSUME NEW k, ClientOK(k), NEW m \in MessageType
    PROVE  LET n == Received(k, m)
           IN  /\ ClientOK(n) /\ CoreSame(k, n)
               /\ n.inst = m.inst /\ n.got = k.got /\ n.accepted = k.accepted
               /\ n.snap = k.snap /\ n.world = k.world
               /\ n.manifest = k.manifest /\ n.pages = k.pages
<1> DEFINE s == (IF Changes(k, m) THEN {} ELSE k.seen) \cup {MessageId(m)}
<1>1. m.inst \in Nat /\ m.seq \in Nat
  BY DEF MessageType
<1>2. s \in SUBSET Ident
  BY <1>1 DEF MessageId, Id, Ident, ClientOK, ClientType
<1>3. Received(k, m) = [k EXCEPT !.inst = m.inst, !.last = m.seq, !.seen = s]
  BY DEF Received, ClientOK, ClientType
<1> HIDE DEF s
<1>4. Received(k, m) \in ClientType
  BY <1>1, <1>2, <1>3, ZenonT(30) DEF ClientOK, ClientType
<1> QED
  BY <1>3, <1>4 DEF ClientOK, ClientType, CoreSame, Has

LEMMA GotTyped ==
    ASSUME NEW k, ClientOK(k), NEW type \in MessageTypes,
           type = "state_snapshot" => k.snap \in SnapType
    PROVE  LET n == Got(k, type)
           IN  /\ ClientOK(n) /\ CoreSame(k, n)
               /\ n.inst = k.inst /\ n.got = k.got \cup {type} /\ n.accepted = k.accepted
               /\ n.snap = k.snap /\ n.world = k.world
               /\ n.manifest = k.manifest /\ n.pages = k.pages
  BY DEF Got, ClientOK, ClientType, CoreSame, Has

LEMMA SnapshotKept ==
    ASSUME NEW k, ClientOK(k), NEW b, BodyOK(b), b.type = "state_snapshot"
    PROVE  LET n == WithSnapshot(k, b)
           IN  /\ ClientOK(n) /\ CoreSame(k, n)
               /\ n.inst = k.inst /\ n.got = k.got /\ n.accepted = k.accepted
               /\ n.snap = [id |-> b.ref, name |-> b.name, number |-> b.number]
               /\ n.snap \in SnapType
               /\ n.world = k.world /\ n.manifest = k.manifest /\ n.pages = k.pages
<1> DEFINE s == [id |-> b.ref, name |-> b.name, number |-> b.number]
<1>1. s \in SnapType
  BY DEF SnapType, BodyOK, BodyType, Telling
<1>2. WithSnapshot(k, b) = [k EXCEPT !.snap = s]
  BY DEF WithSnapshot
<1> HIDE DEF s
<1>3. /\ ClientOK(WithSnapshot(k, b)) /\ CoreSame(k, WithSnapshot(k, b))
      /\ WithSnapshot(k, b).snap = s
  BY <1>1, <1>2 DEF ClientOK, ClientType, CoreSame, Has
<1> QED
  BY <1>1, <1>2, <1>3 DEF ClientOK, ClientType, s

LEMMA ManifestKept ==
    ASSUME NEW k, ClientOK(k), NEW b, BodyOK(b), b.type \in WorldTypes
    PROVE  LET n == WithManifest(k, b)
           IN  /\ ClientOK(n) /\ CoreSame(k, n)
               /\ n.inst = k.inst /\ n.got = k.got /\ n.accepted = k.accepted
               /\ n.snap = k.snap /\ n.world = k.world
               /\ n.manifest = [ref |-> b.ref, number |-> b.number] /\ n.pages = {}
<1> DEFINE s == [ref |-> b.ref, number |-> b.number]
<1>1. s \in [ref : Ident, number : Nat]
  BY DEF BodyOK, BodyType, Telling
<1>2. WithManifest(k, b) = [k EXCEPT !.manifest = s, !.pages = {}]
  BY DEF WithManifest
<1> DEFINE w == [k EXCEPT !.manifest = s]
<1>5. k \in ClientType
  BY DEF ClientOK
<1> HIDE DEF s
<1>6. w \in ClientType /\ w.manifest = s
  BY <1>1, <1>5 DEF ClientType
<1>7. WithManifest(k, b) = [w EXCEPT !.pages = {}]
  BY <1>2, <1>5 DEF ClientType
<1>3. WithManifest(k, b) \in ClientType
  <2> HIDE DEF w
  <2> QED
    BY <1>6, <1>7, SMTT(20) DEF ClientType
<1>4. WithManifest(k, b).manifest = s
  BY <1>2, <1>5 DEF ClientType
<1> QED
  BY <1>2, <1>3, <1>4 DEF ClientOK, ClientType, CoreSame, Has, s

LEMMA PageKept ==
    ASSUME NEW k, ClientOK(k), NEW b, BodyOK(b)
    PROVE  LET n == WithPage(k, b)
           IN  /\ ClientOK(n) /\ CoreSame(k, n)
               /\ n.inst = k.inst /\ n.got = k.got /\ n.accepted = k.accepted
               /\ n.snap = k.snap /\ n.world = k.world /\ n.manifest = k.manifest
               /\ n.pages = k.pages \cup {[index |-> b.index, number |-> b.number]}
<1> DEFINE s == k.pages \cup {[index |-> b.index, number |-> b.number]}
<1>1. s \in SUBSET [index : Nat, number : Nat]
  BY DEF BodyOK, BodyType, ClientOK, ClientType
<1>2. WithPage(k, b) = [k EXCEPT !.pages = s]
  BY DEF WithPage, ClientOK, ClientType
<1> HIDE DEF s
<1>3. WithPage(k, b) \in ClientType /\ WithPage(k, b).pages = s
  BY <1>1, <1>2 DEF ClientOK, ClientType
<1> QED
  BY <1>2, <1>3 DEF ClientOK, ClientType, CoreSame, Has, s

LEMMA WorldKept ==
    ASSUME NEW k, ClientOK(k), NEW b, BodyOK(b), k.manifest # None
    PROVE  LET n == WithWorld(k, b)
           IN  /\ ClientOK(n) /\ CoreSame(k, n)
               /\ n.inst = k.inst /\ n.got = k.got /\ n.accepted = k.accepted
               /\ n.snap = k.snap /\ n.manifest = k.manifest /\ n.pages = k.pages
               /\ n.world = {p.number : p \in k.pages} \cup {k.manifest.number, b.number}
<1> DEFINE s == {p.number : p \in k.pages} \cup {k.manifest.number, b.number}
<1>1. k.manifest.number \in Nat /\ b.number \in Nat
  BY DEF BodyOK, BodyType, ClientOK, ClientType
<1>2. \A p \in k.pages : p.number \in Nat
  BY DEF ClientOK, ClientType
<1>3. s \in SUBSET Nat
  BY <1>1, <1>2
<1>4. WithWorld(k, b) = [k EXCEPT !.world = s]
  BY DEF WithWorld
<1> HIDE DEF s
<1>5. WithWorld(k, b) \in ClientType /\ WithWorld(k, b).world = s
  BY <1>3, <1>4 DEF ClientOK, ClientType
<1> QED
  BY <1>4, <1>5 DEF ClientOK, ClientType, CoreSame, Has, s

(* What a message has told the client that receives it. *)
Told(k, b, n) ==
    /\ n.snap = IF b.type = "state_snapshot"
                THEN [id |-> b.ref, name |-> b.name, number |-> b.number] ELSE k.snap
    /\ \/ n.manifest = k.manifest /\ n.pages = k.pages
       \/ /\ b.type = "world_manifest"
          /\ n.manifest = [ref |-> b.ref, number |-> b.number] /\ n.pages = {}
       \/ /\ b.type = "world_collection_page" /\ k.manifest # None
          /\ n.manifest = k.manifest
          /\ n.pages = k.pages \cup {[index |-> b.index, number |-> b.number]}
    /\ \/ n.world = k.world
       \/ /\ b.type = "world_snapshot_complete" /\ k.manifest # None
          /\ n.world = {p.number : p \in k.pages} \cup {k.manifest.number, b.number}

LEMMA ConsumedTyped ==
    ASSUME NEW k, ClientOK(k), NEW b, BodyOK(b), ~UnsolicitedRefused(k, b)
    PROVE  LET n == Consumed(k, b)
           IN  /\ ClientOK(n) /\ CoreSame(k, n) /\ Told(k, b, n)
               /\ n.inst = k.inst /\ n.got = k.got
               /\ b.type \in PartTypes => OfManifest(k, b)
<1>1. CASE b.type = "state_snapshot"
  BY <1>1, SnapshotKept DEF Consumed, Told, PartTypes
<1>2. CASE b.type = "world_manifest"
  BY <1>2, ManifestKept DEF Consumed, Told, PartTypes, WorldTypes
<1>3. CASE b.type = "world_collection_page"
  <2>1. OfManifest(k, b)
    BY <1>3 DEF UnsolicitedRefused, PageFits
  <2> QED
    BY <1>3, <2>1, PageKept DEF Consumed, Told, OfManifest
<1>4. CASE b.type = "world_snapshot_complete"
  <2>1. OfManifest(k, b)
    BY <1>4 DEF UnsolicitedRefused, WorldFits
  <2> QED
    BY <1>4, <2>1, WorldKept DEF Consumed, Told, OfManifest
<1>5. CASE b.type \notin Telling
  BY <1>5 DEF Consumed, Told, Telling, WorldTypes, PartTypes, CoreSame
<1> QED
  BY <1>1, <1>2, <1>3, <1>4, <1>5 DEF Telling, WorldTypes, PartTypes

(* A client in a synchronization also counts what it got. *)
LEMMA NegotiatedTyped ==
    ASSUME NEW k, ClientOK(k), NEW b, BodyOK(b)
    PROVE  LET n == Negotiated(k, b)
           IN  /\ ClientOK(n) /\ CoreSame(k, n) /\ Told(k, b, n) /\ n.inst = k.inst
               /\ n.got = k.got \cup
                    IF \/ b.type \in {"hello", "capabilities", "state_snapshot"}
                       \/ b.type = "resync_response" /\ OwnResponse(k, b)
                       \/ b.type = "world_snapshot_complete" /\ Assembling(k)
                    THEN {b.type} ELSE {}
               /\ b.type = "world_manifest" /\ Shaken(k) =>
                    n.manifest = [ref |-> b.ref, number |-> b.number] /\ n.pages = {}
               /\ b.type = "world_snapshot_complete" /\ Assembling(k) =>
                    n.world = {p.number : p \in k.pages} \cup {k.manifest.number, b.number}
<1>0. b.type \in MessageTypes
  BY DEF BodyOK, BodyType
<1>1. CASE b.type \in {"hello", "capabilities"}
  BY <1>0, <1>1, GotTyped DEF Negotiated, Told
<1>2. CASE b.type = "resync_response"
  <2>1. CASE OwnResponse(k, b)
    BY <1>0, <1>2, <2>1, GotTyped DEF Negotiated, Told
  <2>2. CASE ~OwnResponse(k, b)
    BY <1>2, <2>2 DEF Negotiated, Told, CoreSame
  <2> QED
    BY <2>1, <2>2
<1>3. CASE b.type = "state_snapshot"
  <2> DEFINE w == WithSnapshot(k, b)
  <2>1. /\ ClientOK(w) /\ CoreSame(k, w) /\ w.inst = k.inst /\ w.got = k.got
        /\ w.snap = [id |-> b.ref, name |-> b.name, number |-> b.number]
        /\ w.snap \in SnapType
        /\ w.world = k.world /\ w.manifest = k.manifest /\ w.pages = k.pages
    BY <1>3, SnapshotKept
  <2>2. Negotiated(k, b) = Got(w, b.type)
    BY <1>3 DEF Negotiated
  <2> HIDE DEF w
  <2>3. LET n == Got(w, b.type)
        IN  /\ ClientOK(n) /\ CoreSame(w, n) /\ n.inst = w.inst
            /\ n.got = w.got \cup {b.type} /\ n.snap = w.snap
            /\ n.world = w.world /\ n.manifest = w.manifest /\ n.pages = w.pages
    BY <1>0, <2>1, GotTyped
  <2> QED
    BY <1>3, <2>1, <2>2, <2>3 DEF Told, CoreSame
<1>4. CASE b.type = "world_manifest"
  <2>1. CASE Shaken(k)
    BY <1>4, <2>1, ManifestKept DEF Negotiated, Told, WorldTypes
  <2>2. CASE ~Shaken(k)
    BY <1>4, <2>2 DEF Negotiated, Told, CoreSame
  <2> QED
    BY <2>1, <2>2
<1>5. CASE b.type = "world_collection_page"
  <2>1. CASE Assembling(k)
    BY <1>5, <2>1, PageKept DEF Negotiated, Told, Assembling
  <2>2. CASE ~Assembling(k)
    BY <1>5, <2>2 DEF Negotiated, Told, CoreSame
  <2> QED
    BY <2>1, <2>2
<1>6. CASE b.type = "world_snapshot_complete"
  <2>1. CASE Assembling(k)
    <3> DEFINE w == WithWorld(k, b)
    <3>1. /\ ClientOK(w) /\ CoreSame(k, w) /\ w.inst = k.inst /\ w.got = k.got
          /\ w.snap = k.snap /\ w.manifest = k.manifest /\ w.pages = k.pages
          /\ w.world = {p.number : p \in k.pages} \cup {k.manifest.number, b.number}
          /\ k.manifest # None
      BY <2>1, WorldKept DEF Assembling
    <3>2. Negotiated(k, b) = Got(w, b.type)
      BY <1>6, <2>1 DEF Negotiated
    <3> HIDE DEF w
    <3>3. LET n == Got(w, b.type)
          IN  /\ ClientOK(n) /\ CoreSame(w, n) /\ n.inst = w.inst
              /\ n.got = w.got \cup {b.type} /\ n.snap = w.snap
              /\ n.world = w.world /\ n.manifest = w.manifest /\ n.pages = w.pages
      BY <1>0, <1>6, <3>1, GotTyped
    <3> QED
      BY <1>6, <2>1, <3>1, <3>2, <3>3 DEF Told, CoreSame
  <2>2. CASE ~Assembling(k)
    BY <1>6, <2>2 DEF Negotiated, Told, CoreSame
  <2> QED
    BY <2>1, <2>2
<1>7. CASE b.type \notin {"hello", "capabilities", "resync_response"} \cup Telling
  BY <1>7 DEF Negotiated, Told, CoreSame, Telling, WorldTypes, PartTypes
<1> QED
  BY <1>1, <1>2, <1>3, <1>4, <1>5, <1>6, <1>7 DEF Telling, WorldTypes, PartTypes

(* The end of a method changes none of what the client has seen. *)
ViewSame(k, n) ==
    /\ n.inst = k.inst /\ n.got = k.got /\ n.snap = k.snap /\ n.world = k.world
    /\ n.manifest = k.manifest /\ n.pages = k.pages /\ n.command = k.command
    /\ n.request = k.request /\ n.since = k.since /\ n.rejecting = k.rejecting

LEMMA ReturnedTyped ==
    ASSUME NEW k, ClientOK(k), Baseline(k), Finished(k)
    PROVE  LET n == Returned(k)
           IN  /\ ClientOK(n) /\ ViewSame(k, n) /\ n.phase = "idle"
               /\ n.state = IF k.phase = "probing" THEN "identity_verified" ELSE "synchronized"
               /\ n.home = IF k.phase = "probing" \/ k.rejecting THEN k.home ELSE k.inst
               /\ k.phase # "verifying" => n.outcome = k.outcome
               /\ n.outcome = "success" =>
                    k.phase = "verifying" /\ k.snap.name = k.command.name
<1>1. k.snap \in SnapType /\ k \in ClientType /\ k.outcome = "none"
  BY DEF ClientOK, Has, Finished, Shaken, Summary, Baseline
<1>2. CASE k.phase = "probing"
  BY <1>1, <1>2 DEF Returned, ClientOK, ClientType, ViewSame, Has, Phases
<1> DEFINE h == IF k.rejecting THEN k.home ELSE k.inst
           w == Synchronized(k)
<1>3. w = [k EXCEPT !.phase = "idle", !.state = "synchronized", !.home = h]
  BY <1>1 DEF Synchronized, ClientType
<1>4. h \in Nat
  BY <1>1 DEF ClientType
<1>5. /\ w \in ClientType /\ ViewSame(k, w) /\ w.phase = "idle"
      /\ w.state = "synchronized" /\ w.home = h /\ w.outcome = k.outcome
  <2> HIDE DEF h, w
  <2> QED
    BY <1>1, <1>3, <1>4 DEF ClientType, ViewSame, Phases
<1>6. CASE k.phase = "syncing"
  <2>1. Returned(k) = w
    BY <1>6 DEF Returned
  <2> HIDE DEF w
  <2> QED
    BY <1>1, <1>5, <1>6, <2>1 DEF ClientOK, ViewSame, Has
<1>7. CASE k.phase = "verifying"
  <2> DEFINE o == IF k.snap.name = k.command.name THEN "success" ELSE "refused"
  <2>1. Returned(k) = [w EXCEPT !.outcome = o]
    BY <1>7 DEF Returned
  <2>2. o \in {"success", "refused"} /\ (o = "success" => k.snap.name = k.command.name)
    OBVIOUS
  <2> HIDE DEF w, o, h
  <2>3. /\ Returned(k) \in ClientType /\ ViewSame(k, Returned(k))
        /\ Returned(k).phase = "idle" /\ Returned(k).state = "synchronized"
        /\ Returned(k).home = h /\ Returned(k).outcome = o
    BY <1>5, <2>1, <2>2 DEF ClientType, ViewSame
  <2> QED
    BY <1>1, <1>7, <2>2, <2>3 DEF ClientOK, ViewSame, Has, h
<1> QED
  BY <1>2, <1>6, <1>7 DEF Baseline

LEMMA RaisedTyped ==
    ASSUME NEW k, ClientOK(k), k.phase # "idle"
    PROVE  LET n == Raised(k)
           IN  /\ ClientOK(n) /\ ViewSame(k, n) /\ n.phase = "idle"
               /\ n.state = IF Baseline(k) THEN "failed" ELSE k.state
               /\ n.home = k.home /\ n.outcome # "success"
<1> DEFINE s == IF Baseline(k) THEN "failed" ELSE k.state
           o == IF k.phase \in {"commanding", "verifying"} THEN "raised" ELSE k.outcome
<1>1. /\ s \in {"disconnected", "resynchronizing", "synchronized", "identity_verified", "failed"}
      /\ s = "synchronized" => k.state = "synchronized"
      /\ o \in {"none", "raised"}
  BY DEF ClientOK, ClientType
<1>2. Raised(k) = [k EXCEPT !.phase = "idle", !.state = s, !.outcome = o]
  BY DEF Raised, ClientOK, ClientType
<1> HIDE DEF s, o
<1>3. /\ Raised(k) \in ClientType /\ ViewSame(k, Raised(k))
      /\ Raised(k).phase = "idle" /\ Raised(k).state = s /\ Raised(k).outcome = o
      /\ Raised(k).home = k.home
  <2>1. k \in ClientType /\ "idle" \in Phases
        /\ o \in {"none", "success", "refused", "raised"}
    BY <1>1 DEF ClientOK, Phases
  <2>2. Raised(k) \in ClientType
    BY <1>1, <1>2, <2>1, ZenonT(30) DEF ClientType
  <2> QED
    BY <1>2, <2>1, <2>2 DEF ClientType, ViewSame
<1> QED
  BY <1>1, <1>3 DEF ClientOK, ViewSame, Has, s

(* A client that has just sent a request. *)
Asks(k, n, phase, request, number) ==
    /\ n.phase = phase /\ n.state = "resynchronizing" /\ n.got = {} /\ n.request = request
    /\ n.since = number /\ n.outcome = "none"
    /\ n.inst = k.inst /\ n.snap = k.snap /\ n.command = k.command
    /\ n.rejecting = k.rejecting /\ n.home = k.home /\ n.manifest = k.manifest

LEMMA RequestingTyped ==
    ASSUME NEW k, ClientOK(k), NEW phase \in {"syncing", "probing", "verifying"},
           phase = "verifying" => k.phase = "commanding", NEW request \in Nat, NEW number \in Nat
    PROVE  LET w == Requesting(k, phase, request, number)
               n == [w EXCEPT !.outcome = "none"]
           IN  /\ ClientOK(n) /\ Asks(k, n, phase, request, number)
               /\ k.phase = "commanding" =>
                    ClientOK(w) /\ Asks(k, w, phase, request, number)
<1> DEFINE w == Requesting(k, phase, request, number)
           n == [w EXCEPT !.outcome = "none"]
<1>1. /\ w \in ClientType
      /\ w.phase = phase /\ w.state = "resynchronizing" /\ w.got = {} /\ w.request = request
      /\ w.since = number /\ w.outcome = k.outcome
      /\ w.inst = k.inst /\ w.snap = k.snap /\ w.command = k.command
      /\ w.rejecting = k.rejecting /\ w.home = k.home /\ w.manifest = k.manifest
  BY DEF Requesting, ClientOK, ClientType, Phases
<1> HIDE DEF w
<1>2. /\ n \in ClientType
      /\ n.phase = phase /\ n.state = "resynchronizing" /\ n.got = {} /\ n.request = request
      /\ n.since = number /\ n.outcome = "none"
      /\ n.inst = k.inst /\ n.snap = k.snap /\ n.command = k.command
      /\ n.rejecting = k.rejecting /\ n.home = k.home /\ n.manifest = k.manifest
  BY <1>1 DEF ClientType
<1> HIDE DEF n
<1>3. ClientOK(n) /\ Asks(k, n, phase, request, number)
  BY <1>2 DEF ClientOK, Has, Asks
<1>4. k.phase = "commanding" => ClientOK(w) /\ Asks(k, w, phase, request, number)
  BY <1>1 DEF ClientOK, Has, Asks
<1> QED
  BY <1>3, <1>4 DEF w, n

LEMMA NewClientTyped ==
    /\ ClientOK(NewClient) /\ NewClient.phase = "idle" /\ NewClient.state = "disconnected"
    /\ NewClient.got = {} /\ ~NewClient.rejecting /\ NewClient.outcome = "none"
    /\ NewClient.request = 0 /\ NewClient.since = 0 /\ NewClient.manifest = None
<1>1. NewClient \in ClientType
  BY DEF NewClient, ClientType, Phases
<1> QED
  BY <1>1 DEF NewClient, ClientOK, Has

LEMMA ResumedTyped ==
    ASSUME NEW k, ClientOK(k)
    PROVE  LET n == Resumed(k)
           IN  /\ ClientOK(n) /\ n.phase = "idle" /\ n.state = "disconnected" /\ n.got = {}
               /\ n.inst = k.home /\ n.home = k.home /\ n.outcome = "none"
               /\ n.request = 0 /\ n.since = 0 /\ n.manifest = None
<1>1. k.home \in Nat /\ NewClient \in ClientType
  BY NewClientTyped DEF ClientOK, ClientType
<1>2. /\ NewClient.phase = "idle" /\ NewClient.state = "disconnected"
      /\ NewClient.got = {} /\ NewClient.outcome = "none"
      /\ NewClient.request = 0 /\ NewClient.since = 0 /\ NewClient.manifest = None
  BY NewClientTyped
<1>3. /\ Resumed(k) \in ClientType
      /\ Resumed(k).phase = "idle" /\ Resumed(k).state = "disconnected"
      /\ Resumed(k).got = {} /\ Resumed(k).outcome = "none"
      /\ Resumed(k).inst = k.home /\ Resumed(k).home = k.home
      /\ Resumed(k).request = 0 /\ Resumed(k).since = 0 /\ Resumed(k).manifest = None
  BY <1>1, <1>2 DEF Resumed, ClientType
<1> QED
  BY <1>3 DEF ClientOK, Has

--------------------------------------------------------------------------------
(***************************************************************************)
(* Types are kept.                                                         *)
(***************************************************************************)
LEMMA HeadOfInbox ==
    ASSUME TypeInv, inbox # <<>>
    PROVE  /\ Head(inbox) \in RequestType /\ Head(inbox).request \in Nat
           /\ Head(inbox) = inbox[1] /\ 1 \in DOMAIN inbox
           /\ Head(inbox).type = "command_request" => Head(inbox) \in CommandType
           /\ Tail(inbox) \in Seq(RequestType)
           /\ \A i \in DOMAIN Tail(inbox) : i + 1 \in DOMAIN inbox /\ Tail(inbox)[i] = inbox[i + 1]
<1>1. inbox \in Seq(RequestType)
  BY DEF TypeInv
<1>2. Head(inbox) \in RequestType /\ Head(inbox) = inbox[1] /\ 1 \in DOMAIN inbox
      /\ Tail(inbox) \in Seq(RequestType)
      /\ \A i \in DOMAIN Tail(inbox) : i + 1 \in DOMAIN inbox /\ Tail(inbox)[i] = inbox[i + 1]
  BY <1>1
<1>3. \A q \in [type : {"resync_request"}, request : Nat] :
          q.request \in Nat /\ q.type = "resync_request"
  OBVIOUS
<1>4. \A q \in CommandType : q.request \in Nat
  BY DEF CommandType
<1> QED
  BY <1>2, <1>3, <1>4 DEF RequestType

LEMMA SpendTyped ==
    ASSUME TypeInv, NEW kind \in Kinds, Spend(kind)
    PROVE  spent' \in [Kinds -> Nat] /\ spent'[kind] = spent[kind] + 1
           /\ \A other \in Kinds : other # kind => spent'[other] = spent[other]
           /\ spent[kind] < Budget[kind]
  BY DEF TypeInv, Spend

LEMMA SendTypes ==
    ASSUME TypeInv, NEW bodies, Bodies(bodies), NEW after \in GameType, Send(bodies, after),
           saved' \in GameType \cup {None}, inbox' \in Seq(RequestType),
           UNCHANGED <<client, requests>>, captures' \in Nat, log' \in Seq(EntryType),
           spent' \in [Kinds -> Nat]
    PROVE  TypeInv'
<1>1. /\ game' \in GameType /\ DOMAIN link' = Clients
      /\ \A c \in Clients : LinkOK(link'[c]) /\ link'[c].up = link[c].up
  BY SendHeard DEF Hears
<1> QED
  BY <1>1 DEF TypeInv

LEMMA ScriptTypes ==
    ASSUME TypeInv, ScriptStep
    PROVE  TypeInv'
<1>0. /\ game \in GameType /\ saved \in GameType \cup {None} /\ captures \in Nat
      /\ log \in Seq(EntryType) /\ inbox \in Seq(RequestType) /\ spent \in [Kinds -> Nat]
  BY DEF TypeInv
<1>1. CASE Heartbeat
  <2>1. BodyOK(Body("heartbeat", 0))
    BY BodyTyped DEF MessageTypes, Telling, WorldTypes, PartTypes
  <2>2. spent' \in [Kinds -> Nat]
    BY <1>1, SpendTyped DEF Heartbeat, Kinds
  <2> QED
    BY <1>0, <1>1, <2>1, <2>2, OneBody, SendTypes DEF Heartbeat
<1>2. CASE HandleResync
  <2>1. Head(inbox).request \in Nat /\ inbox' \in Seq(RequestType)
    BY <1>2, HeadOfInbox DEF HandleResync, Takes
  <2>2. captures + 1 \in Nat
    BY <1>0
  <2>3. Bodies(Handshake(game, Head(inbox).request, captures + 1))
    BY <1>0, <2>1, <2>2, HandshakeTyped
  <2>4. AfterHandshake(game, captures + 1) \in GameType
    BY <1>0, <2>2, AfterHandshakeTyped
  <2> QED
    BY <1>0, <1>2, <2>1, <2>2, <2>3, <2>4, SendTypes DEF HandleResync
<1>3. CASE SendWorld
  <2>1. BodyOK(WorldMessage(game.doing)) /\ AfterWorldMessage(game) \in GameType
    BY <1>0, <1>3, DoingTyped, WorldTyped, AfterWorldTyped DEF SendWorld
  <2> QED
    BY <1>0, <1>3, <2>1, OneBody, SendTypes DEF SendWorld
<1>4. CASE HandleCommand
  <2>1. Head(inbox) \in CommandType /\ inbox' \in Seq(RequestType)
    BY <1>4, HeadOfInbox DEF HandleCommand, Takes
  <2>2. Bodies(<<Reject(Head(inbox))>>) /\ Bodies(<<Accept(Head(inbox)), Complete(Head(inbox))>>)
    BY <2>1, AnswerTyped, OneBody, TwoBodies
  <2>3. Bodies(Replay(game, Head(inbox)))
    BY <2>2 DEF Replay
  <2> QED
    BY <1>0, <1>4, <2>1, <2>2, <2>3, SendTypes DEF HandleCommand
<1>5. CASE ExecuteSetCompanyName
  <2> DEFINE q == Head(inbox)
  <2>1. q \in CommandType /\ inbox' \in Seq(RequestType)
    BY <1>5, HeadOfInbox DEF ExecuteSetCompanyName, Takes
  <2>2. Bodies(<<Accept(q)>>) /\ Renaming(game, q, TRUE) \in GameType
        /\ Renaming(game, q, FALSE) \in GameType
    BY <1>0, <2>1, AnswerTyped, OneBody, RenamingTyped
  <2> DEFINE e == [ id |-> q.id, name |-> q.name, at |-> captures, inst |-> game.inst,
                    decided |-> q.number, newest |-> game.number, home |-> q.home ]
  <2>3. e \in EntryType
    BY <1>0, <2>1 DEF EntryType, CommandType, GameType
  <2>4. log' \in Seq(EntryType)
    <3>1. log' = log \/ log' = Append(log, e)
      BY <1>5 DEF ExecuteSetCompanyName
    <3> HIDE DEF e
    <3>2. log \in Seq(EntryType)
      BY <1>0
    <3>3. Append(log, e) \in Seq(EntryType)
      BY <2>3, <3>2
    <3> QED
      BY <3>1, <3>2, <3>3, Zenon
  <2> HIDE DEF q
  <2>5. Send(<<Accept(q)>>, Renaming(game, q, TRUE)) \/ Send(<<Accept(q)>>, Renaming(game, q, FALSE))
    BY <1>5 DEF ExecuteSetCompanyName, q
  <2>6. UNCHANGED <<saved, client, requests, captures, spent>>
    BY <1>5 DEF ExecuteSetCompanyName
  <2> QED
    BY <1>0, <2>1, <2>2, <2>4, <2>5, <2>6, SendTypes
<1>6. CASE AnswerSetCompanyName
  <2>1. game.doing.request \in CommandType /\ Executed(game) \in GameType
    BY <1>0, <1>6, ExecutedTyped DEF AnswerSetCompanyName
  <2>2. Bodies(<<Complete(game.doing.request)>>) /\ Bodies(<<Fail(game.doing.request)>>)
    BY <2>1, AnswerTyped, OneBody
  <2>3. [game EXCEPT !.doing = None] \in GameType
    BY <1>0 DEF GameType
  <2> QED
    BY <1>0, <1>6, <2>1, <2>2, <2>3, SendTypes DEF AnswerSetCompanyName
<1> QED
  BY <1>1, <1>2, <1>3, <1>4, <1>5, <1>6 DEF ScriptStep

LEMMA GameTypes ==
    ASSUME TypeInv, GameStep
    PROVE  TypeInv'
<1>0. /\ game \in GameType /\ saved \in GameType \cup {None} /\ captures \in Nat
      /\ log \in Seq(EntryType) /\ inbox \in Seq(RequestType) /\ spent \in [Kinds -> Nat]
      /\ "save" \in Kinds /\ "load" \in Kinds /\ "new_game" \in Kinds /\ "other" \in Kinds
  BY DEF TypeInv, Kinds
<1>1. CASE Save
  <2>1. spent' \in [Kinds -> Nat]
    BY <1>0, <1>1, SpendTyped DEF Save
  <2> QED
    BY <1>1, <2>1 DEF Save, TypeInv
<1>2. CASE LoadGame
  <2>1. spent' \in [Kinds -> Nat] /\ Load(saved) \in GameType
    BY <1>0, <1>2, SpendTyped, LoadTyped DEF LoadGame
  <2>2. inbox' \in Seq(RequestType)
    <3>1. inbox' = inbox \/ inbox' = <<>>
      BY <1>2 DEF LoadGame, Restart
    <3>2. <<>> \in Seq(RequestType) /\ inbox \in Seq(RequestType)
      BY <1>0
    <3> QED
      BY <3>1, <3>2, Zenon
  <2> QED
    BY <1>0, <1>2, <2>1, <2>2, GreetingTyped, SendTypes DEF LoadGame, Restart
<1>3. CASE StartNewGame
  <2>1. spent' \in [Kinds -> Nat] /\ NewGame(spent["new_game"] + 2, FirstName) \in GameType
    BY <1>0, <1>3, SpendTyped, NewGameTyped DEF StartNewGame
  <2>2. inbox' \in Seq(RequestType)
    <3>1. inbox' = inbox \/ inbox' = <<>>
      BY <1>3 DEF StartNewGame, Restart
    <3>2. <<>> \in Seq(RequestType) /\ inbox \in Seq(RequestType)
      BY <1>0
    <3> QED
      BY <3>1, <3>2, Zenon
  <2> QED
    BY <1>0, <1>3, <2>1, <2>2, GreetingTyped, SendTypes DEF StartNewGame, Restart
<1>4. CASE Rename
  <2>1. spent' \in [Kinds -> Nat]
    BY <1>0, <1>4, SpendTyped DEF Rename
  <2>2. PICK name \in Names : game' = [game EXCEPT !.name = name]
    BY <1>4 DEF Rename
  <2>3. game' \in GameType
    BY <1>0, <2>2 DEF GameType
  <2> QED
    BY <1>4, <2>1, <2>3 DEF Rename, TypeInv
<1> QED
  BY <1>1, <1>2, <1>3, <1>4 DEF GameStep

(* Only client c and its connection change. *)
OthersStay(c) ==
    /\ DOMAIN client' = Clients /\ DOMAIN link' = Clients
    /\ \A d \in Clients : d # c => client'[d] = client[d] /\ link'[d] = link[d]

(* A client has just sent the request q. *)
Asked(c, q) ==
    /\ q \in RequestType /\ q.request = requests + 1
    /\ requests' = requests + 1 /\ inbox' = Append(inbox, q)
    /\ OthersStay(c)
    /\ ClientOK(client'[c]) /\ LinkOK(link'[c]) /\ link'[c].up
    /\ link'[c].queue = link[c].queue

LEMMA AskedTypes ==
    ASSUME TypeInv, NEW c \in Clients, NEW q, Asked(c, q), spent' \in [Kinds -> Nat],
           UNCHANGED <<game, saved, captures, log>>
    PROVE  TypeInv'
<1>1. requests' \in Nat /\ inbox' \in Seq(RequestType)
  BY DEF TypeInv, Asked
<1> QED
  BY <1>1 DEF TypeInv, Asked, OthersStay

ResyncRequestOf(n) == [type |-> "resync_request", request |-> n]

LEMMA BeginAsks ==
    ASSUME TypeInv, NEW c \in Clients, NEW phase \in {"syncing", "probing"}, Begin(c, phase)
    PROVE  /\ Asked(c, ResyncRequestOf(requests + 1))
           /\ Asks(client[c], client'[c], phase, requests + 1, captures)
           /\ client[c].phase = "idle"
           /\ UNCHANGED <<game, saved, captures, log>>
<1>0. /\ requests + 1 \in Nat /\ captures \in Nat /\ DOMAIN client = Clients
      /\ DOMAIN link = Clients /\ ClientOK(client[c]) /\ LinkOK(link[c])
  BY DEF TypeInv
<1> DEFINE n == [Requesting(client[c], phase, requests + 1, captures) EXCEPT !.outcome = "none"]
           q == ResyncRequestOf(requests + 1)
<1>1. ClientOK(n) /\ Asks(client[c], n, phase, requests + 1, captures)
  BY <1>0, RequestingTyped
<1>2. client' = [client EXCEPT ![c] = n]
  BY DEF Begin
<1> HIDE DEF n
<1>3. DOMAIN client' = Clients /\ client'[c] = n
      /\ \A d \in Clients : d # c => client'[d] = client[d]
  BY <1>0, <1>2
<1>4. link' = [link EXCEPT ![c] = IF link[c].up THEN link[c] ELSE [up |-> TRUE, queue |-> <<>>]]
  BY DEF Begin
<1>5. DOMAIN link' = Clients
      /\ link'[c] = (IF link[c].up THEN link[c] ELSE [up |-> TRUE, queue |-> <<>>])
      /\ \A d \in Clients : d # c => link'[d] = link[d]
  BY <1>0, <1>4
<1>6. LinkOK(link'[c]) /\ link'[c].up /\ link'[c].queue = link[c].queue
  <2>1. LinkOK([up |-> TRUE, queue |-> <<>>])
    BY DEF LinkOK
  <2> QED
    BY <1>0, <1>5, <2>1 DEF LinkOK
<1>7. q \in RequestType /\ q.request = requests + 1
  BY <1>0 DEF ResyncRequestOf, RequestType
<1>8. requests' = requests + 1 /\ inbox' = Append(inbox, q)
  BY DEF Begin, Request, ResyncRequest, ResyncRequestOf
<1> HIDE DEF q
<1>9. Asked(c, q)
  BY <1>1, <1>3, <1>5, <1>6, <1>7, <1>8 DEF Asked, OthersStay
<1> QED
  BY <1>1, <1>3, <1>9 DEF Begin, q

(* A command names the snapshot its client has. *)
CommandOf(c, q, n) ==
    LET k == client[c]
    IN  /\ q \in CommandType /\ k.snap \in SnapType /\ k.state = "synchronized"
        /\ q.prior = k.snap.id /\ q.number = k.snap.number
        /\ q.home = (IF k.rejecting THEN k.home ELSE 0)
        /\ n = [k EXCEPT !.phase = "commanding", !.request = q.request,
                         !.command = [id |-> q.id, name |-> q.name],
                         !.accepted = FALSE, !.outcome = "none"]

Commands(k, n, q) ==
    /\ n.phase = "commanding" /\ n.request = q.request
    /\ n.command = [id |-> q.id, name |-> q.name] /\ n.outcome = "none"
    /\ n.state = "synchronized"
    /\ n.inst = k.inst /\ n.snap = k.snap /\ n.world = k.world
    /\ n.manifest = k.manifest /\ n.pages = k.pages /\ n.got = k.got /\ n.since = k.since
    /\ n.rejecting = k.rejecting /\ n.home = k.home

LEMMA CommandTyped ==
    ASSUME TypeInv, NEW c \in Clients, NEW q, NEW n, CommandOf(c, q, n)
    PROVE  ClientOK(n) /\ Commands(client[c], n, q)
<1> DEFINE k == client[c]  a == [id |-> q.id, name |-> q.name]
<1>1. k \in ClientType /\ k.snap \in SnapType /\ k.state = "synchronized"
  BY DEF TypeInv, ClientOK, CommandOf
<1>2. a \in [id : CommandIds, name : Names] /\ q.request \in Nat /\ "commanding" \in Phases
  BY DEF CommandOf, CommandType, Phases
<1>3. n = [k EXCEPT !.phase = "commanding", !.request = q.request, !.command = a,
                    !.accepted = FALSE, !.outcome = "none"]
  BY DEF CommandOf
<1> HIDE DEF k, a
<1>4. n \in ClientType
  BY <1>1, <1>2, <1>3 DEF ClientType
<1>5. /\ n.phase = "commanding" /\ n.request = q.request /\ n.command = a
      /\ n.outcome = "none" /\ n.state = k.state
      /\ n.inst = k.inst /\ n.snap = k.snap /\ n.world = k.world
      /\ n.manifest = k.manifest /\ n.pages = k.pages /\ n.got = k.got /\ n.since = k.since
      /\ n.rejecting = k.rejecting /\ n.home = k.home
  BY <1>1, <1>3 DEF ClientType
<1> QED
  BY <1>1, <1>2, <1>4, <1>5 DEF ClientOK, Has, Commands, k, a

LEMMA SendCommandAsks ==
    ASSUME TypeInv, NEW c \in Clients, SendCommand(c)
    PROVE  /\ \E q \in CommandType : Asked(c, q) /\ CommandOf(c, q, client'[c])
           /\ client[c].phase = "idle"
           /\ UNCHANGED <<game, saved, link, captures, log>>
<1> DEFINE k == client[c]
<1>0. /\ requests \in Nat /\ DOMAIN client = Clients
      /\ DOMAIN link = Clients /\ ClientOK(k) /\ LinkOK(link[c])
      /\ k.phase = "idle" /\ k.state = "synchronized" /\ link[c].up
  BY DEF TypeInv, SendCommand
<1>1. k \in ClientType /\ k.snap \in SnapType
  BY <1>0 DEF ClientOK, Has
<1>2. PICK id \in CommandIds, name \in Names \ {k.snap.name} :
        /\ Request([ type |-> "command_request", request |-> requests + 1,
                     id |-> id, name |-> name, prior |-> k.snap.id,
                     number |-> k.snap.number,
                     home |-> IF k.rejecting THEN k.home ELSE 0 ])
        /\ client' = [client EXCEPT ![c] =
               [k EXCEPT !.phase = "commanding", !.request = requests + 1,
                         !.command = [id |-> id, name |-> name],
                         !.accepted = FALSE, !.outcome = "none"]]
  BY Zenon DEF SendCommand
<1> DEFINE h == IF k.rejecting THEN k.home ELSE 0
           q == [ type |-> "command_request", request |-> requests + 1,
                  id |-> id, name |-> name, prior |-> k.snap.id,
                  number |-> k.snap.number, home |-> h ]
           n == [k EXCEPT !.phase = "commanding", !.request = requests + 1,
                          !.command = [id |-> id, name |-> name],
                          !.accepted = FALSE, !.outcome = "none"]
<1>3. h \in Nat
  BY <1>1 DEF ClientType
<1>4. k.snap.id \in Ident /\ k.snap.number \in Nat
  BY <1>1 DEF SnapType
<1>5. Request(q)
  BY <1>2
<1>6. client' = [client EXCEPT ![c] = n]
  BY <1>2
<1>7. q \in CommandType
  <2> HIDE DEF h, k
  <2> QED
    BY <1>0, <1>3, <1>4 DEF CommandType
<1>8. CommandOf(c, q, n)
  <2>1. /\ q.request = requests + 1 /\ q.id = id /\ q.name = name /\ q.prior = k.snap.id
        /\ q.number = k.snap.number /\ q.home = h
    OBVIOUS
  <2> HIDE DEF q
  <2> QED
    BY <1>0, <1>1, <1>7, <2>1 DEF CommandOf
<1>9. q.request = requests + 1
  OBVIOUS
<1> HIDE DEF n, q
<1>10. ClientOK(n)
  BY <1>8, CommandTyped
<1>11. DOMAIN client' = Clients /\ client'[c] = n
       /\ \A d \in Clients : d # c => client'[d] = client[d]
  BY <1>0, <1>6
<1>12. link' = link
  BY DEF SendCommand
<1>13. Asked(c, q)
  BY <1>0, <1>5, <1>7, <1>9, <1>10, <1>11, <1>12 DEF Asked, OthersStay, Request, RequestType
<1> QED
  BY <1>0, <1>7, <1>8, <1>11, <1>13 DEF SendCommand

(* Client c takes its first message and is then n. *)
Receives(c, n) ==
    /\ OthersStay(c) /\ Pops(link[c], link'[c])
    /\ client'[c] = n /\ ClientOK(n)
    /\ Incoming(c) \in MessageType /\ BodyOK(Incoming(c).body)
    /\ Incoming(c) = link[c].queue[1] /\ link[c].queue # <<>>
    /\ client[c].phase # "idle" /\ link[c].up
    /\ UNCHANGED <<game, saved, captures, log>>

LEMMA NowReceives ==
    ASSUME TypeInv, NEW c \in Clients, Receiving(c), NEW n, Now(c, n), ClientOK(n)
    PROVE  Receives(c, n)
<1>1. DOMAIN client = Clients /\ link[c].up /\ client[c].phase # "idle"
  BY DEF TypeInv, Receiving
<1>2. client' = [client EXCEPT ![c] = n] /\ link' = [link EXCEPT ![c].queue = Tail(@)]
      /\ link[c].queue # <<>>
  BY DEF Now, Receiving
<1>3. DOMAIN client' = Clients /\ client'[c] = n
      /\ \A d \in Clients : d # c => client'[d] = client[d]
  BY <1>1, <1>2
<1>4. /\ DOMAIN link' = Clients /\ Pops(link[c], link'[c])
      /\ \A d \in Clients : d # c => link'[d] = link[d]
      /\ Incoming(c) = link[c].queue[1] /\ Incoming(c) \in MessageType
      /\ BodyOK(Incoming(c).body)
  BY <1>2, NowPops
<1> QED
  BY <1>1, <1>2, <1>3, <1>4 DEF Receives, OthersStay, Now

LEMMA ReceivesTypes ==
    ASSUME TypeInv, NEW c \in Clients, NEW n, Receives(c, n),
           UNCHANGED <<inbox, requests, spent>>
    PROVE  TypeInv'
  BY DEF TypeInv, Receives, OthersStay, Pops

(* The message a client may receive is there and typed. *)
LEMMA IncomingTyped ==
    ASSUME TypeInv, NEW c \in Clients, Receiving(c)
    PROVE  /\ Incoming(c) \in MessageType /\ BodyOK(Incoming(c).body)
           /\ ClientOK(client[c]) /\ ClientOK(Receiver(c))
           /\ CoreSame(client[c], Receiver(c))
           /\ Receiver(c).inst = Incoming(c).inst /\ Receiver(c).got = client[c].got
           /\ Receiver(c).snap = client[c].snap /\ Receiver(c).world = client[c].world
           /\ Receiver(c).manifest = client[c].manifest /\ Receiver(c).pages = client[c].pages
<1>1. ClientOK(client[c]) /\ LinkOK(link[c]) /\ link[c].queue # <<>>
  BY DEF TypeInv, Receiving
<1>2. link[c].queue \in Seq(MessageType)
  BY <1>1 DEF LinkOK
<1>3. Incoming(c) = link[c].queue[1] /\ 1 \in DOMAIN link[c].queue
      /\ link[c].queue[1] \in MessageType
  BY <1>1, <1>2 DEF Incoming
<1>4. Incoming(c) \in MessageType /\ BodyOK(Incoming(c).body)
  BY <1>1, <1>3 DEF LinkOK
<1> QED
  BY <1>1, <1>4, ReceivedTyped DEF Receiver

LEMMA RefusedReceives ==
    ASSUME TypeInv, NEW c \in Clients, ReceiveRefused(c)
    PROVE  Receives(c, Raised(client[c])) /\ UNCHANGED <<inbox, requests, spent>>
<1>1. Receiving(c) /\ client[c].phase # "idle" /\ Now(c, Raised(client[c]))
  BY DEF ReceiveRefused, Receiving
<1>2. ClientOK(Raised(client[c]))
  BY <1>1, IncomingTyped, RaisedTyped
<1> QED
  BY <1>1, <1>2, NowReceives DEF ReceiveRefused

(* The three ends a message of a synchronization can have. *)
Misplaces(c, b) == Misplaced(Receiver(c), b) /\ Receives(c, Raised(Receiver(c)))

Completes(c, b) ==
    LET n == Negotiated(Receiver(c), b)
    IN  ~Misplaced(Receiver(c), b) /\ Finished(n) /\ Receives(c, Returned(n))

Proceeds(c, b) ==
    LET n == Negotiated(Receiver(c), b)
    IN  ~Misplaced(Receiver(c), b) /\ ~Finished(n) /\ Receives(c, n)

LEMMA NegotiateReceives ==
    ASSUME TypeInv, NEW c \in Clients, Negotiate(c)
    PROVE  /\ Misplaces(c, Incoming(c).body) \/ Completes(c, Incoming(c).body)
                                             \/ Proceeds(c, Incoming(c).body)
           /\ Receiving(c) /\ Baseline(client[c]) /\ ~Refused(client[c], Incoming(c))
           /\ UNCHANGED <<inbox, requests, spent>>
<1> DEFINE k == Receiver(c)  b == Incoming(c).body  n == Negotiated(k, b)
<1>1. /\ Receiving(c) /\ Baseline(client[c]) /\ ~Refused(client[c], Incoming(c))
      /\ Now(c, IF Misplaced(k, b) THEN Raised(k) ELSE IF Finished(n) THEN Returned(n) ELSE n)
      /\ UNCHANGED <<inbox, requests, spent>>
  BY DEF Negotiate
<1>2. ClientOK(k) /\ CoreSame(client[c], k) /\ BodyOK(b)
  BY <1>1, IncomingTyped
<1>3. ClientOK(n) /\ CoreSame(k, n)
  BY <1>2, NegotiatedTyped
<1>4. k.phase = client[c].phase /\ n.phase = client[c].phase
  BY <1>2, <1>3 DEF CoreSame
<1>5. Baseline(k) /\ Baseline(n) /\ k.phase # "idle"
  BY <1>1, <1>4 DEF Baseline
<1> HIDE DEF k, b, n
<1>6. CASE Misplaced(k, b)
  <2>1. Now(c, Raised(k))
    BY <1>1, <1>6
  <2>2. Receives(c, Raised(k))
    BY <1>1, <1>2, <1>5, <2>1, RaisedTyped, NowReceives
  <2> QED
    BY <1>1, <1>6, <2>2 DEF Misplaces, k, b, n
<1>7. CASE ~Misplaced(k, b) /\ Finished(n)
  <2>1. Now(c, Returned(n))
    BY <1>1, <1>7
  <2>2. Receives(c, Returned(n))
    BY <1>1, <1>3, <1>5, <1>7, <2>1, ReturnedTyped, NowReceives
  <2> QED
    BY <1>1, <1>7, <2>2 DEF Completes, k, b, n
<1>8. CASE ~Misplaced(k, b) /\ ~Finished(n)
  <2>1. Now(c, n)
    BY <1>1, <1>8
  <2>2. Receives(c, n)
    BY <1>1, <1>3, <2>1, NowReceives
  <2> QED
    BY <1>1, <1>8, <2>2 DEF Proceeds, k, b, n
<1> QED
  BY <1>6, <1>7, <1>8

LEMMA UnsolicitedReceives ==
    ASSUME TypeInv, NEW c \in Clients, ConsumeUnsolicited(c)
    PROVE  LET k == Receiver(c)
               b == Incoming(c).body
           IN  /\ \/ UnsolicitedRefused(k, b) /\ Receives(c, Raised(k))
                  \/ ~UnsolicitedRefused(k, b) /\ Receives(c, Consumed(k, b))
               /\ Unsolicited(k, b)
               /\ Receiving(c) /\ client[c].phase = "commanding"
               /\ ~Refused(client[c], Incoming(c))
               /\ UNCHANGED <<inbox, requests, spent>>
<1> DEFINE k == Receiver(c)  b == Incoming(c).body
<1>1. /\ Receiving(c) /\ client[c].phase = "commanding" /\ ~Refused(client[c], Incoming(c))
      /\ Unsolicited(k, b)
      /\ Now(c, IF UnsolicitedRefused(k, b) THEN Raised(k) ELSE Consumed(k, b))
      /\ UNCHANGED <<inbox, requests, spent>>
  BY DEF ConsumeUnsolicited, AwaitingAnswer
<1>2. ClientOK(k) /\ CoreSame(client[c], k) /\ BodyOK(b)
  BY <1>1, IncomingTyped
<1>3. k.phase # "idle"
  BY <1>1, <1>2 DEF CoreSame
<1> HIDE DEF k, b
<1>4. UnsolicitedRefused(k, b) => Receives(c, Raised(k))
  BY <1>1, <1>2, <1>3, RaisedTyped, NowReceives
<1>5. ~UnsolicitedRefused(k, b) => Receives(c, Consumed(k, b))
  BY <1>1, <1>2, ConsumedTyped, NowReceives
<1> QED
  BY <1>1, <1>4, <1>5 DEF k, b

(* The three answers a command can get. *)
Accepts(c) ==
    /\ Receives(c, [Receiver(c) EXCEPT !.accepted = TRUE])
    /\ UNCHANGED <<inbox, requests>>

Declines(c) ==
    /\ Receives(c, [Receiver(c) EXCEPT !.phase = "idle", !.outcome = "refused"])
    /\ UNCHANGED <<inbox, requests>>

Verifies(c) ==
    /\ Incoming(c).body.type = "command_completed"
    /\ Receives(c, Requesting(Receiver(c), "verifying", requests + 1, captures))
    /\ requests' = requests + 1 /\ inbox' = Append(inbox, ResyncRequestOf(requests + 1))

LEMMA AnswerReceives ==
    ASSUME TypeInv, NEW c \in Clients, ReceiveAnswer(c)
    PROVE  /\ Accepts(c) \/ Declines(c) \/ Verifies(c)
           /\ Receiving(c) /\ client[c].phase = "commanding"
           /\ ~Refused(client[c], Incoming(c)) /\ ~Unsolicited(Receiver(c), Incoming(c).body)
           /\ UNCHANGED spent
<1> DEFINE k == Receiver(c)
<1>0. /\ Receiving(c) /\ client[c].phase = "commanding" /\ ~Refused(client[c], Incoming(c))
      /\ ~Unsolicited(k, Incoming(c).body) /\ UNCHANGED spent
      /\ requests \in Nat /\ captures \in Nat
  BY DEF ReceiveAnswer, AwaitingAnswer, TypeInv
<1>1. ClientOK(k) /\ k.phase = "commanding"
  BY <1>0, IncomingTyped DEF CoreSame
<1>2. \/ Now(c, [k EXCEPT !.accepted = TRUE]) /\ UNCHANGED <<inbox, requests>>
      \/ Now(c, [k EXCEPT !.phase = "idle", !.outcome = "refused"])
           /\ UNCHANGED <<inbox, requests>>
      \/ /\ Incoming(c).body.type = "command_completed"
         /\ Request(ResyncRequest)
         /\ Now(c, Requesting(k, "verifying", requests + 1, captures))
  BY Zenon DEF ReceiveAnswer
<1> HIDE DEF k
<1>3. ClientOK([k EXCEPT !.accepted = TRUE])
  BY <1>1 DEF ClientOK, ClientType, Has
<1>4. ClientOK([k EXCEPT !.phase = "idle", !.outcome = "refused"])
  BY <1>1 DEF ClientOK, ClientType, Has, Phases
<1>5. ClientOK(Requesting(k, "verifying", requests + 1, captures))
  <2>1. requests + 1 \in Nat /\ "verifying" \in {"syncing", "probing", "verifying"}
    BY <1>0
  <2> QED
    BY <1>0, <1>1, <2>1, RequestingTyped, Zenon
<1>6. CASE Now(c, [k EXCEPT !.accepted = TRUE]) /\ UNCHANGED <<inbox, requests>>
  BY <1>0, <1>3, <1>6, NowReceives DEF Accepts, k
<1>7. CASE Now(c, [k EXCEPT !.phase = "idle", !.outcome = "refused"])
             /\ UNCHANGED <<inbox, requests>>
  BY <1>0, <1>4, <1>7, NowReceives DEF Declines, k
<1>8. CASE /\ Incoming(c).body.type = "command_completed"
           /\ Request(ResyncRequest)
           /\ Now(c, Requesting(k, "verifying", requests + 1, captures))
  BY <1>0, <1>5, <1>8, NowReceives
     DEF Verifies, Request, ResyncRequest, ResyncRequestOf, k
<1> QED
  BY <1>0, <1>2, <1>6, <1>7, <1>8 DEF k

(* A method that stops, and a process that ends: the client is then at rest. *)
Stopped(k, n) ==
    /\ ViewSame(k, n) /\ n.home = k.home
    /\ n.state \in {k.state, "failed", "disconnected"}
    /\ n.state = "synchronized" => ~Baseline(k)
    /\ n.outcome = "success" => k.outcome = "success" /\ k.phase = "idle"

Renewed(k, n) ==
    /\ n.state = "disconnected" /\ n.got = {} /\ n.outcome = "none"
    /\ n.request = 0 /\ n.since = 0 /\ n.manifest = None
    /\ n.rejecting => k.home # 0 /\ n.home = k.home /\ n.inst = n.home

Rests(c, n) ==
    /\ OthersStay(c) /\ client'[c] = n
    /\ ClientOK(n) /\ n.phase = "idle" /\ LinkOK(link'[c])
    /\ link'[c].queue \in {<<>>, link[c].queue}
    /\ Stopped(client[c], n) \/ Renewed(client[c], n)
    /\ UNCHANGED <<game, saved, inbox, requests, captures, log>>

LEMMA RestsTypes ==
    ASSUME TypeInv, NEW c \in Clients, NEW n, Rests(c, n), spent' \in [Kinds -> Nat]
    PROVE  TypeInv'
  BY DEF TypeInv, Rests, OthersStay

LEMMA ChangesOf ==
    ASSUME TypeInv, NEW c \in Clients, NEW n, client' = [client EXCEPT ![c] = n]
    PROVE  /\ DOMAIN client' = Clients /\ client'[c] = n
           /\ \A d \in Clients : d # c => client'[d] = client[d]
  BY DEF TypeInv

LEMMA QueueDropped ==
    ASSUME TypeInv, NEW c \in Clients,
           \/ link' = link
           \/ link' = [link EXCEPT ![c].queue = <<>>]
           \/ Disconnected(c)
    PROVE  /\ DOMAIN link' = Clients /\ LinkOK(link'[c])
           /\ \A d \in Clients : d # c => link'[d] = link[d]
           /\ link'[c].queue \in {<<>>, link[c].queue}
<1>1. DOMAIN link = Clients /\ LinkOK(link[c])
  BY DEF TypeInv
<1>2. CASE link' = link
  BY <1>1, <1>2
<1>3. CASE link' = [link EXCEPT ![c].queue = <<>>]
  <2>1. link'[c] = [link[c] EXCEPT !.queue = <<>>]
    BY <1>1, <1>3
  <2>2. <<>> \in Seq(MessageType) /\ link[c] \in [up : BOOLEAN, queue : Seq(MessageType)]
    BY <1>1 DEF LinkOK
  <2>3. link'[c].queue = <<>> /\ link'[c] \in [up : BOOLEAN, queue : Seq(MessageType)]
    BY <2>1, <2>2
  <2> QED
    BY <1>1, <1>3, <2>3 DEF LinkOK
<1>4. CASE Disconnected(c)
  <2> DEFINE l == [up |-> FALSE, queue |-> <<>>]
  <2>1. LinkOK(l) /\ l.queue = <<>>
    BY DEF LinkOK
  <2>2. link' = [link EXCEPT ![c] = l]
    BY <1>4 DEF Disconnected
  <2> HIDE DEF l
  <2> QED
    BY <1>1, <2>1, <2>2
<1> QED
  BY <1>2, <1>3, <1>4

LEMMA BecomesRests ==
    ASSUME TypeInv, NEW c \in Clients, NEW n, ClientOK(n), n.phase = "idle",
           Stopped(client[c], n) \/ Renewed(client[c], n),
           client' = [client EXCEPT ![c] = n],
           \/ link' = link
           \/ link' = [link EXCEPT ![c].queue = <<>>]
           \/ Disconnected(c),
           UNCHANGED <<game, saved, inbox, requests, captures, log>>
    PROVE  Rests(c, n)
<1>1. /\ DOMAIN client' = Clients /\ client'[c] = n
      /\ \A d \in Clients : d # c => client'[d] = client[d]
  BY ChangesOf
<1>2. /\ DOMAIN link' = Clients /\ LinkOK(link'[c])
      /\ \A d \in Clients : d # c => link'[d] = link[d]
      /\ link'[c].queue \in {<<>>, link[c].queue}
  BY QueueDropped
<1> QED
  BY <1>1, <1>2 DEF Rests, OthersStay

LEMMA TimeoutRests ==
    ASSUME TypeInv, NEW c \in Clients, Timeout(c)
    PROVE  Rests(c, Raised(client[c])) /\ spent' \in [Kinds -> Nat]
<1>1. /\ client' = [client EXCEPT ![c] = Raised(client[c])] /\ link' = link
      /\ client[c].phase # "idle" /\ ClientOK(client[c]) /\ spent \in [Kinds -> Nat]
  BY DEF Timeout, TypeInv
<1>2. spent' \in [Kinds -> Nat]
  <2>1. CASE UNCHANGED spent
    BY <1>1, <2>1
  <2>2. CASE Spend("timeout")
    BY <2>2, SpendTyped DEF Kinds
  <2> QED
    BY <2>1, <2>2 DEF Timeout
<1> DEFINE n == Raised(client[c])
<1>3. /\ ClientOK(n) /\ ViewSame(client[c], n) /\ n.phase = "idle"
      /\ n.state = IF Baseline(client[c]) THEN "failed" ELSE client[c].state
      /\ n.home = client[c].home /\ n.outcome # "success"
  BY <1>1, RaisedTyped
<1>4. client' = [client EXCEPT ![c] = n]
  BY <1>1
<1> HIDE DEF n
<1>5. Stopped(client[c], n)
  BY <1>3 DEF Stopped
<1>6. OthersStay(c) /\ client'[c] = n /\ LinkOK(link'[c])
      /\ link'[c].queue \in {<<>>, link[c].queue}
  BY <1>1, <1>4, ChangesOf, QueueDropped DEF OthersStay
<1> QED
  BY <1>2, <1>3, <1>5, <1>6 DEF Rests, Timeout, n

LEMMA CollectStateRests ==
    ASSUME TypeInv, NEW c \in Clients, CollectState(c)
    PROVE  Rests(c, client[c]) /\ spent' \in [Kinds -> Nat]
<1>1. /\ client' = client /\ link' = [link EXCEPT ![c].queue = <<>>]
      /\ client[c].phase = "idle" /\ ClientOK(client[c]) /\ DOMAIN client = Clients
      /\ spent' \in [Kinds -> Nat]
  BY DEF CollectState, TypeInv
<1>2. Stopped(client[c], client[c])
  BY <1>1 DEF Stopped, ViewSame, Baseline
<1> QED
  BY <1>1, <1>2, QueueDropped DEF Rests, OthersStay, CollectState

LEMMA CloseRests ==
    ASSUME TypeInv, NEW c \in Clients, Close(c)
    PROVE  /\ Rests(c, [client[c] EXCEPT !.state = "disconnected"])
           /\ spent' \in [Kinds -> Nat]
<1> DEFINE k == client[c]  n == [client[c] EXCEPT !.state = "disconnected"]
<1>1. /\ client' = [client EXCEPT ![c] = n] /\ Disconnected(c)
      /\ k.phase = "idle" /\ ClientOK(k) /\ spent' \in [Kinds -> Nat]
  BY DEF Close, TypeInv
<1>2. ClientOK(n) /\ n.phase = "idle" /\ Stopped(k, n)
  BY <1>1 DEF ClientOK, ClientType, Has, Stopped, ViewSame, Baseline
<1> HIDE DEF n
<1> QED
  BY <1>1, <1>2, ChangesOf, QueueDropped DEF Rests, OthersStay, Close, n

LEMMA NewProcessRests ==
    ASSUME TypeInv, NEW c \in Clients, NewProcess(c)
    PROVE  /\ Rests(c, NewClient) \/ Rests(c, Resumed(client[c]))
           /\ spent' \in [Kinds -> Nat]
<1>1. /\ \/ client' = [client EXCEPT ![c] = NewClient]
         \/ client[c].home # 0 /\ client' = [client EXCEPT ![c] = Resumed(client[c])]
      /\ Disconnected(c) /\ ClientOK(client[c])
      /\ UNCHANGED <<game, saved, inbox, requests, captures, log>>
  BY DEF NewProcess, TypeInv
<1>2. spent' \in [Kinds -> Nat]
  BY SpendTyped DEF NewProcess, Kinds
<1>3. CASE client' = [client EXCEPT ![c] = NewClient]
  <2>1. Renewed(client[c], NewClient)
    BY NewClientTyped DEF Renewed
  <2>2. Rests(c, NewClient)
    BY <1>1, <1>3, <2>1, BecomesRests, NewClientTyped
  <2> QED
    BY <1>2, <2>2
<1>4. CASE client[c].home # 0 /\ client' = [client EXCEPT ![c] = Resumed(client[c])]
  <2> DEFINE n == Resumed(client[c])
  <2>1. /\ ClientOK(n) /\ n.phase = "idle" /\ n.state = "disconnected" /\ n.got = {}
        /\ n.inst = client[c].home /\ n.home = client[c].home /\ n.outcome = "none"
        /\ n.request = 0 /\ n.since = 0 /\ n.manifest = None
    BY <1>1, ResumedTyped
  <2>2. client' = [client EXCEPT ![c] = n]
    BY <1>4
  <2> HIDE DEF n
  <2>3. Renewed(client[c], n)
    BY <1>4, <2>1 DEF Renewed
  <2>4. Rests(c, n)
    BY <1>1, <2>1, <2>2, <2>3, BecomesRests
  <2> QED
    BY <1>2, <2>4 DEF n
<1> QED
  BY <1>1, <1>2, <1>3, <1>4

(* A client that is not modelled asks. *)
LEMMA OthersRequestTyped ==
    ASSUME TypeInv, OthersRequest
    PROVE  /\ \E q \in RequestType :
                /\ q.request = requests + 1 /\ inbox' = Append(inbox, q)
                /\ \/ q = ResyncRequestOf(requests + 1)
                   \/ /\ q \in CommandType /\ q.prior = game.lastSnap
                      /\ q.number = game.number /\ q.home = 0
           /\ requests' = requests + 1 /\ spent' \in [Kinds -> Nat]
           /\ UNCHANGED <<game, saved, link, client, captures, log>>
<1>0. requests \in Nat /\ game \in GameType
  BY DEF TypeInv
<1>1. spent' \in [Kinds -> Nat]
  BY SpendTyped DEF OthersRequest, Kinds
<1>2. CASE Request(ResyncRequest)
  <2>1. ResyncRequestOf(requests + 1) \in RequestType
        /\ ResyncRequestOf(requests + 1).request = requests + 1
    BY <1>0 DEF ResyncRequestOf, RequestType
  <2> QED
    BY <1>1, <1>2, <2>1 DEF OthersRequest, Request, ResyncRequest, ResyncRequestOf
<1>3. CASE \E id \in CommandIds, name \in Names \ {game.name} :
             Request([ type |-> "command_request", request |-> requests + 1,
                       id |-> id, name |-> name, prior |-> game.lastSnap,
                       number |-> game.number, home |-> 0 ])
  <2>1. PICK id \in CommandIds, name \in Names \ {game.name} :
          Request([ type |-> "command_request", request |-> requests + 1,
                    id |-> id, name |-> name, prior |-> game.lastSnap,
                    number |-> game.number, home |-> 0 ])
    BY <1>3
  <2> DEFINE q == [ type |-> "command_request", request |-> requests + 1,
                    id |-> id, name |-> name, prior |-> game.lastSnap,
                    number |-> game.number, home |-> 0 ]
  <2>2. q \in CommandType
    BY <1>0 DEF CommandType, GameType
  <2>3. q.request = requests + 1 /\ q.prior = game.lastSnap /\ q.number = game.number
        /\ q.home = 0
    OBVIOUS
  <2>4. requests' = requests + 1 /\ inbox' = Append(inbox, q)
    BY <2>1 DEF Request
  <2> HIDE DEF q
  <2>5. q \in RequestType
    BY <2>2 DEF RequestType
  <2> QED
    BY <1>1, <2>2, <2>3, <2>4, <2>5 DEF OthersRequest
<1> QED
  BY <1>2, <1>3 DEF OthersRequest

(* The steps of one client. *)
Answers(c) == Accepts(c) \/ Declines(c) \/ Verifies(c)

LEMMA AnswerTypes ==
    ASSUME TypeInv, NEW c \in Clients, Answers(c), UNCHANGED spent
    PROVE  TypeInv'
<1>0. requests \in Nat /\ inbox \in Seq(RequestType)
  BY DEF TypeInv
<1>1. CASE Accepts(c) \/ Declines(c)
  BY <1>1, ReceivesTypes DEF Accepts, Declines
<1>2. CASE Verifies(c)
  <2>1. requests' \in Nat /\ ResyncRequestOf(requests + 1) \in RequestType
    BY <1>0, <1>2 DEF Verifies, ResyncRequestOf, RequestType
  <2>2. inbox' \in Seq(RequestType)
    BY <1>0, <1>2, <2>1 DEF Verifies
  <2>3. PICK n : Receives(c, n)
    BY <1>2 DEF Verifies
  <2> QED
    BY <2>1, <2>2, <2>3 DEF TypeInv, Receives, OthersStay, Pops
<1> QED
  BY <1>1, <1>2 DEF Answers

(***************************************************************************)
(* The steps of a client and of the others, in the terms of the lemmas.    *)
(***************************************************************************)
Starts(c) ==
    /\ \E phase \in {"syncing", "probing"} : Begin(c, phase)
    /\ spent' \in [Kinds -> Nat]

OneClient(c) ==
    \/ Starts(c)
    \/ SendCommand(c) \/ ReceiveRefused(c) \/ Negotiate(c) \/ ConsumeUnsolicited(c)
    \/ ReceiveAnswer(c)
    \/ \E n : Rests(c, n) /\ spent' \in [Kinds -> Nat]

LEMMA StepCases ==
    ASSUME TypeInv, Next
    PROVE  \/ ScriptStep \/ GameStep \/ OthersRequest
           \/ \E c \in Clients : OneClient(c)
<1> SUFFICES ASSUME NEW c \in Clients,
                    \/ Synchronize(c) \/ VerifyIdentity(c) \/ SendCommand(c)
                    \/ ClientStep(c) \/ CollectState(c) \/ Close(c) \/ NewProcess(c)
             PROVE  OneClient(c)
  BY DEF Next
<1>1. CASE Synchronize(c)
  <2>1. spent' \in [Kinds -> Nat]
    BY <1>1, SpendTyped DEF Synchronize, Kinds
  <2> QED
    BY <1>1, <2>1 DEF Synchronize, OneClient, Starts
<1>2. CASE VerifyIdentity(c)
  <2>1. spent' \in [Kinds -> Nat]
    BY <1>2, SpendTyped DEF VerifyIdentity, Kinds
  <2> QED
    BY <1>2, <2>1 DEF VerifyIdentity, OneClient, Starts
<1>3. CASE Timeout(c)
  BY <1>3, TimeoutRests DEF OneClient
<1>4. CASE CollectState(c)
  BY <1>4, CollectStateRests DEF OneClient
<1>5. CASE Close(c)
  BY <1>5, CloseRests DEF OneClient
<1>6. CASE NewProcess(c)
  BY <1>6, NewProcessRests DEF OneClient
<1> QED
  BY <1>1, <1>2, <1>3, <1>4, <1>5, <1>6 DEF ClientStep, OneClient

LEMMA ClientTypes ==
    ASSUME TypeInv, NEW c \in Clients, OneClient(c)
    PROVE  TypeInv'
<1>1. CASE Starts(c)
  <2>1. PICK phase \in {"syncing", "probing"} : Begin(c, phase)
    BY <1>1 DEF Starts
  <2> QED
    BY <1>1, <2>1, BeginAsks, AskedTypes DEF Starts
<1>2. CASE SendCommand(c)
  <2>1. PICK q \in CommandType : Asked(c, q)
    BY <1>2, SendCommandAsks
  <2>2. spent' \in [Kinds -> Nat]
    BY <1>2, SpendTyped DEF SendCommand, Kinds
  <2> QED
    BY <1>2, <2>1, <2>2, SendCommandAsks, AskedTypes
<1>3. CASE ReceiveRefused(c)
  BY <1>3, RefusedReceives, ReceivesTypes
<1>4. CASE Negotiate(c)
  BY <1>4, NegotiateReceives, ReceivesTypes DEF Misplaces, Completes, Proceeds
<1>5. CASE ConsumeUnsolicited(c)
  BY <1>5, UnsolicitedReceives, ReceivesTypes
<1>6. CASE ReceiveAnswer(c)
  BY <1>6, AnswerReceives, AnswerTypes DEF Answers
<1>7. CASE \E n : Rests(c, n) /\ spent' \in [Kinds -> Nat]
  BY <1>7, RestsTypes
<1> QED
  BY <1>1, <1>2, <1>3, <1>4, <1>5, <1>6, <1>7 DEF OneClient

LEMMA OthersTypes ==
    ASSUME TypeInv, OthersRequest
    PROVE  TypeInv'
<1>1. PICK q \in RequestType : inbox' = Append(inbox, q)
  BY OthersRequestTyped
<1>2. inbox' \in Seq(RequestType) /\ requests' \in Nat
  BY <1>1, OthersRequestTyped DEF TypeInv
<1> QED
  BY <1>2, OthersRequestTyped DEF TypeInv

LEMMA InitTypes == Init => TypeInv
<1> SUFFICES ASSUME Init
             PROVE  TypeInv
  OBVIOUS
<1>1. game \in GameType
  BY NewGameTyped, GreetingTyped, SentTyped DEF Init
<1>2. \A c \in Clients : LinkOK(link[c]) /\ ClientOK(client[c]) /\ client[c].phase = "idle"
  BY NewClientTyped DEF Init, LinkOK
<1> QED
  BY <1>1, <1>2 DEF Init, TypeInv

LEMMA NextTypes ==
    ASSUME TypeInv, [Next]_vars
    PROVE  TypeInv'
<1>1. CASE Next
  BY <1>1, StepCases, ScriptTypes, GameTypes, OthersTypes, ClientTypes
<1>2. CASE UNCHANGED vars
  BY <1>2 DEF vars, TypeInv
<1> QED
  BY <1>1, <1>2

(* Every part of the bridge keeps its type: what is sent can be read, and  *)
(* a client that is in a method has a connection to receive on.            *)
THEOREM BridgeTypes == Spec => []TypeInv
  BY InitTypes, NextTypes, PTL DEF Spec

--------------------------------------------------------------------------------
(***************************************************************************)
(* What each step of the script sends, and the script after it.            *)
(***************************************************************************)
GameSame(g, h) ==
    /\ h.inst = g.inst /\ h.lastSnap = g.lastSnap /\ h.ledger = g.ledger
    /\ h.doing = g.doing /\ h.name = g.name /\ h.number = g.number
    /\ h.completed = g.completed

Broadcasts(bodies, after) ==
    /\ Bodies(bodies) /\ after \in GameType
    /\ game' \in GameType /\ GameSame(after, game') /\ game'.seq = after.seq + Len(bodies)
    /\ DOMAIN link' = Clients
    /\ \A c \in Clients : Hears(link[c], link'[c], bodies, game)

LEMMA SendBroadcasts ==
    ASSUME TypeInv, NEW bodies, Bodies(bodies), NEW after \in GameType, Send(bodies, after)
    PROVE  Broadcasts(bodies, after)
  BY SendHeard, SentTyped DEF Broadcasts, GameSame

LEMMA HeartbeatSends ==
    ASSUME TypeInv, Heartbeat
    PROVE  /\ Broadcasts(<<Body("heartbeat", 0)>>, game) /\ game.doing = None
           /\ spent'["new_game"] = spent["new_game"]
<1>1. BodyOK(Body("heartbeat", 0)) /\ game \in GameType
  BY BodyTyped DEF MessageTypes, Telling, WorldTypes, PartTypes, TypeInv
<1>2. Bodies(<<Body("heartbeat", 0)>>)
  BY <1>1, OneBody
<1>3. spent'["new_game"] = spent["new_game"]
  BY SpendTyped DEF Heartbeat, Kinds
<1> QED
  BY <1>1, <1>2, <1>3, SendBroadcasts DEF Heartbeat, Awake

LEMMA ResyncSends ==
    ASSUME TypeInv, HandleResync
    PROVE  LET q == inbox[1]
           IN  /\ Broadcasts(Handshake(game, q.request, captures + 1),
                             AfterHandshake(game, captures + 1))
               /\ q.request \in Nat /\ q = Head(inbox) /\ 1 \in DOMAIN inbox
               /\ inbox' = Tail(inbox) /\ inbox # <<>>
               /\ captures' = captures + 1 /\ game.doing = None
<1>1. /\ Head(inbox).request \in Nat /\ Head(inbox) = inbox[1] /\ 1 \in DOMAIN inbox
      /\ inbox' = Tail(inbox) /\ inbox # <<>> /\ game.doing = None
  BY HeadOfInbox DEF HandleResync, Takes, Awake
<1>2. game \in GameType /\ captures + 1 \in Nat
  BY DEF TypeInv
<1>3. Bodies(Handshake(game, Head(inbox).request, captures + 1))
  BY <1>1, <1>2, HandshakeTyped
<1>4. AfterHandshake(game, captures + 1) \in GameType
  BY <1>2, AfterHandshakeTyped
<1>5. Send(Handshake(game, Head(inbox).request, captures + 1),
           AfterHandshake(game, captures + 1))
  BY DEF HandleResync
<1>6. Broadcasts(Handshake(game, Head(inbox).request, captures + 1),
                 AfterHandshake(game, captures + 1))
  BY <1>3, <1>4, <1>5, SendBroadcasts
<1> QED
  BY <1>1, <1>6 DEF HandleResync

LEMMA WorldSends ==
    ASSUME TypeInv, SendWorld
    PROVE  /\ Broadcasts(<<WorldMessage(game.doing)>>, AfterWorldMessage(game))
           /\ SendingWorld(game)
           /\ game.doing \in [handler : {"world"}, next : Nat, number : Nat, ref : Ident]
<1>1. game \in GameType /\ SendingWorld(game)
  BY DEF TypeInv, SendWorld
<1>2. /\ game.doing \in [handler : {"world"}, next : Nat, number : Nat, ref : Ident]
      /\ BodyOK(WorldMessage(game.doing)) /\ AfterWorldMessage(game) \in GameType
  BY <1>1, DoingTyped, WorldTyped, AfterWorldTyped
<1>3. Bodies(<<WorldMessage(game.doing)>>)
  BY <1>2, OneBody
<1> QED
  BY <1>1, <1>2, <1>3, SendBroadcasts DEF SendWorld

LEMMA CommandSends ==
    ASSUME TypeInv, HandleCommand
    PROVE  LET q == inbox[1]
           IN  /\ q \in CommandType /\ 1 \in DOMAIN inbox /\ inbox' = Tail(inbox)
               /\ \/ Broadcasts(<<Reject(q)>>, game)
                  \/ /\ Broadcasts(<<Accept(q), Complete(q)>>, game)
                     /\ \E i \in DOMAIN game.ledger :
                           game.ledger[i][1] = q.id /\ game.ledger[i][2] = q.name
               /\ game.doing = None /\ inbox # <<>>
<1> DEFINE q == Head(inbox)
<1>1. /\ q \in CommandType /\ q = inbox[1] /\ 1 \in DOMAIN inbox /\ inbox' = Tail(inbox)
      /\ game.doing = None /\ game \in GameType /\ inbox # <<>>
  BY HeadOfInbox DEF HandleCommand, Takes, Awake, TypeInv
<1>2. Bodies(<<Reject(q)>>) /\ Bodies(<<Accept(q), Complete(q)>>)
  BY <1>1, AnswerTyped, OneBody, TwoBodies
<1>3. Send(Replay(game, q), game) \/ Send(<<Reject(q)>>, game)
  BY DEF HandleCommand
<1>4. \/ Send(<<Reject(q)>>, game)
      \/ /\ Send(<<Accept(q), Complete(q)>>, game)
         /\ \E i \in DOMAIN game.ledger :
               game.ledger[i][1] = q.id /\ game.ledger[i][2] = q.name
  BY <1>3 DEF Replay, FindLedger
<1> HIDE DEF q
<1>5. \/ Broadcasts(<<Reject(q)>>, game)
      \/ /\ Broadcasts(<<Accept(q), Complete(q)>>, game)
         /\ \E i \in DOMAIN game.ledger :
               game.ledger[i][1] = q.id /\ game.ledger[i][2] = q.name
  BY <1>1, <1>2, <1>4, SendBroadcasts
<1> QED
  BY <1>1, <1>5

EntryOf(q) ==
    [ id |-> q.id, name |-> q.name, at |-> captures, inst |-> game.inst,
      decided |-> q.number, newest |-> game.number, home |-> q.home ]

LEMMA ExecuteSends ==
    ASSUME TypeInv, ExecuteSetCompanyName
    PROVE  LET q == inbox[1]
           IN  /\ q \in CommandType /\ 1 \in DOMAIN inbox /\ inbox' = Tail(inbox)
               /\ FindLedger(game, q.id) = {} /\ q.prior = game.lastSnap
               /\ \/ /\ Broadcasts(<<Accept(q)>>, Renaming(game, q, TRUE))
                     /\ log' = Append(log, EntryOf(q))
                  \/ /\ Broadcasts(<<Accept(q)>>, Renaming(game, q, FALSE))
                     /\ log' = log
               /\ game.doing = None /\ EntryOf(q) \in EntryType /\ inbox # <<>>
<1> DEFINE q == Head(inbox)
<1>1. /\ q \in CommandType /\ q = inbox[1] /\ 1 \in DOMAIN inbox /\ inbox' = Tail(inbox)
      /\ game.doing = None /\ game \in GameType /\ captures \in Nat /\ inbox # <<>>
  BY HeadOfInbox DEF ExecuteSetCompanyName, Takes, Awake, TypeInv
<1>2. FindLedger(game, q.id) = {} /\ q.prior = game.lastSnap
  BY DEF ExecuteSetCompanyName, Executable
<1>3. \/ /\ Send(<<Accept(q)>>, Renaming(game, q, TRUE))
         /\ log' = Append(log, EntryOf(q))
      \/ /\ Send(<<Accept(q)>>, Renaming(game, q, FALSE))
         /\ log' = log
  BY DEF ExecuteSetCompanyName, EntryOf
<1> HIDE DEF q
<1>4. Bodies(<<Accept(q)>>) /\ Renaming(game, q, TRUE) \in GameType
      /\ Renaming(game, q, FALSE) \in GameType
  BY <1>1, AnswerTyped, OneBody, RenamingTyped
<1>5. EntryOf(q) \in EntryType
  BY <1>1 DEF EntryOf, EntryType, CommandType, GameType
<1>6. \/ /\ Broadcasts(<<Accept(q)>>, Renaming(game, q, TRUE))
         /\ log' = Append(log, EntryOf(q))
      \/ /\ Broadcasts(<<Accept(q)>>, Renaming(game, q, FALSE))
         /\ log' = log
  BY <1>3, <1>4, SendBroadcasts
<1> QED
  BY <1>1, <1>2, <1>5, <1>6

LEMMA AnswerSends ==
    ASSUME TypeInv, AnswerSetCompanyName
    PROVE  LET q == game.doing.request
           IN  /\ q \in CommandType /\ ChangingName(game)
               /\ \/ Broadcasts(<<Complete(q)>>, Executed(game)) /\ game.doing.success
                  \/ Broadcasts(<<Fail(q)>>, [game EXCEPT !.doing = None])
<1> DEFINE q == game.doing.request
<1>1. /\ q \in CommandType /\ ChangingName(game) /\ game \in GameType
      /\ Executed(game) \in GameType
  BY ExecutedTyped DEF AnswerSetCompanyName, TypeInv
<1>2. [game EXCEPT !.doing = None] \in GameType
  BY <1>1 DEF GameType
<1>3. \/ Send(<<Complete(q)>>, Executed(game)) /\ game.doing.success
      \/ Send(<<Fail(q)>>, [game EXCEPT !.doing = None])
  BY DEF AnswerSetCompanyName, Succeeded
<1> HIDE DEF q
<1>4. Bodies(<<Complete(q)>>) /\ Bodies(<<Fail(q)>>)
  BY <1>1, AnswerTyped, OneBody
<1> QED
  BY <1>1, <1>2, <1>3, <1>4, SendBroadcasts DEF q

LEMMA LoadSends ==
    ASSUME TypeInv, LoadGame
    PROVE  /\ Broadcasts(Greeting, Load(saved)) /\ saved # None /\ saved \in GameType
           /\ spent'["load"] # 0 /\ inbox' \in {inbox, <<>>}
<1>1. saved # None /\ saved \in GameType /\ Load(saved) \in GameType
  BY LoadTyped DEF TypeInv, LoadGame
<1>2. spent["load"] \in Nat /\ spent'["load"] = spent["load"] + 1
  BY SpendTyped DEF LoadGame, TypeInv, Kinds
<1>3. spent'["load"] # 0
  BY <1>2
<1> QED
  BY <1>1, <1>3, GreetingTyped, SendBroadcasts DEF LoadGame, Restart

LEMMA NewGameSends ==
    ASSUME TypeInv, StartNewGame
    PROVE  LET n == spent["new_game"] + 2
           IN  /\ Broadcasts(Greeting, NewGame(n, FirstName)) /\ n \in Nat
               /\ spent'["new_game"] = spent["new_game"] + 1 /\ inbox' \in {inbox, <<>>}
<1>0. "new_game" \in Kinds /\ spent \in [Kinds -> Nat]
  BY DEF TypeInv, Kinds
<1>1. spent["new_game"] + 2 \in Nat /\ spent'["new_game"] = spent["new_game"] + 1
  BY <1>0, SpendTyped DEF StartNewGame
<1>2. NewGame(spent["new_game"] + 2, FirstName) \in GameType
  BY <1>1, NewGameTyped
<1> QED
  BY <1>1, <1>2, GreetingTyped, SendBroadcasts DEF StartNewGame, Restart

--------------------------------------------------------------------------------
(***************************************************************************)
(* A completed command is not carried out again.                           *)
(***************************************************************************)
LEMMA LedgerSame ==
    ASSUME NEW g, NEW h, h.ledger = g.ledger, h.completed = g.completed, LedgerOf(g)
    PROVE  LedgerOf(h)
  BY DEF LedgerOf

LEMMA EndsRemembered ==
    ASSUME NEW ledger \in Seq(CommandIds \X Names), NEW completed \in Seq(CommandIds),
           Ends(ledger, completed), NEW e \in CommandIds \X Names
    PROVE  Ends(Remember(ledger, e), Append(completed, e[1]))
<1> DEFINE n == Len(completed) - Len(ledger)
           l == Append(ledger, e)
           d == Append(completed, e[1])
<1>1. /\ n \in Nat /\ Len(ledger) <= LedgerLimit
      /\ n > 0 => Len(ledger) = LedgerLimit
      /\ \A i \in 1..Len(ledger) : ledger[i][1] = completed[n + i]
      /\ Len(completed) = n + Len(ledger)
  BY DEF Ends
<1>2. /\ Len(ledger) \in Nat /\ Len(completed) \in Nat /\ LedgerLimit \in Nat
      /\ e[1] \in CommandIds
  BY DEF BridgeAssumption
<1>3. /\ l \in Seq(CommandIds \X Names) /\ Len(l) = Len(ledger) + 1
      /\ \A i \in 1..Len(ledger) : l[i] = ledger[i]
      /\ l[Len(ledger) + 1] = e
  OBVIOUS
<1>4. /\ Len(d) = Len(completed) + 1
      /\ \A i \in 1..Len(completed) : d[i] = completed[i]
      /\ d[Len(completed) + 1] = e[1]
  BY <1>2
<1>5. Remember(ledger, e) = IF Len(l) > LedgerLimit THEN Tail(l) ELSE l
  BY DEF Remember
<1> HIDE DEF n, l, d
<1>6. ASSUME NEW i \in 1..Len(l)
      PROVE  l[i][1] = d[n + i]
  <2>1. CASE i \in 1..Len(ledger)
    <3>1. n + i \in 1..Len(completed)
      BY <1>1, <1>2, <2>1
    <3> QED
      BY <1>1, <1>3, <1>4, <2>1, <3>1
  <2>2. CASE i = Len(ledger) + 1
    <3>1. n + i = Len(completed) + 1
      BY <1>1, <1>2, <2>2
    <3> QED
      BY <1>3, <1>4, <2>2, <3>1
  <2> QED
    BY <1>2, <1>3, <2>1, <2>2
<1>7. CASE Len(l) > LedgerLimit
  <2> DEFINE t == Tail(l)
  <2>1. /\ t \in Seq(CommandIds \X Names) /\ Len(t) = Len(l) - 1
        /\ \A i \in 1..Len(t) : t[i] = l[i + 1]
    BY <1>2, <1>3
  <2>2. Remember(ledger, e) = t
    BY <1>5, <1>7
  <2> HIDE DEF t
  <2>3. Len(t) = LedgerLimit /\ Len(d) - Len(t) = n + 1
    BY <1>1, <1>2, <1>3, <1>4, <1>7, <2>1
  <2>4. \A i \in 1..Len(t) : t[i][1] = d[n + 1 + i]
    <3> SUFFICES ASSUME NEW i \in 1..Len(t)
                 PROVE  t[i][1] = d[n + 1 + i]
      OBVIOUS
    <3>1. i + 1 \in 1..Len(l) /\ n + (i + 1) = n + 1 + i
      BY <1>1, <1>2, <1>3, <2>1
    <3> QED
      BY <1>6, <2>1, <3>1
  <2>5. \A i \in DOMAIN t : t[i][1] = d[(Len(d) - Len(t)) + i]
    <3>1. DOMAIN t = 1..Len(t)
      BY <2>1
    <3> QED
      BY <2>3, <2>4, <3>1, Zenon
  <2>6. Len(d) - Len(t) \in Nat /\ Len(t) <= LedgerLimit
    BY <1>1, <1>2, <2>3
  <2>7. Ends(t, d)
    BY <2>3, <2>5, <2>6 DEF Ends
  <2> QED
    BY <2>2, <2>7 DEF d
<1>8. CASE ~(Len(l) > LedgerLimit)
  <2>1. Remember(ledger, e) = l
    BY <1>5, <1>8
  <2>2. Len(d) - Len(l) = n /\ Len(l) <= LedgerLimit /\ ~(n > 0)
    BY <1>1, <1>2, <1>3, <1>4, <1>8
  <2> QED
    BY <1>1, <1>3, <1>6, <2>1, <2>2 DEF Ends, d
<1> QED
  BY <1>7, <1>8

LEMMA LedgerExecuted ==
    ASSUME NEW g \in GameType, ChangingName(g), LedgerOf(g)
    PROVE  LedgerOf(Executed(g))
<1> DEFINE e == <<g.doing.request.id, g.doing.request.name>>
<1>1. /\ e \in CommandIds \X Names /\ e[1] = g.doing.request.id
      /\ Executed(g).ledger = Remember(g.ledger, e)
      /\ Executed(g).completed = Append(g.completed, e[1])
  BY ExecutedTyped
<1>2. /\ g.ledger \in Seq(CommandIds \X Names) /\ g.completed \in Seq(CommandIds)
      /\ Ends(g.ledger, g.completed)
  BY DEF GameType, LedgerOf
<1> HIDE DEF e
<1>3. Ends(Remember(g.ledger, e), Append(g.completed, e[1]))
  BY <1>1, <1>2, EndsRemembered, Zenon
<1>4. Ends(Executed(g).ledger, Executed(g).completed)
  BY <1>1, <1>3, Zenon
<1> QED
  BY <1>4 DEF LedgerOf

LEMMA LedgerBegins == ASSUME NEW inst \in Nat PROVE LedgerOf(NewGame(inst, FirstName))
<1> DEFINE g == NewGame(inst, FirstName)
<1>1. /\ g.ledger = <<>> /\ g.completed = <<>> /\ Len(<<>>) = 0 /\ DOMAIN <<>> = {}
      /\ LedgerLimit \in Nat
  BY NewGameTyped DEF BridgeAssumption
<1> HIDE DEF g
<1>2. LedgerOf(g)
  BY <1>1 DEF LedgerOf, Ends
<1> QED
  BY <1>2 DEF g

LEMMA LedgerInit == Init => LedgerInv
<1> SUFFICES ASSUME Init
             PROVE  LedgerInv
  OBVIOUS
<1>1. game = Sent(NewGame(1, FirstName), Greeting) /\ saved = None
  BY DEF Init
<1>2. game.ledger = NewGame(1, FirstName).ledger
      /\ game.completed = NewGame(1, FirstName).completed
  BY <1>1, NewGameTyped, GreetingTyped, SentTyped
<1> QED
  BY <1>1, <1>2, LedgerBegins, LedgerSame DEF LedgerInv

LEMMA LedgerNext ==
    ASSUME TypeInv, LedgerInv, [Next]_vars
    PROVE  LedgerInv'
<1>0. game \in GameType /\ LedgerOf(game) /\ (saved # None => LedgerOf(saved))
  BY DEF TypeInv, LedgerInv
<1>1. ASSUME NEW bodies, NEW after, Broadcasts(bodies, after), LedgerOf(after), saved' = saved
      PROVE  LedgerInv'
  BY <1>0, <1>1, LedgerSame DEF Broadcasts, GameSame, LedgerInv
<1>2. CASE ScriptStep
  <2>1. CASE Heartbeat
    BY <1>0, <1>1, <2>1, HeartbeatSends DEF Heartbeat
  <2>2. CASE HandleResync
    <3> DEFINE a == AfterHandshake(game, captures + 1)
    <3>0. captures + 1 \in Nat
      BY DEF TypeInv
    <3>1. a.ledger = game.ledger /\ a.completed = game.completed
      BY <1>0, <3>0, AfterHandshakeTyped
    <3>2. LedgerOf(a)
      BY <1>0, <3>1, LedgerSame
    <3> QED
      BY <1>1, <2>2, <3>2, ResyncSends DEF HandleResync
  <2>3. CASE SendWorld
    <3> DEFINE a == AfterWorldMessage(game)
    <3>1. a.ledger = game.ledger /\ a.completed = game.completed
      BY <1>0, <2>3, AfterWorldTyped DEF SendWorld
    <3>2. LedgerOf(a)
      BY <1>0, <3>1, LedgerSame
    <3> QED
      BY <1>1, <2>3, <3>2, WorldSends DEF SendWorld
  <2>4. CASE HandleCommand
    BY <1>0, <1>1, <2>4, CommandSends DEF HandleCommand
  <2>5. CASE ExecuteSetCompanyName
    <3> DEFINE q == inbox[1]
    <3>1. /\ q \in CommandType
          /\ Broadcasts(<<Accept(q)>>, Renaming(game, q, TRUE))
               \/ Broadcasts(<<Accept(q)>>, Renaming(game, q, FALSE))
          /\ saved' = saved
      BY <2>5, ExecuteSends DEF ExecuteSetCompanyName
    <3> HIDE DEF q
    <3>2. LedgerOf(Renaming(game, q, TRUE)) /\ LedgerOf(Renaming(game, q, FALSE))
      BY <1>0, <3>1, RenamingTyped, LedgerSame
    <3> QED
      BY <1>1, <3>1, <3>2
  <2>6. CASE AnswerSetCompanyName
    <3> DEFINE f == [game EXCEPT !.doing = None]
    <3>1. f.ledger = game.ledger /\ f.completed = game.completed
      BY <1>0 DEF GameType
    <3>2. LedgerOf(f)
      BY <1>0, <3>1, LedgerSame
    <3>3. LedgerOf(Executed(game))
      BY <1>0, <2>6, LedgerExecuted DEF AnswerSetCompanyName
    <3> QED
      BY <1>1, <2>6, <3>2, <3>3, AnswerSends DEF AnswerSetCompanyName
  <2> QED
    BY <1>2, <2>1, <2>2, <2>3, <2>4, <2>5, <2>6 DEF ScriptStep
<1>3. CASE GameStep
  <2>1. CASE Save
    BY <1>0, <2>1 DEF Save, LedgerInv
  <2>2. CASE LoadGame
    <3>1. Load(saved).ledger = saved.ledger /\ Load(saved).completed = saved.completed
          /\ saved # None
      BY <2>2, LoadSends, LoadTyped
    <3>2. LedgerOf(Load(saved))
      BY <1>0, <3>1, LedgerSame
    <3> QED
      BY <1>1, <2>2, <3>2, LoadSends DEF LoadGame, Restart
  <2>3. CASE StartNewGame
    BY <1>1, <2>3, LedgerBegins, NewGameSends DEF StartNewGame, Restart
  <2>4. CASE Rename
    <3>1. PICK name \in Names : game' = [game EXCEPT !.name = name]
      BY <2>4 DEF Rename
    <3>2. game'.ledger = game.ledger /\ game'.completed = game.completed
      BY <1>0, <3>1 DEF GameType
    <3> QED
      BY <1>0, <2>4, <3>2, LedgerSame DEF Rename, LedgerInv
  <2> QED
    BY <1>3, <2>1, <2>2, <2>3, <2>4 DEF GameStep
<1>4. CASE OthersRequest
  BY <1>0, <1>4 DEF OthersRequest, LedgerInv
<1>5. ASSUME NEW c \in Clients, OneClient(c)
      PROVE  UNCHANGED <<game, saved>>
  BY <1>5, BeginAsks, SendCommandAsks, RefusedReceives, NegotiateReceives, UnsolicitedReceives,
     AnswerReceives
     DEF OneClient, Starts, Misplaces, Completes, Proceeds, Accepts, Declines, Verifies,
         Receives, Rests
<1>6. CASE UNCHANGED vars
  BY <1>0, <1>6 DEF vars, LedgerInv
<1> QED
  BY <1>0, <1>2, <1>3, <1>4, <1>5, <1>6, StepCases DEF LedgerInv

(* Only a command that is carried out grows the log. *)
LEMMA LogGrows ==
    ASSUME TypeInv, [Next]_vars
    PROVE  \/ log' = log
           \/ ExecuteSetCompanyName /\ log' = Append(log, EntryOf(inbox[1]))
<1>1. CASE ScriptStep
  <2>1. CASE ExecuteSetCompanyName
    BY <2>1, ExecuteSends
  <2> QED
    BY <1>1, <2>1 DEF ScriptStep, Heartbeat, HandleResync, SendWorld, HandleCommand,
                      AnswerSetCompanyName
<1>2. CASE GameStep \/ OthersRequest
  BY <1>2 DEF GameStep, Save, LoadGame, StartNewGame, Restart, Rename, OthersRequest
<1>3. ASSUME NEW c \in Clients, OneClient(c)
      PROVE  log' = log
  BY <1>3, BeginAsks, SendCommandAsks, RefusedReceives, NegotiateReceives, UnsolicitedReceives,
     AnswerReceives
     DEF OneClient, Starts, Misplaces, Completes, Proceeds, Accepts, Declines, Verifies,
         Receives, Rests
<1>4. CASE UNCHANGED vars
  BY <1>4 DEF vars
<1> QED
  BY <1>1, <1>2, <1>3, <1>4, StepCases

LEMMA RunOnceStep ==
    ASSUME TypeInv, LedgerInv, [Next]_vars, Executes
    PROVE  NewEntry.id \notin Newest(game.completed, LedgerLimit)
<1> DEFINE q == inbox[1]
<1>1. log \in Seq(EntryType)
  BY DEF TypeInv
<1>2. ExecuteSetCompanyName /\ log' = Append(log, EntryOf(q))
  BY <1>1, LogGrows DEF Executes
<1>3. EntryOf(q) \in EntryType /\ FindLedger(game, q.id) = {}
  BY <1>2, ExecuteSends
<1>4. EntryOf(q).id = q.id
  BY DEF EntryOf
<1> HIDE DEF q
<1>5. NewEntry.id = q.id
  <2>1. Len(log') = Len(log) + 1 /\ log'[Len(log) + 1] = EntryOf(q)
    BY <1>1, <1>2, <1>3
  <2> QED
    BY <1>4, <2>1 DEF NewEntry
<1> DEFINE n == Len(game.completed) - Len(game.ledger)
<1>6. /\ n \in Nat
      /\ n > 0 => Len(game.ledger) = LedgerLimit
      /\ \A i \in DOMAIN game.ledger : game.ledger[i][1] = game.completed[n + i]
  BY DEF LedgerInv, LedgerOf, Ends
<1>7. /\ game.ledger \in Seq(CommandIds \X Names) /\ game.completed \in Seq(CommandIds)
      /\ LedgerLimit \in Nat
  BY DEF TypeInv, GameType, BridgeAssumption
<1>8. Len(game.ledger) \in Nat /\ Len(game.completed) \in Nat
      /\ DOMAIN game.ledger = 1..Len(game.ledger)
      /\ DOMAIN game.completed = 1..Len(game.completed)
      /\ Len(game.completed) = n + Len(game.ledger)
  BY <1>7
<1> HIDE DEF n
<1> SUFFICES ASSUME NEW j \in DOMAIN game.completed,
                    j > Len(game.completed) - LedgerLimit, game.completed[j] = q.id
             PROVE  FALSE
  BY <1>5 DEF Newest
<1>9. j > n
  <2>1. CASE n > 0
    BY <1>6, <1>7, <1>8, <2>1
  <2>2. CASE ~(n > 0)
    BY <1>6, <1>8, <2>2
  <2> QED
    BY <2>1, <2>2
<1>10. j - n \in DOMAIN game.ledger /\ n + (j - n) = j
  BY <1>6, <1>8, <1>9
<1>11. game.ledger[j - n][1] = q.id
  BY <1>6, <1>10
<1> QED
  BY <1>3, <1>10, <1>11 DEF FindLedger

LEMMA LedgerKept == Spec => []LedgerInv
  BY BridgeTypes, LedgerInit, LedgerNext, PTL DEF Spec

(* The game keeps, saves and loads its ledger with the world its commands  *)
(* changed (HandleCommand, Save, Load), so a completed command runs again  *)
(* under its ID only when its entry has had to make room.                  *)
THEOREM LedgerRemembers == Spec => CompletedCommandsRunOnce
<1>1. TypeInv /\ LedgerInv /\ [Next]_vars
        => [Executes => NewEntry.id \notin Newest(game.completed, LedgerLimit)]_vars
  BY RunOnceStep
<1> QED
  BY <1>1, BridgeTypes, LedgerKept, PTL DEF Spec, CompletedCommandsRunOnce

--------------------------------------------------------------------------------
(***************************************************************************)
(* Queues, message by message.                                             *)
(***************************************************************************)
Kept(s, t, i) == i \in DOMAIN s /\ t[i] = s[i]

Added(s, t, i, bodies, g) ==
    \E j \in DOMAIN bodies :
        /\ i = Len(s) + j
        /\ t[i].inst = g.inst /\ t[i].seq = g.seq + j /\ t[i].body = bodies[j]

LEMMA GrownMessage ==
    ASSUME NEW s \in Seq(MessageType), NEW t, NEW bodies, Bodies(bodies), NEW g,
           Grown(s, t, bodies, g), NEW i \in DOMAIN t
    PROVE  i \in Nat \ {0} /\ (Kept(s, t, i) \/ Added(s, t, i, bodies, g))
<1>1. /\ t \in Seq(MessageType) /\ Len(t) = Len(s) + Len(bodies) /\ Len(s) \in Nat
      /\ Len(bodies) \in Nat /\ DOMAIN bodies = 1..Len(bodies)
  BY DEF Grown, Bodies
<1>2. i \in 1..(Len(s) + Len(bodies))
  BY <1>1
<1>3. CASE i \in 1..Len(s)
  BY <1>1, <1>3 DEF Grown, Kept
<1>4. CASE i \notin 1..Len(s)
  <2> DEFINE j == i - Len(s)
  <2>1. j \in 1..Len(bodies) /\ i = Len(s) + j
    BY <1>1, <1>2, <1>4
  <2> HIDE DEF j
  <2>2. t[Len(s) + j] = [inst |-> g.inst, seq |-> g.seq + j, body |-> bodies[j]]
    BY <2>1, Zenon DEF Grown
  <2>3. t[i].inst = g.inst /\ t[i].seq = g.seq + j /\ t[i].body = bodies[j]
    BY <2>1, <2>2
  <2> QED
    BY <1>1, <1>2, <2>1, <2>3 DEF Added
<1> QED
  BY <1>2, <1>3, <1>4

LEMMA HeardMessage ==
    ASSUME NEW l, LinkOK(l), NEW m, NEW bodies, Bodies(bodies), NEW g, Hears(l, m, bodies, g),
           NEW i \in DOMAIN m.queue
    PROVE  \/ Kept(l.queue, m.queue, i)
           \/ l.up /\ Added(l.queue, m.queue, i, bodies, g)
  BY GrownMessage DEF Hears, LinkOK, Kept

LEMMA KeptMessage ==
    ASSUME NEW l, LinkOK(l), NEW m, Pops(l, m), NEW i \in DOMAIN m.queue
    PROVE  i + 1 \in DOMAIN l.queue /\ m.queue[i] = l.queue[i + 1] /\ i \in Nat \ {0}
<1>1. l.queue \in Seq(MessageType) /\ m.queue \in Seq(MessageType)
  BY DEF LinkOK, Pops
<1> QED
  BY <1>1 DEF Pops, Shrunk

(* What is neither a response nor about the world. *)
Chatter(bodies) ==
    /\ 1 \in DOMAIN bodies
    /\ \A i \in DOMAIN bodies : bodies[i].type \notin Telling \cup {"resync_response"}

ChatSteps ==
    \/ Heartbeat \/ HandleCommand \/ ExecuteSetCompanyName \/ AnswerSetCompanyName
    \/ LoadGame \/ StartNewGame

LEMMA ChatterOfOne ==
    ASSUME NEW b, b.type \notin Telling \cup {"resync_response"}
    PROVE  Chatter(<<b>>)
  BY DEF Chatter

LEMMA ChatterOfTwo ==
    ASSUME NEW a, NEW b, a.type \notin Telling \cup {"resync_response"},
           b.type \notin Telling \cup {"resync_response"}
    PROVE  Chatter(<<a, b>>)
  BY DEF Chatter

LEMMA ChatStepsChat ==
    ASSUME TypeInv, ChatSteps
    PROVE  \E bodies, after :
              Broadcasts(bodies, after) /\ Chatter(bodies) /\ ~SendingWorld(after)
<1>0. game \in GameType
  BY DEF TypeInv
<1>1. ASSUME NEW q \in CommandType
      PROVE  /\ Chatter(<<Reject(q)>>) /\ Chatter(<<Accept(q)>>) /\ Chatter(<<Fail(q)>>)
             /\ Chatter(<<Complete(q)>>) /\ Chatter(<<Accept(q), Complete(q)>>)
  <2>1. /\ Reject(q).type \notin Telling \cup {"resync_response"}
        /\ Accept(q).type \notin Telling \cup {"resync_response"}
        /\ Fail(q).type \notin Telling \cup {"resync_response"}
        /\ Complete(q).type \notin Telling \cup {"resync_response"}
    BY AnswerTyped DEF Telling, WorldTypes, PartTypes
  <2> QED
    BY <2>1, ChatterOfOne, ChatterOfTwo
<1>2. Chatter(Greeting)
  BY GreetingTyped DEF Chatter, Telling, WorldTypes, PartTypes
<1>3. CASE Heartbeat
  <2>1. Body("heartbeat", 0).type \notin Telling \cup {"resync_response"}
    BY BodyTyped DEF MessageTypes, Telling, WorldTypes, PartTypes
  <2> QED
    BY <1>3, <2>1, ChatterOfOne, HeartbeatSends DEF SendingWorld
<1>4. CASE HandleCommand
  <2> DEFINE q == inbox[1]
  <2>1. /\ q \in CommandType /\ game.doing = None
        /\ \/ Broadcasts(<<Reject(q)>>, game)
           \/ Broadcasts(<<Accept(q), Complete(q)>>, game)
    BY <1>4, CommandSends
  <2> HIDE DEF q
  <2> QED
    BY <1>1, <2>1 DEF SendingWorld
<1>5. CASE ExecuteSetCompanyName
  <2> DEFINE q == inbox[1]
  <2>1. /\ q \in CommandType
        /\ \/ Broadcasts(<<Accept(q)>>, Renaming(game, q, TRUE))
           \/ Broadcasts(<<Accept(q)>>, Renaming(game, q, FALSE))
    BY <1>5, ExecuteSends
  <2> HIDE DEF q
  <2>2. ASSUME NEW success \in BOOLEAN
        PROVE  ~SendingWorld(Renaming(game, q, success))
    <3>1. Renaming(game, q, success).doing =
            [handler |-> "command", request |-> q, success |-> success]
      BY <1>0, <2>1, RenamingTyped
    <3> QED
      BY <3>1 DEF SendingWorld
  <2> QED
    BY <1>1, <2>1, <2>2
<1>6. CASE AnswerSetCompanyName
  <2> DEFINE q == game.doing.request  f == [game EXCEPT !.doing = None]
  <2>1. /\ q \in CommandType /\ ChangingName(game)
        /\ Broadcasts(<<Complete(q)>>, Executed(game)) \/ Broadcasts(<<Fail(q)>>, f)
    BY <1>6, AnswerSends
  <2>2. Executed(game).doing = None
    BY <1>0, <2>1, ExecutedTyped
  <2>3. f.doing = None
    BY <1>0 DEF GameType
  <2> HIDE DEF q, f
  <2> QED
    BY <1>1, <2>1, <2>2, <2>3 DEF SendingWorld
<1>7. CASE LoadGame
  BY <1>2, <1>7, LoadSends, LoadTyped DEF SendingWorld
<1>8. CASE StartNewGame
  BY <1>2, <1>8, NewGameSends, NewGameTyped DEF SendingWorld
<1> QED
  BY <1>3, <1>4, <1>5, <1>6, <1>7, <1>8 DEF ChatSteps

--------------------------------------------------------------------------------
(***************************************************************************)
(* A resumed task changes its own game only.                               *)
(***************************************************************************)
LEMMA NamedInit == Init => NamedInv
<1> SUFFICES ASSUME Init
             PROVE  NamedInv
  OBVIOUS
<1>1. game = Sent(NewGame(1, FirstName), Greeting) /\ saved = None
  BY DEF Init
<1>2. game.lastSnap = None
  BY <1>1, NewGameTyped, GreetingTyped, SentTyped
<1>3. \A c \in Clients : QueueNamed(link[c].queue) /\ ClientTied(client[c])
  BY NewClientTyped DEF Init, QueueNamed, ClientTied
<1>4. inbox = <<>> /\ log = <<>>
  BY DEF Init
<1> QED
  BY <1>1, <1>2, <1>3, <1>4 DEF NamedInv, GameNamed, ResumedInTheSameGame

LEMMA NamedSame ==
    ASSUME NEW g, NEW h, h.lastSnap = g.lastSnap, h.inst = g.inst, GameNamed(g)
    PROVE  GameNamed(h)
  BY DEF GameNamed

LEMMA QueueNamedGrows ==
    ASSUME NEW l, LinkOK(l), QueueNamed(l.queue), NEW m, NEW bodies, Bodies(bodies), NEW g,
           Hears(l, m, bodies, g),
           \A i \in DOMAIN bodies : bodies[i].type = "state_snapshot" => bodies[i].ref[1] = g.inst
    PROVE  QueueNamed(m.queue)
<1> SUFFICES ASSUME NEW i \in DOMAIN m.queue, m.queue[i].body.type = "state_snapshot"
             PROVE  m.queue[i].body.ref[1] = m.queue[i].inst
  BY DEF QueueNamed
<1>1. CASE Kept(l.queue, m.queue, i)
  BY <1>1 DEF QueueNamed, Kept
<1>2. CASE Added(l.queue, m.queue, i, bodies, g)
  BY <1>2 DEF Added
<1> QED
  BY <1>1, <1>2, HeardMessage

(* The script's side of NamedInv: what the script is, and what it sends. *)
NamedGames ==
    /\ GameNamed(game') /\ (saved' # None => GameNamed(saved'))
    /\ \A c \in Clients : QueueNamed(link'[c].queue)

LEMMA NamedBroadcast ==
    ASSUME TypeInv, NamedInv, NEW bodies, NEW after, Broadcasts(bodies, after),
           GameNamed(after), saved' = saved,
           \A i \in DOMAIN bodies :
              bodies[i].type = "state_snapshot" => bodies[i].ref[1] = game.inst
    PROVE  NamedGames
<1>1. GameNamed(game')
  BY NamedSame DEF Broadcasts, GameSame
<1>2. \A c \in Clients : LinkOK(link[c]) /\ QueueNamed(link[c].queue)
  BY DEF TypeInv, NamedInv
<1>3. \A c \in Clients : QueueNamed(link'[c].queue)
  BY <1>2, QueueNamedGrows DEF Broadcasts
<1> QED
  BY <1>1, <1>3 DEF NamedGames, NamedInv

LEMMA NamedChat ==
    ASSUME TypeInv, NamedInv, NEW bodies, NEW after, Broadcasts(bodies, after),
           GameNamed(after), saved' = saved, Chatter(bodies)
    PROVE  NamedGames
  BY NamedBroadcast DEF Chatter, Telling

LEMMA ChatterTypes ==
    /\ Chatter(Greeting) /\ Chatter(<<Body("heartbeat", 0)>>)
    /\ \A q \in CommandType :
          /\ Chatter(<<Reject(q)>>) /\ Chatter(<<Accept(q)>>) /\ Chatter(<<Fail(q)>>)
          /\ Chatter(<<Complete(q)>>) /\ Chatter(<<Accept(q), Complete(q)>>)
<1>1. Chatter(Greeting)
  BY GreetingTyped DEF Chatter, Telling, WorldTypes, PartTypes
<1>2. Chatter(<<Body("heartbeat", 0)>>)
  <2>1. Body("heartbeat", 0).type \notin Telling \cup {"resync_response"}
    BY BodyTyped DEF MessageTypes, Telling, WorldTypes, PartTypes
  <2> QED
    BY <2>1, ChatterOfOne
<1>3. ASSUME NEW q \in CommandType
      PROVE  /\ Chatter(<<Reject(q)>>) /\ Chatter(<<Accept(q)>>) /\ Chatter(<<Fail(q)>>)
             /\ Chatter(<<Complete(q)>>) /\ Chatter(<<Accept(q), Complete(q)>>)
  <2>1. /\ Reject(q).type \notin Telling \cup {"resync_response"}
        /\ Accept(q).type \notin Telling \cup {"resync_response"}
        /\ Fail(q).type \notin Telling \cup {"resync_response"}
        /\ Complete(q).type \notin Telling \cup {"resync_response"}
    BY AnswerTyped DEF Telling, WorldTypes, PartTypes
  <2> QED
    BY <2>1, ChatterOfOne, ChatterOfTwo
<1> QED
  BY <1>1, <1>2, <1>3

LEMMA NamedGamesNext ==
    ASSUME TypeInv, NamedInv, ScriptStep \/ GameStep
    PROVE  NamedGames
<1>0. game \in GameType /\ GameNamed(game) /\ (saved # None => GameNamed(saved))
      /\ \A c \in Clients : QueueNamed(link[c].queue)
  BY DEF TypeInv, NamedInv
<1>1. CASE Heartbeat
  BY <1>0, <1>1, HeartbeatSends, NamedChat, ChatterTypes DEF Heartbeat
<1>2. CASE HandleResync
  <2> DEFINE h == Handshake(game, inbox[1].request, captures + 1)
             a == AfterHandshake(game, captures + 1)
  <2>1. Broadcasts(h, a) /\ inbox[1].request \in Nat /\ saved' = saved
    BY <1>2, ResyncSends DEF HandleResync
  <2>2. captures + 1 \in Nat
    BY DEF TypeInv
  <2>3. a.lastSnap = <<game.inst, game.seq + 4>> /\ a.inst = game.inst
    BY <1>0, <2>2, AfterHandshakeTyped
  <2>4. /\ DOMAIN h = 1..4 /\ h[1].type = "hello" /\ h[2].type = "capabilities"
        /\ h[3].type = "resync_response" /\ h[4].ref = <<game.inst, game.seq + 4>>
    BY <1>0, <2>1, <2>2, HandshakeTyped
  <2> HIDE DEF h, a
  <2>5. GameNamed(a)
    BY <2>3 DEF GameNamed
  <2>6. \A i \in DOMAIN h : h[i].type = "state_snapshot" => h[i].ref[1] = game.inst
    BY <2>4
  <2> QED
    BY <2>1, <2>5, <2>6, NamedBroadcast
<1>3. CASE SendWorld
  <2> DEFINE w == WorldMessage(game.doing)
  <2>1. /\ Broadcasts(<<w>>, AfterWorldMessage(game)) /\ saved' = saved
        /\ w.type \in WorldTypes /\ BodyOK(w)
    BY <1>3, WorldSends, WorldTyped DEF SendWorld
  <2>2. GameNamed(AfterWorldMessage(game))
    BY <1>0, <1>3, WorldSends, AfterWorldTyped, NamedSame
  <2> HIDE DEF w
  <2>3. \A i \in DOMAIN <<w>> : <<w>>[i].type # "state_snapshot"
    BY <2>1, OneBody DEF WorldTypes, PartTypes
  <2> QED
    BY <2>1, <2>2, <2>3, NamedBroadcast
<1>4. CASE HandleCommand
  <2> DEFINE q == inbox[1]
  <2>1. /\ q \in CommandType /\ saved' = saved
        /\ \/ Broadcasts(<<Reject(q)>>, game)
           \/ Broadcasts(<<Accept(q), Complete(q)>>, game)
    BY <1>4, CommandSends DEF HandleCommand
  <2> HIDE DEF q
  <2> QED
    BY <1>0, <2>1, NamedChat, ChatterTypes
<1>5. CASE ExecuteSetCompanyName
  <2> DEFINE q == inbox[1]
  <2>1. /\ q \in CommandType /\ saved' = saved
        /\ \/ Broadcasts(<<Accept(q)>>, Renaming(game, q, TRUE))
           \/ Broadcasts(<<Accept(q)>>, Renaming(game, q, FALSE))
    BY <1>5, ExecuteSends DEF ExecuteSetCompanyName
  <2> HIDE DEF q
  <2>2. \A success \in BOOLEAN : GameNamed(Renaming(game, q, success))
    <3> SUFFICES ASSUME NEW success \in BOOLEAN
                 PROVE  GameNamed(Renaming(game, q, success))
      OBVIOUS
    <3>1. /\ Renaming(game, q, success).lastSnap = game.lastSnap
          /\ Renaming(game, q, success).inst = game.inst
      BY <1>0, <2>1, RenamingTyped, ZenonT(30)
    <3> QED
      BY <1>0, <3>1, NamedSame
  <2> QED
    BY <2>1, <2>2, NamedChat, ChatterTypes
<1>6. CASE AnswerSetCompanyName
  <2> DEFINE q == game.doing.request  f == [game EXCEPT !.doing = None]
  <2>1. /\ q \in CommandType /\ ChangingName(game) /\ saved' = saved
        /\ Broadcasts(<<Complete(q)>>, Executed(game)) \/ Broadcasts(<<Fail(q)>>, f)
    BY <1>6, AnswerSends DEF AnswerSetCompanyName
  <2>2. GameNamed(Executed(game))
    BY <1>0, <2>1, ExecutedTyped, NamedSame
  <2>3. f.lastSnap = game.lastSnap /\ f.inst = game.inst
    BY <1>0 DEF GameType
  <2>4. GameNamed(f)
    BY <1>0, <2>3, NamedSame
  <2> HIDE DEF q, f
  <2> QED
    BY <2>1, <2>2, <2>4, NamedChat, ChatterTypes
<1>7. CASE LoadGame
  <2>1. GameNamed(Load(saved))
    BY <1>0, <1>7, LoadSends, LoadTyped, NamedSame
  <2> QED
    BY <1>7, <2>1, LoadSends, NamedChat, ChatterTypes DEF LoadGame, Restart
<1>8. CASE StartNewGame
  <2>1. GameNamed(NewGame(spent["new_game"] + 2, FirstName))
    BY <1>8, NewGameSends, NewGameTyped DEF GameNamed
  <2> QED
    BY <1>8, <2>1, NewGameSends, NamedChat, ChatterTypes DEF StartNewGame, Restart
<1>9. CASE Save
  BY <1>0, <1>9 DEF Save, NamedGames
<1>10. CASE Rename
  <2>1. PICK name \in Names : game' = [game EXCEPT !.name = name]
    BY <1>10 DEF Rename
  <2>2. game'.lastSnap = game.lastSnap /\ game'.inst = game.inst
    BY <1>0, <2>1 DEF GameType
  <2> QED
    BY <1>0, <1>10, <2>2, NamedSame DEF Rename, NamedGames
<1> QED
  BY <1>1, <1>2, <1>3, <1>4, <1>5, <1>6, <1>7, <1>8, <1>9, <1>10 DEF ScriptStep, GameStep

(* The requests, and the changes of the name they lead to. *)
NamedRequests ==
    /\ \A i \in DOMAIN inbox' : RequestTied(inbox'[i])
    /\ ResumedInTheSameGame'

LEMMA RequestsLeft ==
    ASSUME TypeInv, ScriptStep \/ GameStep
    PROVE  \/ inbox' = inbox
           \/ inbox' = Tail(inbox) /\ inbox # <<>>
           \/ inbox' = <<>>
  BY DEF ScriptStep, GameStep, Heartbeat, HandleResync, SendWorld, HandleCommand,
         ExecuteSetCompanyName, AnswerSetCompanyName, Takes, Save, LoadGame, StartNewGame,
         Restart, Rename

LEMMA ExecutedAtHome ==
    ASSUME TypeInv, NamedInv, ExecuteSetCompanyName
    PROVE  inbox[1].home \in {0, game.inst}
<1>1. /\ inbox[1] \in CommandType /\ inbox[1].prior = game.lastSnap /\ 1 \in DOMAIN inbox
  BY ExecuteSends
<1>2. RequestTied(inbox[1]) /\ GameNamed(game)
  BY <1>1 DEF NamedInv
<1>3. inbox[1].type = "command_request" /\ None \notin Ident
  BY <1>1 DEF CommandType, Ident, BridgeAssumption
<1> QED
  BY <1>1, <1>2, <1>3 DEF RequestTied, GameNamed

LEMMA NamedRequestsNext ==
    ASSUME TypeInv, NamedInv, ScriptStep \/ GameStep
    PROVE  NamedRequests
<1>1. /\ inbox \in Seq(RequestType) /\ log \in Seq(EntryType)
      /\ \A i \in DOMAIN inbox : RequestTied(inbox[i])
      /\ \A i \in DOMAIN log : log[i].home \in {0, log[i].inst}
  BY DEF TypeInv, NamedInv, ResumedInTheSameGame
<1>2. \A i \in DOMAIN inbox' : RequestTied(inbox'[i])
  <2>1. CASE inbox' = inbox \/ inbox' = <<>>
    BY <1>1, <2>1
  <2>2. CASE inbox' = Tail(inbox) /\ inbox # <<>>
    <3>1. \A i \in DOMAIN Tail(inbox) :
             i + 1 \in DOMAIN inbox /\ Tail(inbox)[i] = inbox[i + 1]
      BY <2>2, HeadOfInbox
    <3> QED
      BY <1>1, <2>2, <3>1
  <2> QED
    BY <2>1, <2>2, RequestsLeft
<1>3. \A i \in DOMAIN log' : log'[i].home \in {0, log'[i].inst}
  <2>1. CASE log' = log
    BY <1>1, <2>1
  <2>2. CASE ExecuteSetCompanyName /\ log' = Append(log, EntryOf(inbox[1]))
    <3> DEFINE e == EntryOf(inbox[1])
    <3>1. e \in EntryType /\ inbox[1].home \in {0, game.inst}
      BY <2>2, ExecuteSends, ExecutedAtHome
    <3>2. e.home \in {0, e.inst}
      BY <3>1 DEF EntryOf
    <3> HIDE DEF e
    <3>3. \A i \in DOMAIN Append(log, e) :
             Append(log, e)[i] = e \/ (i \in DOMAIN log /\ Append(log, e)[i] = log[i])
      BY <1>1, <3>1
    <3> QED
      BY <1>1, <2>2, <3>2, <3>3 DEF e
  <2> QED
    BY <2>1, <2>2, LogGrows DEF Next
<1> QED
  BY <1>2, <1>3 DEF NamedRequests, ResumedInTheSameGame

(* The clients' side of NamedInv. *)
LEMMA TiedSame ==
    ASSUME NEW k, NEW n, ClientTied(k), n.rejecting = k.rejecting,
           n.rejecting => n.home = k.home, n.inst = k.inst, Has(n) => Has(k),
           Has(n) => n.snap = k.snap
    PROVE  ClientTied(n)
  BY DEF ClientTied

(* Nothing of another game is received by a client that is tied to one. *)
LEMMA TiedReceiver ==
    ASSUME TypeInv, NamedInv, NEW c \in Clients, Receiving(c), ~Refused(client[c], Incoming(c))
    PROVE  /\ ClientTied(Receiver(c))
           /\ Receiver(c).rejecting => Incoming(c).inst = Receiver(c).home
           /\ Incoming(c).body.type = "state_snapshot" =>
                Incoming(c).body.ref[1] = Incoming(c).inst
<1> DEFINE k == client[c]  r == Receiver(c)  m == Incoming(c)
<1>1. ClientTied(k) /\ QueueNamed(link[c].queue)
  BY DEF NamedInv
<1>2. /\ CoreSame(k, r) /\ r.inst = m.inst /\ r.got = k.got /\ r.snap = k.snap
  BY IncomingTyped
<1>3. k.rejecting => m.inst = k.inst
  BY <1>1 DEF ClientTied, Refused, Changes
<1>4. ClientTied(r)
  BY <1>1, <1>2, <1>3 DEF ClientTied, CoreSame, Has
<1>5. m = link[c].queue[1] /\ 1 \in DOMAIN link[c].queue
  <2>1. link[c].queue \in Seq(MessageType) /\ link[c].queue # <<>>
    BY DEF TypeInv, LinkOK, Receiving
  <2> QED
    BY <2>1 DEF Incoming
<1>6. m.body.type = "state_snapshot" => m.body.ref[1] = m.inst
  BY <1>1, <1>5 DEF QueueNamed
<1>7. r.rejecting => m.inst = r.home
  BY <1>1, <1>2, <1>3 DEF ClientTied, CoreSame
<1> QED
  BY <1>4, <1>6, <1>7

(* What is told keeps a client tied. *)
LEMMA TiedTold ==
    ASSUME NEW k, ClientTied(k), NEW b, NEW n, Told(k, b, n), CoreSame(k, n), n.inst = k.inst,
           Has(n) => Has(k) \/ b.type = "state_snapshot",
           b.type = "state_snapshot" /\ k.rejecting => b.ref[1] = k.home
    PROVE  ClientTied(n)
<1>1. CASE b.type = "state_snapshot"
  <2>1. n.snap.id = b.ref
    BY <1>1 DEF Told
  <2> QED
    BY <1>1, <2>1 DEF ClientTied, CoreSame
<1>2. CASE b.type # "state_snapshot"
  BY <1>2 DEF Told, ClientTied, CoreSame
<1> QED
  BY <1>1, <1>2

LEMMA NamedNegotiate ==
    ASSUME TypeInv, NamedInv, NEW c \in Clients, Negotiate(c)
    PROVE  ClientTied(client'[c])
<1> DEFINE k == Receiver(c)  b == Incoming(c).body  n == Negotiated(k, b)
<1>1. /\ Misplaces(c, b) \/ Completes(c, b) \/ Proceeds(c, b)
      /\ Receiving(c) /\ Baseline(client[c]) /\ ~Refused(client[c], Incoming(c))
  BY NegotiateReceives
<1>2. /\ ClientOK(k) /\ BodyOK(b) /\ CoreSame(client[c], k)
  BY <1>1, IncomingTyped
<1>3. /\ ClientTied(k)
      /\ b.type = "state_snapshot" /\ k.rejecting => b.ref[1] = k.home
  BY <1>1, TiedReceiver
<1>4. /\ ClientOK(n) /\ CoreSame(k, n) /\ Told(k, b, n) /\ n.inst = k.inst
      /\ "state_snapshot" \in n.got => "state_snapshot" \in k.got \/ b.type = "state_snapshot"
  <2>1. n.got \subseteq k.got \cup {b.type}
    <3>1. n.got = k.got \cup
             IF \/ b.type \in {"hello", "capabilities", "state_snapshot"}
                \/ b.type = "resync_response" /\ OwnResponse(k, b)
                \/ b.type = "world_snapshot_complete" /\ Assembling(k)
             THEN {b.type} ELSE {}
      BY <1>2, NegotiatedTyped
    <3> HIDE DEF k, b, n
    <3> QED
      BY <3>1
  <2> QED
    BY <1>2, <2>1, NegotiatedTyped
<1>5. ClientTied(n)
  BY <1>3, <1>4, TiedTold DEF Has, CoreSame
<1>6. Baseline(k) /\ Baseline(n)
  BY <1>1, <1>2, <1>4 DEF CoreSame, Baseline
<1>7. CASE Misplaces(c, b)
  <2>1. /\ ViewSame(k, Raised(k)) /\ Raised(k).home = k.home /\ Raised(k).state = "failed"
        /\ client'[c] = Raised(k)
    BY <1>2, <1>6, <1>7, RaisedTyped DEF Misplaces, Baseline, Receives
  <2> QED
    BY <1>3, <2>1, TiedSame DEF ViewSame, Has
<1>8. CASE Completes(c, b)
  <2>1. Finished(n) /\ client'[c] = Returned(n)
    BY <1>8 DEF Completes, Receives
  <2>2. /\ ViewSame(n, Returned(n))
        /\ n.rejecting => Returned(n).home = n.home
    BY <1>4, <1>6, <2>1, ReturnedTyped
  <2>3. "state_snapshot" \in n.got
    BY <2>1 DEF Finished, Shaken, Summary
  <2> QED
    BY <1>5, <2>1, <2>2, <2>3, TiedSame DEF ViewSame, Has
<1>9. CASE Proceeds(c, b)
  BY <1>5, <1>9 DEF Proceeds, Receives
<1> QED
  BY <1>1, <1>7, <1>8, <1>9

LEMMA NamedUnsolicited ==
    ASSUME TypeInv, NamedInv, NEW c \in Clients, ConsumeUnsolicited(c)
    PROVE  ClientTied(client'[c])
<1> DEFINE k == Receiver(c)  b == Incoming(c).body
<1>1. /\ \/ UnsolicitedRefused(k, b) /\ Receives(c, Raised(k))
         \/ ~UnsolicitedRefused(k, b) /\ Receives(c, Consumed(k, b))
      /\ Receiving(c) /\ ~Refused(client[c], Incoming(c)) /\ client[c].phase = "commanding"
  BY UnsolicitedReceives
<1>2. /\ ClientOK(k) /\ BodyOK(b) /\ CoreSame(client[c], k)
  BY <1>1, IncomingTyped
<1>3. /\ ClientTied(k)
      /\ b.type = "state_snapshot" /\ k.rejecting => b.ref[1] = k.home
  BY <1>1, TiedReceiver
<1> HIDE DEF k, b
<1>4. CASE UnsolicitedRefused(k, b) /\ Receives(c, Raised(k))
  <2>1. k.phase # "idle"
    BY <1>1, <1>2 DEF CoreSame
  <2>2. /\ ViewSame(k, Raised(k)) /\ Raised(k).home = k.home
        /\ Raised(k).state \in {"failed", k.state}
        /\ client'[c] = Raised(k)
    BY <1>2, <1>4, <2>1, RaisedTyped DEF Receives
  <2> QED
    BY <1>3, <2>2, TiedSame DEF ViewSame, Has
<1>5. CASE ~UnsolicitedRefused(k, b) /\ Receives(c, Consumed(k, b))
  <2> DEFINE n == Consumed(k, b)
  <2>1. /\ CoreSame(k, n) /\ Told(k, b, n) /\ n.inst = k.inst /\ n.got = k.got
        /\ client'[c] = n
    BY <1>2, <1>5, ConsumedTyped DEF Receives
  <2> HIDE DEF n
  <2> QED
    BY <1>3, <2>1, TiedTold DEF CoreSame, Has
<1> QED
  BY <1>1, <1>4, <1>5

(* What the answers to a command change of the client. *)
LEMMA AcceptedSame ==
    ASSUME NEW k, ClientOK(k)
    PROVE  LET n == [k EXCEPT !.accepted = TRUE]
           IN  ViewSame(k, n) /\ CoreSame(k, n)
  BY DEF ClientOK, ClientType, ViewSame, CoreSame

LEMMA DeclinedSame ==
    ASSUME NEW k, ClientOK(k)
    PROVE  LET n == [k EXCEPT !.phase = "idle", !.outcome = "refused"]
           IN  /\ ViewSame(k, n) /\ n.phase = "idle" /\ n.outcome = "refused"
               /\ n.state = k.state /\ n.home = k.home
  BY DEF ClientOK, ClientType, ViewSame

LEMMA NamedAnswer ==
    ASSUME TypeInv, NamedInv, NEW c \in Clients, ReceiveAnswer(c)
    PROVE  ClientTied(client'[c])
<1> DEFINE k == Receiver(c)
<1>1. /\ Accepts(c) \/ Declines(c) \/ Verifies(c)
      /\ Receiving(c) /\ ~Refused(client[c], Incoming(c)) /\ client[c].phase = "commanding"
  BY AnswerReceives
<1>2. ClientOK(k) /\ CoreSame(client[c], k) /\ ClientTied(k)
  BY <1>1, IncomingTyped, TiedReceiver
<1>3. CASE Accepts(c)
  <2> DEFINE n == [k EXCEPT !.accepted = TRUE]
  <2>1. client'[c] = n /\ ViewSame(k, n) /\ CoreSame(k, n)
    BY <1>2, <1>3, AcceptedSame DEF Accepts, Receives
  <2> HIDE DEF n, k
  <2> QED
    BY <1>2, <2>1, TiedSame DEF ViewSame, CoreSame, Has
<1>4. CASE Declines(c)
  <2> DEFINE n == [k EXCEPT !.phase = "idle", !.outcome = "refused"]
  <2>1. client'[c] = n /\ ViewSame(k, n) /\ n.state = k.state /\ n.home = k.home
    BY <1>2, <1>4, DeclinedSame DEF Declines, Receives
  <2> HIDE DEF n, k
  <2> QED
    BY <1>2, <2>1, TiedSame DEF ViewSame, Has
<1>5. CASE Verifies(c)
  <2> DEFINE n == Requesting(k, "verifying", requests + 1, captures)
  <2>0. requests + 1 \in Nat /\ captures \in Nat /\ k.phase = "commanding"
    BY <1>1, <1>2 DEF TypeInv, CoreSame
  <2>1. Asks(k, n, "verifying", requests + 1, captures)
    BY <1>2, <2>0, RequestingTyped
  <2>2. client'[c] = n
    BY <1>5 DEF Verifies, Receives
  <2> HIDE DEF n, k
  <2> QED
    BY <1>2, <2>1, <2>2, TiedSame DEF Asks, Has
<1> QED
  BY <1>1, <1>3, <1>4, <1>5

(* Every queue a client still has is a part of the one it had. *)
Parts(l, m) == m.queue = l.queue \/ m.queue = <<>> \/ Pops(l, m)

LEMMA NamedParts ==
    ASSUME NEW l, LinkOK(l), NEW m, Parts(l, m), QueueNamed(l.queue)
    PROVE  QueueNamed(m.queue)
<1>1. CASE m.queue = l.queue \/ m.queue = <<>>
  BY <1>1 DEF QueueNamed
<1>2. CASE Pops(l, m)
  BY <1>2, KeptMessage DEF QueueNamed
<1> QED
  BY <1>1, <1>2 DEF Parts

(* A client's step: the others stay, and its own queue loses something. *)
LEMMA ClientParts ==
    ASSUME TypeInv, NEW c \in Clients, OneClient(c)
    PROVE  /\ OthersStay(c) /\ Parts(link[c], link'[c]) /\ ClientOK(client'[c])
           /\ UNCHANGED <<game, saved, captures, log>>
<1>1. CASE Starts(c) \/ SendCommand(c)
  BY <1>1, BeginAsks, SendCommandAsks DEF Starts, Asked, Parts
<1>2. CASE ReceiveRefused(c) \/ Negotiate(c) \/ ConsumeUnsolicited(c) \/ ReceiveAnswer(c)
  <2>1. \E n : Receives(c, n)
    <3>1. CASE ReceiveRefused(c)
      BY <3>1, RefusedReceives
    <3>2. CASE Negotiate(c)
      BY <3>2, NegotiateReceives DEF Misplaces, Completes, Proceeds
    <3>3. CASE ConsumeUnsolicited(c)
      BY <3>3, UnsolicitedReceives
    <3>4. CASE ReceiveAnswer(c)
      BY <3>4, AnswerReceives DEF Accepts, Declines, Verifies
    <3> QED
      BY <1>2, <3>1, <3>2, <3>3, <3>4
  <2> QED
    BY <2>1 DEF Receives, Parts
<1>3. CASE \E n : Rests(c, n)
  BY <1>3 DEF Rests, Parts
<1> QED
  BY <1>1, <1>2, <1>3 DEF OneClient

LEMMA NamedClient ==
    ASSUME TypeInv, NamedInv, NEW c \in Clients, OneClient(c)
    PROVE  ClientTied(client'[c]) /\ \A i \in DOMAIN inbox' : RequestTied(inbox'[i])
<1> DEFINE k == client[c]
<1>0. /\ ClientOK(k) /\ ClientTied(k) /\ inbox \in Seq(RequestType)
      /\ \A i \in DOMAIN inbox : RequestTied(inbox[i])
  BY DEF TypeInv, NamedInv
<1>1. ASSUME NEW q \in RequestType, inbox' = Append(inbox, q), RequestTied(q)
      PROVE  \A i \in DOMAIN inbox' : RequestTied(inbox'[i])
  <2>1. \A i \in DOMAIN Append(inbox, q) :
           Append(inbox, q)[i] = q \/ (i \in DOMAIN inbox /\ Append(inbox, q)[i] = inbox[i])
    BY <1>0
  <2> QED
    BY <1>0, <1>1, <2>1
<1>2. \A n \in Nat : RequestTied(ResyncRequestOf(n))
  BY DEF ResyncRequestOf, RequestTied
<1>3. CASE Starts(c)
  <2>1. PICK phase \in {"syncing", "probing"} : Begin(c, phase)
    BY <1>3 DEF Starts
  <2>2. /\ Asked(c, ResyncRequestOf(requests + 1))
        /\ Asks(k, client'[c], phase, requests + 1, captures)
    BY <2>1, BeginAsks
  <2>3. ClientTied(client'[c])
    BY <1>0, <2>2, TiedSame DEF Asks, Has
  <2>4. requests + 1 \in Nat
    BY DEF TypeInv
  <2> QED
    BY <1>1, <1>2, <2>2, <2>3, <2>4 DEF Asked
<1>4. CASE SendCommand(c)
  <2>1. PICK q \in CommandType : Asked(c, q) /\ CommandOf(c, q, client'[c])
    BY <1>4, SendCommandAsks
  <2>2. /\ client'[c].rejecting = k.rejecting /\ client'[c].home = k.home
        /\ client'[c].inst = k.inst /\ client'[c].snap = k.snap /\ Has(k)
    <3>1. Has(k)
      BY <2>1 DEF CommandOf, Has
    <3>2. Commands(k, client'[c], q)
      BY <2>1, CommandTyped
    <3> QED
      BY <3>1, <3>2 DEF Commands
  <2>3. ClientTied(client'[c])
    BY <1>0, <2>2, TiedSame
  <2>4. q.prior \in Ident
    BY <2>1 DEF CommandOf, SnapType
  <2>5. RequestTied(q)
    BY <1>0, <2>1, <2>2, <2>4 DEF CommandOf, RequestTied, ClientTied
  <2> QED
    BY <1>1, <2>1, <2>3, <2>5 DEF Asked
<1>5. CASE ReceiveRefused(c)
  <2>1. Receives(c, Raised(k)) /\ inbox' = inbox
    BY <1>5, RefusedReceives
  <2>2. /\ ViewSame(k, Raised(k)) /\ Raised(k).home = k.home
        /\ Raised(k).state \in {"failed", k.state} /\ client'[c] = Raised(k)
    BY <1>0, <2>1, RaisedTyped DEF Receives
  <2>3. ClientTied(client'[c])
    BY <1>0, <2>2, TiedSame DEF ViewSame, Has
  <2> QED
    BY <1>0, <2>1, <2>3
<1>6. CASE Negotiate(c)
  BY <1>0, <1>6, NamedNegotiate, NegotiateReceives
<1>7. CASE ConsumeUnsolicited(c)
  BY <1>0, <1>7, NamedUnsolicited, UnsolicitedReceives
<1>8. CASE ReceiveAnswer(c)
  <2>1. \A i \in DOMAIN inbox' : RequestTied(inbox'[i])
    <3>1. CASE inbox' = inbox
      BY <1>0, <3>1
    <3>2. CASE inbox' = Append(inbox, ResyncRequestOf(requests + 1))
      <4>1. requests + 1 \in Nat /\ ResyncRequestOf(requests + 1) \in RequestType
        BY DEF TypeInv, ResyncRequestOf, RequestType
      <4> QED
        BY <1>1, <1>2, <3>2, <4>1
    <3> QED
      BY <1>8, <3>1, <3>2, AnswerReceives DEF Accepts, Declines, Verifies
  <2> QED
    BY <1>8, <2>1, NamedAnswer
<1>9. CASE \E n : Rests(c, n)
  <2>1. PICK n : Rests(c, n)
    BY <1>9
  <2>2. client'[c] = n /\ inbox' = inbox
    BY <2>1 DEF Rests
  <2>3. CASE Stopped(k, n)
    <3>1. ClientTied(n)
      BY <1>0, <2>3, TiedSame DEF Stopped, ViewSame, Has
    <3> QED
      BY <1>0, <2>2, <3>1
  <2>4. CASE Renewed(k, n)
    <3>1. ClientTied(n)
      BY <2>4 DEF Renewed, ClientTied, Has
    <3> QED
      BY <1>0, <2>2, <3>1
  <2> QED
    BY <2>1, <2>3, <2>4 DEF Rests
<1> QED
  BY <1>3, <1>4, <1>5, <1>6, <1>7, <1>8, <1>9 DEF OneClient

LEMMA NamedNext ==
    ASSUME TypeInv, NamedInv, [Next]_vars
    PROVE  NamedInv'
<1>1. CASE ScriptStep \/ GameStep
  <2>1. client' = client
    BY <1>1 DEF ScriptStep, GameStep, Heartbeat, HandleResync, SendWorld, HandleCommand,
                ExecuteSetCompanyName, AnswerSetCompanyName, Save, LoadGame, StartNewGame,
                Restart, Rename
  <2> QED
    BY <1>1, <2>1, NamedGamesNext, NamedRequestsNext DEF NamedInv, NamedGames, NamedRequests
<1>2. CASE OthersRequest
  <2>1. PICK q \in RequestType :
          /\ inbox' = Append(inbox, q)
          /\ q = ResyncRequestOf(requests + 1) \/ q.home = 0
    BY <1>2, OthersRequestTyped
  <2>2. RequestTied(q)
    BY <2>1 DEF RequestTied, ResyncRequestOf
  <2>3. inbox \in Seq(RequestType) /\ \A i \in DOMAIN inbox : RequestTied(inbox[i])
    BY DEF TypeInv, NamedInv
  <2>4. \A i \in DOMAIN Append(inbox, q) :
           Append(inbox, q)[i] = q \/ (i \in DOMAIN inbox /\ Append(inbox, q)[i] = inbox[i])
    BY <2>3
  <2>5. \A i \in DOMAIN inbox' : RequestTied(inbox'[i])
    BY <2>1, <2>2, <2>3, <2>4
  <2> QED
    BY <1>2, <2>5, OthersRequestTyped DEF NamedInv, ResumedInTheSameGame
<1>3. ASSUME NEW c \in Clients, OneClient(c)
      PROVE  NamedInv'
  <2>1. /\ OthersStay(c) /\ Parts(link[c], link'[c])
        /\ UNCHANGED <<game, saved, captures, log>>
    BY <1>3, ClientParts
  <2>2. ClientTied(client'[c]) /\ \A i \in DOMAIN inbox' : RequestTied(inbox'[i])
    BY <1>3, NamedClient
  <2>3. QueueNamed(link'[c].queue)
    BY <2>1, NamedParts DEF TypeInv, NamedInv
  <2>4. \A d \in Clients : QueueNamed(link'[d].queue) /\ ClientTied(client'[d])
    BY <2>1, <2>2, <2>3 DEF OthersStay, NamedInv
  <2> QED
    BY <2>1, <2>2, <2>4 DEF NamedInv, ResumedInTheSameGame
<1>4. CASE UNCHANGED vars
  BY <1>4 DEF vars, NamedInv, ResumedInTheSameGame
<1> QED
  BY <1>1, <1>2, <1>3, <1>4, StepCases

(* A process that resumed a task takes nothing from another instance of    *)
(* the script, so that its commands name snapshots of its own game; the    *)
(* script carries out none that names another (reject_instance_change,     *)
(* prior_snapshot_id).  This holds however often the game is replaced.     *)
THEOREM ResumesItsOwnGame == Spec => []ResumedInTheSameGame
<1>1. NamedInv => ResumedInTheSameGame
  BY DEF NamedInv
<1> QED
  BY <1>1, BridgeTypes, NamedInit, NamedNext, PTL DEF Spec

================================================================================
