---------------------------- MODULE BridgeFreshness ----------------------------
(***************************************************************************)
(* What a client of the OpenTTD bridge may believe: that what it has is    *)
(* newer than its request, that a success it reports has happened, and     *)
(* that its commands and its world are of one capture.                     *)
(***************************************************************************)
EXTENDS BridgeProofs

USE BridgeAssumption, CompositionAssumption

--------------------------------------------------------------------------------
(***************************************************************************)
(* The steps of the script and of the game, by what they send.             *)
(***************************************************************************)
Quiet == link' = link /\ game'.doing = game.doing

LEMMA ScriptCases ==
    ASSUME TypeInv, ScriptStep \/ GameStep
    PROVE  /\ Quiet \/ ChatSteps \/ HandleResync \/ SendWorld
           /\ client' = client /\ requests' = requests
           /\ captures' = captures \/ HandleResync
<1>1. game \in GameType
  BY DEF TypeInv
<1>2. CASE Save
  BY <1>2 DEF Save, Quiet
<1>3. CASE Rename
  <2>1. PICK name \in Names : game' = [game EXCEPT !.name = name]
    BY <1>3 DEF Rename
  <2>2. game'.doing = game.doing
    BY <1>1, <2>1 DEF GameType
  <2> QED
    BY <1>3, <2>2 DEF Rename, Quiet
<1>4. CASE ChatSteps \/ HandleResync \/ SendWorld
  BY <1>4 DEF ChatSteps, Heartbeat, HandleResync, SendWorld, HandleCommand,
              ExecuteSetCompanyName, AnswerSetCompanyName, LoadGame, StartNewGame, Restart
<1> QED
  BY <1>2, <1>3, <1>4 DEF ScriptStep, GameStep, ChatSteps

(* What a handshake consists of. *)
LEMMA HandshakeMessages ==
    ASSUME NEW g \in GameType, NEW request \in Nat, NEW number \in Nat
    PROVE  LET h == Handshake(g, request, number)
           IN  /\ Len(h) = 4
               /\ \A i \in DOMAIN h :
                    /\ h[i].type \in {"hello", "capabilities", "resync_response", "state_snapshot"}
                    /\ h[i].correlation \in {request, 0}
<1> DEFINE h == Handshake(g, request, number)
<1>1. /\ Bodies(h) /\ DOMAIN h = 1..4
      /\ h[1].type = "hello" /\ h[2].type = "capabilities"
      /\ h[3].type = "resync_response" /\ h[4].type = "state_snapshot"
      /\ h[4].number = number
  BY HandshakeTyped
<1>2. Len(h) = 4
  BY HandshakeTyped
<1>3. /\ h[1].correlation = request /\ h[2].correlation = request
      /\ h[3].correlation = request /\ h[4].correlation = 0
  BY HandshakeTyped
<1> HIDE DEF h
<1>4. ASSUME NEW i \in DOMAIN h
      PROVE  /\ h[i].type \in {"hello", "capabilities", "resync_response", "state_snapshot"}
             /\ h[i].correlation \in {request, 0}
  <2>1. i = 1 \/ i = 2 \/ i = 3 \/ i = 4
    BY <1>1
  <2> QED
    BY <1>1, <1>3, <2>1
<1> QED
  BY <1>2, <1>4 DEF h

LEMMA HandshakeSnapshot ==
    ASSUME NEW g \in GameType, NEW request \in Nat, NEW number \in Nat
    PROVE  LET h == Handshake(g, request, number)
           IN  /\ Len(h) = 4
               /\ \A i \in DOMAIN h : h[i].type = "state_snapshot" =>
                    h[i].ref = <<g.inst, g.seq + 4>> /\ h[i].number = number
<1> DEFINE h == Handshake(g, request, number)
<1>1. /\ Len(h) = 4 /\ DOMAIN h = 1..4
      /\ h[1].type = "hello" /\ h[2].type = "capabilities" /\ h[3].type = "resync_response"
      /\ h[4].ref = <<g.inst, g.seq + 4>> /\ h[4].number = number
  BY HandshakeTyped
<1> HIDE DEF h
<1>2. ASSUME NEW i \in DOMAIN h, h[i].type = "state_snapshot"
      PROVE  i = 4
  BY <1>1, <1>2
<1>3. \A i \in DOMAIN h : h[i].type = "state_snapshot" =>
         h[i].ref = <<g.inst, g.seq + 4>> /\ h[i].number = number
  BY <1>1, <1>2
<1> QED
  BY <1>1, <1>3 DEF h

(* What stays of a queue that grows, and of one that loses its first. *)
LEMMA GrownBefore ==
    ASSUME NEW s \in Seq(MessageType), NEW t, NEW bodies, Bodies(bodies), NEW g,
           Grown(s, t, bodies, g), NEW i \in DOMAIN s
    PROVE  i \in DOMAIN t /\ t[i] = s[i]
<1>1. /\ t \in Seq(MessageType) /\ Len(t) = Len(s) + Len(bodies) /\ Len(s) \in Nat
      /\ Len(bodies) \in Nat /\ i \in 1..Len(s)
  BY DEF Grown, Bodies
<1> QED
  BY <1>1 DEF Grown

LEMMA GrownAfter ==
    ASSUME NEW s \in Seq(MessageType), NEW t, NEW bodies, Bodies(bodies), NEW g,
           Grown(s, t, bodies, g), NEW j \in DOMAIN bodies
    PROVE  /\ Len(s) + j \in DOMAIN t /\ t[Len(s) + j].body = bodies[j]
           /\ j \in Nat \ {0} /\ Len(s) \in Nat
<1>1. /\ t \in Seq(MessageType) /\ Len(t) = Len(s) + Len(bodies) /\ Len(s) \in Nat
      /\ Len(bodies) \in Nat /\ j \in 1..Len(bodies)
  BY DEF Grown, Bodies
<1>2. t[Len(s) + j] = [inst |-> g.inst, seq |-> g.seq + j, body |-> bodies[j]]
  BY <1>1, Zenon DEF Grown
<1>3. t[Len(s) + j].body = bodies[j]
  BY <1>2
<1> QED
  BY <1>1, <1>3

LEMMA ShrunkMessage ==
    ASSUME NEW s \in Seq(MessageType), NEW t, Shrunk(s, t), NEW i \in DOMAIN t
    PROVE  i + 1 \in DOMAIN s /\ t[i] = s[i + 1] /\ i \in Nat \ {0}
  BY DEF Shrunk

--------------------------------------------------------------------------------
(***************************************************************************)
(* The stream: the parts of a world follow one another.                    *)
(***************************************************************************)
LEMMA StreamSame ==
    ASSUME NEW s, NEW g, NEW h, StreamOf(s, g), h.doing = g.doing
    PROVE  StreamOf(s, h)
  BY DEF StreamOf, LastIsPart, Underway, SendingWorld

LEMMA StreamEmpty == ASSUME NEW g PROVE StreamOf(<<>>, g)
  BY DEF StreamOf, PartsFollow, Handshakes, LastIsPart

LEMMA StreamShrunk ==
    ASSUME NEW s \in Seq(MessageType), NEW t, Shrunk(s, t), NEW g, StreamOf(s, g)
    PROVE  StreamOf(t, g)
<1>1. /\ t \in Seq(MessageType) /\ Len(t) = Len(s) - 1 /\ Len(t) \in Nat /\ Len(s) \in Nat
      /\ s # <<>> /\ DOMAIN t = 1..Len(t) /\ DOMAIN s = 1..Len(s)
  BY DEF Shrunk
<1>2. \A i \in DOMAIN t : i \in Nat \ {0} /\ i + 1 \in DOMAIN s /\ t[i] = s[i + 1]
  BY ShrunkMessage
<1>3. PartsFollow(t)
  <2> SUFFICES ASSUME NEW i \in DOMAIN t, i > 1, IsPart(t[i])
               PROVE  OfWorld(t[i - 1]) /\ Number(t[i - 1]) = Number(t[i])
    BY DEF PartsFollow
  <2>1. i - 1 \in DOMAIN t /\ t[i - 1] = s[i] /\ t[i] = s[i + 1] /\ i + 1 \in DOMAIN s
        /\ i + 1 > 1 /\ (i + 1) - 1 = i
    BY <1>1, <1>2
  <2>2. OfWorld(s[(i + 1) - 1]) /\ Number(s[(i + 1) - 1]) = Number(s[i + 1])
    BY <2>1, Zenon DEF StreamOf, PartsFollow
  <2> QED
    BY <2>1, <2>2
<1>4. Handshakes(t)
  <2> SUFFICES ASSUME NEW i \in DOMAIN t, t[i].body.type = "resync_response"
               PROVE  /\ i + 1 \in DOMAIN t /\ t[i + 1].body.type = "state_snapshot"
                      /\ i > 1 => t[i - 1].body.type = "capabilities"
                      /\ i > 2 => t[i - 2].body.type = "hello"
    BY DEF Handshakes
  <2>1. i \in Nat \ {0} /\ i + 1 \in DOMAIN s /\ t[i] = s[i + 1]
    BY <1>2
  <2>2. /\ (i + 1) + 1 \in DOMAIN s /\ s[(i + 1) + 1].body.type = "state_snapshot"
        /\ i + 1 > 1 => s[(i + 1) - 1].body.type = "capabilities"
        /\ i + 1 > 2 => s[(i + 1) - 2].body.type = "hello"
    BY <2>1, Zenon DEF StreamOf, Handshakes
  <2>3. i + 1 \in DOMAIN t
    BY <1>1, <2>1, <2>2
  <2>4. t[i + 1] = s[(i + 1) + 1]
    BY <1>2, <2>3
  <2>5. i > 1 => i - 1 \in DOMAIN t /\ (i - 1) + 1 = i /\ (i + 1) - 1 = i
    BY <1>1, <2>1
  <2>6. i > 2 => i - 2 \in DOMAIN t /\ (i - 2) + 1 = i - 1 /\ (i + 1) - 2 = i - 1
    BY <1>1, <2>1
  <2>7. i > 1 => t[i - 1] = s[(i + 1) - 1]
    BY <1>2, <2>5
  <2>8. i > 2 => t[i - 2] = s[(i + 1) - 2]
    BY <1>2, <2>6
  <2>9. (i > 1 => i + 1 > 1) /\ (i > 2 => i + 1 > 2)
    BY <2>1
  <2> QED
    BY <2>2, <2>3, <2>4, <2>7, <2>8, <2>9, Zenon
<1>5. LastIsPart(t, g)
  <2> SUFFICES ASSUME Underway(g), t # <<>>
               PROVE  OfWorld(t[Len(t)]) /\ Number(t[Len(t)]) = g.doing.number
    BY DEF LastIsPart
  <2>1. Len(t) \in DOMAIN t /\ Len(t) + 1 = Len(s)
    BY <1>1
  <2>2. t[Len(t)] = s[Len(s)]
    BY <1>2, <2>1
  <2>3. LastIsPart(s, g)
    BY DEF StreamOf
  <2>4. OfWorld(s[Len(s)]) /\ Number(s[Len(s)]) = g.doing.number
    BY <1>1, <2>3 DEF LastIsPart
  <2> QED
    BY <2>2, <2>4
<1> QED
  BY <1>3, <1>4, <1>5 DEF StreamOf

(* A message that is where it may be. *)
Placed(s, i) ==
    /\ i > 1 /\ IsPart(s[i])
         => OfWorld(s[i - 1]) /\ Number(s[i - 1]) = Number(s[i])
    /\ s[i].body.type = "resync_response"
         => /\ i + 1 \in DOMAIN s /\ s[i + 1].body.type = "state_snapshot"
            /\ i > 1 => s[i - 1].body.type = "capabilities"
            /\ i > 2 => s[i - 2].body.type = "hello"

LEMMA StreamPlaced ==
    ASSUME NEW s, NEW g
    PROVE  StreamOf(s, g) <=> (\A i \in DOMAIN s : Placed(s, i)) /\ LastIsPart(s, g)
<1>1. PartsFollow(s) /\ Handshakes(s) <=> \A i \in DOMAIN s : Placed(s, i)
  BY DEF PartsFollow, Handshakes, Placed
<1> QED
  BY <1>1 DEF StreamOf

LEMMA KeptPlaced ==
    ASSUME NEW s \in Seq(MessageType), NEW t, NEW bodies, Bodies(bodies), NEW g,
           Grown(s, t, bodies, g), NEW i \in DOMAIN s, Placed(s, i)
    PROVE  Placed(t, i)
<1>1. \A j \in DOMAIN s : j \in DOMAIN t /\ t[j] = s[j]
  BY GrownBefore
<1>2. i \in Nat \ {0} /\ (i > 1 => i - 1 \in DOMAIN s) /\ (i > 2 => i - 2 \in DOMAIN s)
  OBVIOUS
<1>3. t[i] = s[i] /\ (i > 1 => t[i - 1] = s[i - 1]) /\ (i > 2 => t[i - 2] = s[i - 2])
      /\ (i + 1 \in DOMAIN s => i + 1 \in DOMAIN t /\ t[i + 1] = s[i + 1])
  BY <1>1, <1>2
<1> QED
  BY <1>3, Zenon DEF Placed

(* What is sent that is no part of a world and no response. *)
LEMMA StreamChats ==
    ASSUME NEW s \in Seq(MessageType), NEW t, NEW bodies, Bodies(bodies), NEW g,
           Grown(s, t, bodies, g), Chatter(bodies), StreamOf(s, g),
           NEW h, ~SendingWorld(h)
    PROVE  StreamOf(t, h)
<1>1. LastIsPart(t, h)
  BY DEF LastIsPart, Underway
<1>2. ASSUME NEW i \in DOMAIN t
      PROVE  Placed(t, i)
  <2>1. CASE Kept(s, t, i)
    BY <2>1, KeptPlaced, StreamPlaced DEF Kept
  <2>2. CASE Added(s, t, i, bodies, g)
    <3>1. PICK j \in DOMAIN bodies : t[i].body = bodies[j]
      BY <2>2 DEF Added
    <3>2. t[i].body.type \notin Telling \cup {"resync_response"}
      BY <3>1 DEF Chatter
    <3> QED
      BY <3>2 DEF Placed, IsPart, Telling, WorldTypes
  <2> QED
    BY <2>1, <2>2, GrownMessage
<1> QED
  BY <1>1, <1>2, StreamPlaced

(* The handshake of a resync, whose world begins later. *)
LEMMA StreamAnswered ==
    ASSUME NEW s \in Seq(MessageType), NEW t, NEW g \in GameType, NEW request \in Nat,
           NEW number \in Nat, Grown(s, t, Handshake(g, request, number), g), StreamOf(s, g),
           NEW h, h.doing.next = 0
    PROVE  StreamOf(t, h)
<1> DEFINE b == Handshake(g, request, number)
<1>0. /\ Bodies(b) /\ DOMAIN b = 1..4
      /\ b[1].type = "hello" /\ b[2].type = "capabilities"
      /\ b[3].type = "resync_response" /\ b[4].type = "state_snapshot"
  BY HandshakeTyped
<1>1. LastIsPart(t, h)
  BY DEF LastIsPart, Underway
<1>4. Grown(s, t, b, g)
  OBVIOUS
<1> HIDE DEF b
<1>2. /\ Len(s) \in Nat
      /\ \A j \in {1, 2, 3, 4} : Len(s) + j \in DOMAIN t /\ t[Len(s) + j].body = b[j]
  <2>1. Len(s) \in Nat
    OBVIOUS
  <2>2. ASSUME NEW j \in DOMAIN b
        PROVE  Len(s) + j \in DOMAIN t /\ t[Len(s) + j].body = b[j]
    <3>1. Bodies(b)
      BY <1>0
    <3>2. Len(s) + j \in DOMAIN t
      BY <1>4, <3>1, GrownAfter
    <3>3. t[Len(s) + j].body = b[j]
      BY <1>4, <3>1, GrownAfter, SMT
    <3> QED
      BY <3>2, <3>3
  <2> QED
    BY <1>0, <2>1, <2>2
<1>3. ASSUME NEW i \in DOMAIN t
      PROVE  Placed(t, i)
  <2>1. CASE Kept(s, t, i)
    BY <1>0, <1>4, <2>1, KeptPlaced, StreamPlaced DEF Kept
  <2>2. CASE Added(s, t, i, b, g)
    <3>1. PICK j \in DOMAIN b : i = Len(s) + j /\ t[i].body = b[j]
      BY <2>2 DEF Added
    <3>2. j \in {1, 2, 3, 4}
      BY <1>0
    <3>3. ~IsPart(t[i])
      BY <1>0, <3>1, <3>2 DEF IsPart, PartTypes
    <3>4. CASE j # 3
      <4>1. t[i].body.type # "resync_response"
        BY <1>0, <3>1, <3>2, <3>4
      <4> QED
        BY <3>3, <4>1 DEF Placed
    <3>5. CASE j = 3
      <4>1. i + 1 = Len(s) + 4 /\ i - 1 = Len(s) + 2 /\ i - 2 = Len(s) + 1
        BY <1>2, <3>1, <3>5
      <4>2. /\ i + 1 \in DOMAIN t /\ t[i + 1].body = b[4]
            /\ t[i - 1].body = b[2] /\ t[i - 2].body = b[1]
        BY <1>2, <4>1
      <4> QED
        BY <1>0, <3>3, <4>2 DEF Placed
    <3> QED
      BY <3>4, <3>5
  <2> QED
    BY <1>0, <1>4, <2>1, <2>2, GrownMessage
<1> QED
  BY <1>1, <1>3, StreamPlaced

(* The next message of a world. *)
LEMMA StreamContinued ==
    ASSUME NEW s \in Seq(MessageType), NEW t, NEW g \in GameType, SendingWorld(g),
           Grown(s, t, <<WorldMessage(g.doing)>>, g), StreamOf(s, g),
           NEW h, SendingWorld(h) => h.doing.number = g.doing.number
    PROVE  StreamOf(t, h)
<1> DEFINE d == g.doing  b == WorldMessage(d)
<1>0. /\ BodyOK(b) /\ b.type \in WorldTypes /\ b.number = d.number
      /\ b.type = "world_manifest" <=> d.next = 0
      /\ d.next \in Nat
  <2>1. d \in [handler : {"world"}, next : Nat, number : Nat, ref : Ident]
    BY DoingTyped
  <2> HIDE DEF d
  <2> QED
    BY <2>1, WorldTyped
<1>1. Bodies(<<b>>) /\ DOMAIN <<b>> = {1} /\ <<b>>[1] = b
  BY <1>0, OneBody
<1>2. Grown(s, t, <<b>>, g)
  OBVIOUS
<1> HIDE DEF b
<1>3. Underway(g) => b.type \in PartTypes
  BY <1>0 DEF Underway, WorldTypes
<1>4. b.type \in PartTypes => Underway(g)
  BY <1>0 DEF Underway, PartTypes
<1>5. /\ Len(s) + 1 \in DOMAIN t /\ t[Len(s) + 1].body = b
      /\ Len(t) = Len(s) + 1 /\ Len(s) \in Nat
      /\ Len(s) = 0 <=> s = <<>>
  <2>1. Len(s) + 1 \in DOMAIN t /\ t[Len(s) + 1].body = b /\ Len(s) \in Nat
    <3> DEFINE w == <<b>>
    <3>1. Bodies(w) /\ Grown(s, t, w, g) /\ 1 \in DOMAIN w /\ w[1] = b
      BY <1>1, <1>2
    <3> HIDE DEF w
    <3>2. ASSUME NEW j \in DOMAIN w
          PROVE  Len(s) + j \in DOMAIN t /\ t[Len(s) + j].body = w[j] /\ Len(s) \in Nat
      BY <3>1, GrownAfter
    <3> QED
      BY <3>1, <3>2
  <2>2. Len(t) = Len(s) + 1
    BY <1>1, <1>2 DEF Grown
  <2> QED
    BY <2>1, <2>2
<1>6. LastIsPart(t, h)
  <2>1. Underway(h) => h.doing.number = d.number
    BY DEF Underway
  <2>2. OfWorld(t[Len(t)]) /\ Number(t[Len(t)]) = d.number
    BY <1>0, <1>5 DEF OfWorld, Number
  <2> QED
    BY <2>1, <2>2 DEF LastIsPart
<1>7. ASSUME NEW i \in DOMAIN t
      PROVE  Placed(t, i)
  <2>1. CASE Kept(s, t, i)
    BY <1>1, <1>2, <2>1, KeptPlaced, StreamPlaced DEF Kept
  <2>2. CASE Added(s, t, i, <<b>>, g)
    <3>1. i = Len(s) + 1 /\ t[i].body = b
      BY <1>1, <1>5, <2>2 DEF Added
    <3>2. b.type # "resync_response"
      BY <1>0 DEF WorldTypes, PartTypes
    <3>3. ASSUME i > 1, IsPart(t[i])
          PROVE  OfWorld(t[i - 1]) /\ Number(t[i - 1]) = Number(t[i])
      <4>1. Underway(g) /\ s # <<>> /\ i - 1 = Len(s) /\ Len(s) \in DOMAIN s
        BY <1>4, <1>5, <3>1, <3>3 DEF IsPart
      <4>2. LastIsPart(s, g)
        BY DEF StreamOf
      <4>3. OfWorld(s[Len(s)]) /\ Number(s[Len(s)]) = d.number
        BY <4>1, <4>2 DEF LastIsPart
      <4>4. t[Len(s)] = s[Len(s)]
        BY <1>1, <1>2, <4>1, GrownBefore
      <4> QED
        BY <1>0, <3>1, <4>1, <4>3, <4>4 DEF Number
    <3> QED
      BY <3>1, <3>2, <3>3 DEF Placed
  <2> QED
    BY <1>1, <1>2, <2>1, <2>2, GrownMessage
<1> QED
  BY <1>6, <1>7, StreamPlaced

(* A connection that is down carries nothing. *)
LEMMA StreamHeard ==
    ASSUME NEW l, LinkOK(l), NEW m, NEW bodies, NEW g, Hears(l, m, bodies, g), NEW h,
           Grown(l.queue, m.queue, bodies, g) => StreamOf(m.queue, h)
    PROVE  StreamOf(m.queue, h)
<1>1. CASE l.up
  BY <1>1 DEF Hears
<1>2. CASE ~l.up
  <2>1. m.queue = <<>>
    BY <1>2 DEF Hears, LinkOK
  <2> QED
    BY <2>1, StreamEmpty
<1> QED
  BY <1>1, <1>2

LEMMA StreamScript ==
    ASSUME TypeInv, StreamInv, ScriptStep \/ GameStep
    PROVE  StreamInv'
<1> SUFFICES ASSUME NEW c \in Clients
             PROVE  StreamOf(link'[c].queue, game')
  BY DEF StreamInv
<1>1. /\ game \in GameType /\ LinkOK(link[c]) /\ StreamOf(link[c].queue, game)
      /\ link[c].queue \in Seq(MessageType)
  BY DEF TypeInv, LinkOK, StreamInv
<1>2. CASE Quiet
  BY <1>1, <1>2, StreamSame DEF Quiet
<1>3. CASE ChatSteps
  <2>1. PICK bodies, after :
           Broadcasts(bodies, after) /\ Chatter(bodies) /\ ~SendingWorld(after)
    BY <1>3, ChatStepsChat
  <2>2. /\ Bodies(bodies) /\ Hears(link[c], link'[c], bodies, game)
        /\ ~SendingWorld(game')
    BY <2>1 DEF Broadcasts, GameSame, SendingWorld
  <2>3. Grown(link[c].queue, link'[c].queue, bodies, game) => StreamOf(link'[c].queue, game')
    BY <1>1, <2>1, <2>2, StreamChats
  <2> QED
    BY <1>1, <2>2, <2>3, StreamHeard
<1>4. CASE HandleResync
  <2> DEFINE request == inbox[1].request
             bodies  == Handshake(game, request, captures + 1)
             after   == AfterHandshake(game, captures + 1)
  <2>1. Broadcasts(bodies, after) /\ request \in Nat
    BY <1>4, ResyncSends
  <2>2. captures + 1 \in Nat
    BY DEF TypeInv
  <2>3. after.doing.next = 0
    <3>1. after.doing = [handler |-> "world", next |-> 0, number |-> captures + 1,
                         ref |-> <<game.inst, game.seq + 5>>]
      BY <1>1, <2>2, AfterHandshakeTyped
    <3> HIDE DEF after
    <3> QED
      BY <3>1
  <2>4. Hears(link[c], link'[c], bodies, game) /\ game'.doing.next = 0
    <3> HIDE DEF bodies, after
    <3> QED
      BY <2>1, <2>3 DEF Broadcasts, GameSame
  <2>5. Grown(link[c].queue, link'[c].queue, bodies, game) => StreamOf(link'[c].queue, game')
    BY <1>1, <2>1, <2>2, <2>4, StreamAnswered
  <2> QED
    BY <1>1, <2>4, <2>5, StreamHeard
<1>5. CASE SendWorld
  <2> DEFINE bodies == <<WorldMessage(game.doing)>>
             after  == AfterWorldMessage(game)
  <2>1. Broadcasts(bodies, after) /\ SendingWorld(game)
    BY <1>5, WorldSends
  <2>2. SendingWorld(after) => after.doing.number = game.doing.number
    <3>1. after.doing = IF game.doing.next > Pages THEN None
                        ELSE [handler |-> "world", next |-> game.doing.next + 1,
                              number |-> game.doing.number, ref |-> game.doing.ref]
      BY <1>1, <2>1, AfterWorldTyped
    <3> HIDE DEF after
    <3> QED
      BY <3>1 DEF SendingWorld
  <2>3. /\ Hears(link[c], link'[c], bodies, game)
        /\ SendingWorld(game') => game'.doing.number = game.doing.number
    <3> HIDE DEF bodies, after
    <3> QED
      BY <2>1, <2>2 DEF Broadcasts, GameSame, SendingWorld
  <2>4. Grown(link[c].queue, link'[c].queue, bodies, game) => StreamOf(link'[c].queue, game')
    BY <1>1, <2>1, <2>3, StreamContinued
  <2> QED
    BY <1>1, <2>3, <2>4, StreamHeard
<1> QED
  BY <1>2, <1>3, <1>4, <1>5, ScriptCases

LEMMA StreamClient ==
    ASSUME TypeInv, StreamInv, NEW c \in Clients, OneClient(c)
    PROVE  StreamInv'
<1>1. OthersStay(c) /\ Parts(link[c], link'[c]) /\ game' = game
  BY ClientParts
<1>2. ASSUME NEW d \in Clients
      PROVE  StreamOf(link'[d].queue, game')
  <2>1. StreamOf(link[d].queue, game) /\ LinkOK(link[d])
    BY DEF StreamInv, TypeInv
  <2>2. CASE d # c
    BY <1>1, <2>1, <2>2 DEF OthersStay
  <2>3. CASE d = c
    <3>1. CASE link'[c].queue \in {<<>>, link[c].queue}
      BY <1>1, <2>1, <2>3, <3>1, StreamEmpty
    <3>2. CASE Pops(link[c], link'[c])
      <4>1. Shrunk(link[c].queue, link'[c].queue) /\ link[c].queue \in Seq(MessageType)
        BY <2>1, <2>3, <3>2 DEF Pops, LinkOK
      <4> QED
        BY <1>1, <2>1, <2>3, <4>1, StreamShrunk
    <3> QED
      BY <1>1, <3>1, <3>2 DEF Parts
  <2> QED
    BY <2>2, <2>3
<1> QED
  BY <1>2 DEF StreamInv

LEMMA StreamInit == Init => StreamInv
  BY StreamEmpty DEF Init, StreamInv

LEMMA StreamNext ==
    ASSUME TypeInv, StreamInv, [Next]_vars
    PROVE  StreamInv'
<1>1. CASE ScriptStep \/ GameStep
  BY <1>1, StreamScript
<1>2. CASE OthersRequest
  BY <1>2, OthersRequestTyped DEF StreamInv
<1>3. CASE \E c \in Clients : OneClient(c)
  BY <1>3, StreamClient
<1>4. CASE UNCHANGED vars
  BY <1>4 DEF vars, StreamInv
<1> QED
  BY <1>1, <1>2, <1>3, <1>4, StepCases

--------------------------------------------------------------------------------
(***************************************************************************)
(* Requests are numbered: no message answers one that is not sent yet.     *)
(***************************************************************************)
Answering(bodies) == \A i \in DOMAIN bodies : bodies[i].correlation <= requests

LEMMA AnsweringOne ==
    ASSUME NEW b, b.correlation <= requests
    PROVE  Answering(<<b>>)
  BY DEF Answering

LEMMA AnsweringTwo ==
    ASSUME NEW a, NEW b, a.correlation <= requests, b.correlation <= requests
    PROVE  Answering(<<a, b>>)
  BY DEF Answering

LEMMA NotChanging ==
    ASSUME NEW g, g.doing = None \/ g.doing.handler # "command"
    PROVE  DoingNumbered(g)
  BY DEF DoingNumbered, ChangingName

LEMMA ScriptAnswers ==
    ASSUME TypeInv, NumberInv, ChatSteps \/ HandleResync \/ SendWorld
    PROVE  \E bodies, after :
              Broadcasts(bodies, after) /\ Answering(bodies) /\ DoingNumbered(after)
<1>0. game \in GameType /\ requests \in Nat /\ captures + 1 \in Nat /\ DoingNumbered(game)
      /\ \A i \in DOMAIN inbox : inbox[i].request <= requests
  BY DEF TypeInv, NumberInv
<1>1. ASSUME NEW q \in CommandType, q.request <= requests
      PROVE  /\ Answering(<<Reject(q)>>) /\ Answering(<<Accept(q)>>) /\ Answering(<<Fail(q)>>)
             /\ Answering(<<Complete(q)>>) /\ Answering(<<Accept(q), Complete(q)>>)
  <2>1. /\ Reject(q).correlation <= requests /\ Accept(q).correlation <= requests
        /\ Fail(q).correlation <= requests /\ Complete(q).correlation <= requests
    BY <1>1, AnswerTyped
  <2> QED
    BY <2>1, AnsweringOne, AnsweringTwo
<1>2. Answering(Greeting)
  BY <1>0, GreetingTyped DEF Answering
<1>3. CASE Heartbeat
  <2>1. Body("heartbeat", 0).correlation <= requests
    BY <1>0, BodyTyped DEF MessageTypes
  <2> QED
    BY <1>3, <2>1, AnsweringOne, HeartbeatSends, NotChanging
<1>4. CASE HandleCommand
  <2> DEFINE q == inbox[1]
  <2>1. /\ q \in CommandType /\ q.request <= requests /\ game.doing = None
        /\ \/ Broadcasts(<<Reject(q)>>, game)
           \/ Broadcasts(<<Accept(q), Complete(q)>>, game)
    BY <1>0, <1>4, CommandSends
  <2> HIDE DEF q
  <2> QED
    BY <1>1, <2>1, NotChanging
<1>5. CASE ExecuteSetCompanyName
  <2> DEFINE q == inbox[1]
  <2>1. /\ q \in CommandType /\ q.request <= requests
        /\ \/ Broadcasts(<<Accept(q)>>, Renaming(game, q, TRUE))
           \/ Broadcasts(<<Accept(q)>>, Renaming(game, q, FALSE))
    BY <1>0, <1>5, ExecuteSends
  <2> HIDE DEF q
  <2>2. ASSUME NEW success \in BOOLEAN
        PROVE  DoingNumbered(Renaming(game, q, success))
    <3>1. Renaming(game, q, success).doing =
            [handler |-> "command", request |-> q, success |-> success]
      BY <1>0, <2>1, RenamingTyped
    <3> QED
      BY <2>1, <3>1 DEF DoingNumbered
  <2> QED
    BY <1>1, <2>1, <2>2
<1>6. CASE AnswerSetCompanyName
  <2> DEFINE q == game.doing.request  f == [game EXCEPT !.doing = None]
  <2>1. /\ q \in CommandType /\ ChangingName(game)
        /\ Broadcasts(<<Complete(q)>>, Executed(game)) \/ Broadcasts(<<Fail(q)>>, f)
    BY <1>6, AnswerSends
  <2>2. Executed(game).doing = None
    BY <1>0, <2>1, ExecutedTyped
  <2>3. f.doing = None
    BY <1>0 DEF GameType
  <2>4. q.request <= requests
    BY <1>0, <2>1 DEF DoingNumbered
  <2> HIDE DEF q, f
  <2> QED
    BY <1>1, <2>1, <2>2, <2>3, <2>4, NotChanging
<1>7. CASE LoadGame
  BY <1>2, <1>7, LoadSends, LoadTyped, NotChanging
<1>8. CASE StartNewGame
  BY <1>2, <1>8, NewGameSends, NewGameTyped, NotChanging
<1>9. CASE HandleResync
  <2> DEFINE h == Handshake(game, inbox[1].request, captures + 1)
             a == AfterHandshake(game, captures + 1)
  <2>1. Broadcasts(h, a) /\ inbox[1].request \in Nat
    BY <1>9, ResyncSends
  <2>2. 1 \in DOMAIN inbox
    BY <1>9, ResyncSends
  <2>3. inbox[1].request <= requests
    BY <1>0, <2>2, Zenon
  <2>4. \A i \in DOMAIN h : h[i].correlation \in {inbox[1].request, 0}
    <3>1. game \in GameType /\ captures + 1 \in Nat /\ inbox[1].request \in Nat
      BY <1>0, <2>1
    <3> QED
      BY <3>1, HandshakeMessages
  <2>5. a.doing = [handler |-> "world", next |-> 0, number |-> captures + 1,
                   ref |-> <<game.inst, game.seq + 5>>]
    BY <1>0, AfterHandshakeTyped
  <2> HIDE DEF h, a
  <2>6. Answering(h)
    BY <1>0, <2>3, <2>4 DEF Answering
  <2>7. DoingNumbered(a)
    BY <2>5, NotChanging
  <2> QED
    BY <2>1, <2>6, <2>7
<1>10. CASE SendWorld
  <2> DEFINE w == WorldMessage(game.doing)  a == AfterWorldMessage(game)
  <2>1. /\ Broadcasts(<<w>>, a) /\ SendingWorld(game)
        /\ w.correlation <= requests
    BY <1>0, <1>10, WorldSends, WorldTyped
  <2>2. a.doing = IF game.doing.next > Pages THEN None
                  ELSE [handler |-> "world", next |-> game.doing.next + 1,
                        number |-> game.doing.number, ref |-> game.doing.ref]
    BY <1>0, <2>1, AfterWorldTyped
  <2> HIDE DEF w, a
  <2>3. DoingNumbered(a)
    BY <2>2, NotChanging
  <2> QED
    BY <2>1, <2>3, AnsweringOne
<1> QED
  BY <1>3, <1>4, <1>5, <1>6, <1>7, <1>8, <1>9, <1>10 DEF ChatSteps

(* What is left of the inbox was in it. *)
LEMMA InboxLeft ==
    ASSUME TypeInv, ScriptStep \/ GameStep, NEW i \in DOMAIN inbox'
    PROVE  \E j \in DOMAIN inbox : inbox'[i] = inbox[j]
<1>1. CASE inbox' = inbox \/ inbox' = <<>>
  BY <1>1
<1>2. CASE inbox' = Tail(inbox) /\ inbox # <<>>
  BY <1>2, HeadOfInbox
<1> QED
  BY <1>1, <1>2, RequestsLeft

LEMMA NumberScript ==
    ASSUME TypeInv, NumberInv, ScriptStep \/ GameStep
    PROVE  NumberInv'
<1>1. client' = client /\ requests' = requests /\ captures' \in Nat /\ captures' >= captures
      /\ requests \in Nat /\ captures \in Nat
  BY ScriptCases, ResyncSends DEF TypeInv
<1>2. \A i \in DOMAIN inbox' : inbox'[i].request <= requests'
  BY <1>1, InboxLeft DEF NumberInv
<1>3. \A c \in Clients : client'[c].request <= requests' /\ client'[c].since <= captures'
  <2> SUFFICES ASSUME NEW c \in Clients
               PROVE  client'[c].request <= requests' /\ client'[c].since <= captures'
    OBVIOUS
  <2>1. client[c].request <= requests /\ client[c].since <= captures
    BY DEF NumberInv
  <2>2. client[c].since \in Nat
    BY DEF TypeInv, ClientOK, ClientType
  <2> QED
    BY <1>1, <2>1, <2>2
<1>4. /\ DoingNumbered(game')
      /\ \A c \in Clients :
            \A i \in DOMAIN link'[c].queue : link'[c].queue[i].body.correlation <= requests
  <2>1. CASE Quiet
    BY <2>1 DEF Quiet, NumberInv, DoingNumbered, ChangingName
  <2>2. CASE ChatSteps \/ HandleResync \/ SendWorld
    <3>1. PICK bodies, after :
             Broadcasts(bodies, after) /\ Answering(bodies) /\ DoingNumbered(after)
      BY <2>2, ScriptAnswers
    <3>2. DoingNumbered(game')
      BY <3>1 DEF Broadcasts, GameSame, DoingNumbered, ChangingName
    <3>3. ASSUME NEW c \in Clients, NEW i \in DOMAIN link'[c].queue
          PROVE  link'[c].queue[i].body.correlation <= requests
      <4>1. \/ Kept(link[c].queue, link'[c].queue, i)
            \/ Added(link[c].queue, link'[c].queue, i, bodies, game)
        BY <3>1, HeardMessage DEF Broadcasts, TypeInv
      <4> QED
        BY <3>1, <4>1 DEF Kept, Added, Answering, NumberInv
    <3> QED
      BY <3>2, <3>3
  <2> QED
    BY <2>1, <2>2, ScriptCases
<1>5. DoingNumbered(game)'
  BY <1>1, <1>4 DEF DoingNumbered
<1> QED
  BY <1>1, <1>2, <1>3, <1>4, <1>5 DEF NumberInv

--------------------------------------------------------------------------------
(***************************************************************************)
(* The steps of a client, by what they do to what it knows.                *)
(***************************************************************************)
Retains(k, n) ==
    /\ n.got = k.got /\ n.snap = k.snap /\ n.world = k.world /\ n.manifest = k.manifest
    /\ n.pages = k.pages /\ n.command = k.command /\ n.request = k.request
    /\ n.since = k.since

(* A request is sent, and nothing of the answer is there. *)
Begins(k, n, phase) ==
    /\ n.phase = phase /\ n.state = "resynchronizing" /\ n.got = {}
    /\ n.request = requests + 1 /\ n.since = captures /\ n.outcome = "none"
    /\ n.snap = k.snap /\ n.command = k.command /\ n.manifest = k.manifest

Resyncs ==
    requests' = requests + 1 /\ inbox' = Append(inbox, ResyncRequestOf(requests + 1))

Silent == UNCHANGED <<requests, inbox>>

(* The first message of the queue is received. *)
Pulls(c) ==
    /\ Pops(link[c], link'[c]) /\ link[c].queue # <<>> /\ link[c].up
    /\ Incoming(c) = link[c].queue[1] /\ BodyOK(Incoming(c).body) /\ Silent

(* A method ends, and what the client knows stays. *)
Halted(k, n) ==
    /\ Retains(k, n) /\ n.phase = "idle"
    /\ n.state \in {k.state, "failed", "disconnected"}
    /\ n.state = "synchronized" => ~Baseline(k)
    /\ n.outcome = "success" => k.outcome = "success" /\ k.phase = "idle"

(* What a message of a synchronization adds. *)
Learns(k, b, n) ==
    /\ ClientOK(n) /\ CoreSame(k, n) /\ Told(k, b, n) /\ ~Misplaced(k, b)
    /\ n.got = k.got \cup
         IF \/ b.type \in {"hello", "capabilities", "state_snapshot"}
            \/ b.type = "resync_response" /\ OwnResponse(k, b)
            \/ b.type = "world_snapshot_complete" /\ Assembling(k)
         THEN {b.type} ELSE {}
    /\ b.type = "world_manifest" /\ Shaken(k) =>
         n.manifest = [ref |-> b.ref, number |-> b.number] /\ n.pages = {}
    /\ b.type = "world_snapshot_complete" /\ Assembling(k) =>
         n.world = {p.number : p \in k.pages} \cup {k.manifest.number, b.number}

ReturnsTo(w, n) ==
    /\ Retains(w, n) /\ n.phase = "idle"
    /\ n.state = IF w.phase = "probing" THEN "identity_verified" ELSE "synchronized"
    /\ w.phase # "verifying" => n.outcome = w.outcome
    /\ n.outcome = "success" => w.phase = "verifying" /\ w.snap.name = w.command.name

Starting(c) ==
    /\ link'[c].queue = link[c].queue /\ client[c].phase = "idle" /\ Resyncs
    /\ \E phase \in {"syncing", "probing"} : Begins(client[c], client'[c], phase)

Ordering(c) ==
    /\ link'[c].queue = link[c].queue /\ client[c].phase = "idle"
    /\ \E q \in CommandType :
          Asked(c, q) /\ CommandOf(c, q, client'[c]) /\ Commands(client[c], client'[c], q)

Halting(c) ==
    Parts(link[c], link'[c]) /\ Silent /\ Halted(client[c], client'[c])

Renewing(c) ==
    /\ Parts(link[c], link'[c]) /\ Silent
    /\ Renewed(client[c], client'[c]) /\ client'[c].phase = "idle"

Proceeding(c) ==
    Pulls(c) /\ Baseline(client[c]) /\ Learns(client[c], Incoming(c).body, client'[c])
             /\ ~Finished(client'[c])

Completing(c) ==
    /\ Pulls(c) /\ Baseline(client[c])
    /\ \E w : Learns(client[c], Incoming(c).body, w) /\ Finished(w) /\ ReturnsTo(w, client'[c])

Accepting(c) ==
    /\ Pulls(c) /\ client[c].phase = "commanding"
    /\ Retains(client[c], client'[c]) /\ CoreSame(client[c], client'[c])

Consuming(c) ==
    LET k == client[c]
        b == Incoming(c).body
    IN  /\ Pulls(c) /\ k.phase = "commanding" /\ Unsolicited(k, b)
        /\ CoreSame(k, client'[c]) /\ Told(k, b, client'[c]) /\ client'[c].got = k.got
        /\ b.type \in PartTypes => OfManifest(k, b)

Verifying(c) ==
    LET k == client[c]
        b == Incoming(c).body
    IN  /\ Pops(link[c], link'[c]) /\ link[c].queue # <<>> /\ Incoming(c) = link[c].queue[1]
        /\ BodyOK(b) /\ Resyncs
        /\ k.phase = "commanding" /\ ~Unsolicited(k, b) /\ b.type = "command_completed"
        /\ Begins(k, client'[c], "verifying")

(* Receiving a message changes nothing of what a client knows. *)
LEMMA ReceiverRetains ==
    ASSUME TypeInv, NEW c \in Clients, Receiving(c)
    PROVE  /\ Retains(client[c], Receiver(c)) /\ CoreSame(client[c], Receiver(c))
           /\ ClientOK(Receiver(c)) /\ BodyOK(Incoming(c).body)
  BY IncomingTyped DEF Retains, CoreSame

LEMMA RetainsTwice ==
    ASSUME NEW k, NEW w, NEW n, Retains(k, w), Retains(w, n)
    PROVE  Retains(k, n)
  BY DEF Retains

LEMMA ViewRetains ==
    ASSUME NEW k, NEW n, ViewSame(k, n)
    PROVE  Retains(k, n)
  BY DEF ViewSame, Retains

LEMMA LearnsSame ==
    ASSUME NEW k, NEW w, Retains(k, w), CoreSame(k, w), NEW b, NEW n, Learns(w, b, n)
    PROVE  Learns(k, b, n)
<1>1. Told(k, b, n) /\ CoreSame(k, n)
  BY DEF Learns, Told, CoreSame, Retains
<1>2. /\ Assembling(w) <=> Assembling(k)
      /\ Shaken(w) <=> Shaken(k)
      /\ OwnResponse(w, b) <=> OwnResponse(k, b)
  BY DEF Retains, Assembling, Shaken, OwnResponse
<1>3. ~Misplaced(k, b)
  BY <1>2 DEF Learns, Misplaced, PageFits, WorldFits, OfManifest, Retains
<1> QED
  BY <1>1, <1>2, <1>3 DEF Learns, Retains

LEMMA RaisedHalts ==
    ASSUME NEW k, ClientOK(k), NEW w, ClientOK(w), Retains(k, w), CoreSame(k, w),
           k.phase # "idle"
    PROVE  Halted(k, Raised(w))
<1>1. w.phase = k.phase /\ w.state = k.state
  BY DEF CoreSame
<1>2. /\ Retains(w, Raised(w)) /\ Raised(w).phase = "idle"
      /\ Raised(w).state = IF Baseline(w) THEN "failed" ELSE w.state
      /\ Raised(w).outcome # "success"
  BY <1>1, RaisedTyped, ViewRetains
<1>3. Baseline(w) <=> Baseline(k)
  BY <1>1 DEF Baseline
<1> QED
  BY <1>1, <1>2, <1>3, RetainsTwice DEF Halted

LEMMA NegotiateCases ==
    ASSUME TypeInv, NEW c \in Clients, Negotiate(c)
    PROVE  Halting(c) \/ Proceeding(c) \/ Completing(c)
<1> DEFINE k == client[c]  w == Receiver(c)  b == Incoming(c).body  n == Negotiated(w, b)
<1>1. /\ Misplaces(c, b) \/ Completes(c, b) \/ Proceeds(c, b)
      /\ Receiving(c) /\ Baseline(k) /\ UNCHANGED <<inbox, requests>>
  BY NegotiateReceives
<1>2. /\ Retains(k, w) /\ CoreSame(k, w) /\ ClientOK(w) /\ ClientOK(k) /\ BodyOK(b)
      /\ k.phase # "idle"
  BY <1>1, ReceiverRetains DEF TypeInv, Receiving
<1>3. ASSUME ~Misplaced(w, b)
      PROVE  Learns(w, b, n)
  BY <1>2, <1>3, NegotiatedTyped DEF Learns
<1> HIDE DEF w, b, n
<1>4. ASSUME NEW r, Receives(c, r)
      PROVE  Pulls(c) /\ client'[c] = r
  BY <1>1, <1>4 DEF Receives, Pulls, Silent
<1>5. CASE Misplaces(c, b)
  <2>1. Pulls(c) /\ client'[c] = Raised(w)
    BY <1>4, <1>5 DEF Misplaces, w
  <2>2. Halted(k, Raised(w))
    BY <1>2, RaisedHalts
  <2> QED
    BY <2>1, <2>2 DEF Halting, Pulls, Parts
<1>6. CASE Proceeds(c, b)
  <2>1. Pulls(c) /\ client'[c] = n /\ ~Misplaced(w, b) /\ ~Finished(n)
    BY <1>4, <1>6 DEF Proceeds, w, n
  <2>2. Learns(k, b, n)
    BY <1>2, <1>3, <2>1, LearnsSame
  <2> QED
    BY <1>1, <2>1, <2>2 DEF Proceeding, b
<1>7. CASE Completes(c, b)
  <2>1. Pulls(c) /\ client'[c] = Returned(n) /\ ~Misplaced(w, b) /\ Finished(n)
    BY <1>4, <1>7 DEF Completes, w, n
  <2>2. Learns(k, b, n)
    BY <1>2, <1>3, <2>1, LearnsSame
  <2>3. ClientOK(n) /\ Baseline(n)
    BY <1>1, <2>2 DEF Learns, CoreSame, Baseline
  <2>4. ReturnsTo(n, Returned(n))
    BY <2>1, <2>3, ReturnedTyped, ViewRetains DEF ReturnsTo, ViewSame
  <2> QED
    BY <1>1, <2>1, <2>2, <2>4 DEF Completing, b
<1> QED
  BY <1>1, <1>5, <1>6, <1>7

LEMMA AnswerCases ==
    ASSUME TypeInv, NEW c \in Clients, ConsumeUnsolicited(c) \/ ReceiveAnswer(c)
    PROVE  Halting(c) \/ Consuming(c) \/ Accepting(c) \/ Verifying(c)
<1> DEFINE k == client[c]  w == Receiver(c)  b == Incoming(c).body
<1>1. Receiving(c) /\ k.phase = "commanding"
  BY UnsolicitedReceives, AnswerReceives
<1>2. /\ Retains(k, w) /\ CoreSame(k, w) /\ ClientOK(w) /\ ClientOK(k) /\ BodyOK(b)
      /\ w.phase = "commanding"
  BY <1>1, ReceiverRetains DEF TypeInv, CoreSame
<1>3. Unsolicited(w, b) <=> Unsolicited(k, b)
  BY <1>2 DEF Retains, Unsolicited
<1>4. ASSUME NEW r, Receives(c, r), UNCHANGED <<inbox, requests>>
      PROVE  Pulls(c) /\ client'[c] = r
  BY <1>4 DEF Receives, Pulls, Silent
<1>5. CASE ConsumeUnsolicited(c)
  <2>1. /\ UNCHANGED <<inbox, requests>> /\ Unsolicited(w, b)
        /\ \/ UnsolicitedRefused(w, b) /\ Receives(c, Raised(w))
           \/ ~UnsolicitedRefused(w, b) /\ Receives(c, Consumed(w, b))
    BY <1>5, UnsolicitedReceives
  <2>2. CASE Receives(c, Raised(w))
    <3>1. Pulls(c) /\ client'[c] = Raised(w)
      BY <1>4, <2>1, <2>2
    <3>2. Halted(k, Raised(w))
      BY <1>1, <1>2, RaisedHalts
    <3> QED
      BY <3>1, <3>2 DEF Halting, Pulls, Parts
  <2>3. CASE ~UnsolicitedRefused(w, b) /\ Receives(c, Consumed(w, b))
    <3> DEFINE n == Consumed(w, b)
    <3>1. Pulls(c) /\ client'[c] = n
      BY <1>4, <2>1, <2>3
    <3>2. /\ CoreSame(w, n) /\ Told(w, b, n) /\ n.got = w.got
          /\ b.type \in PartTypes => OfManifest(w, b)
      BY <1>2, <2>3, ConsumedTyped
    <3> HIDE DEF n, w, b
    <3>3. CoreSame(k, n) /\ Told(k, b, n) /\ n.got = k.got
      BY <1>2, <3>2 DEF CoreSame, Told, Retains
    <3>4. b.type \in PartTypes => OfManifest(k, b)
      BY <1>2, <3>2 DEF OfManifest, Retains
    <3> QED
      BY <1>1, <1>3, <2>1, <3>1, <3>3, <3>4 DEF Consuming, b
  <2> QED
    BY <2>1, <2>2, <2>3
<1>6. CASE ReceiveAnswer(c)
  <2>1. Accepts(c) \/ Declines(c) \/ Verifies(c)
    BY <1>6, AnswerReceives
  <2>2. ~Unsolicited(w, b)
    BY <1>6, AnswerReceives
  <2>3. CASE Accepts(c)
    <3> DEFINE n == [w EXCEPT !.accepted = TRUE]
    <3>1. Pulls(c) /\ client'[c] = n
      BY <1>4, <2>3 DEF Accepts
    <3>2. Retains(w, n) /\ CoreSame(w, n)
      BY <1>2, AcceptedSame, ViewRetains
    <3> HIDE DEF n, w
    <3>3. Retains(k, n) /\ CoreSame(k, n)
      BY <1>2, <3>2, RetainsTwice DEF CoreSame
    <3> QED
      BY <1>1, <3>1, <3>3 DEF Accepting
  <2>4. CASE Declines(c)
    <3> DEFINE n == [w EXCEPT !.phase = "idle", !.outcome = "refused"]
    <3>1. Pulls(c) /\ client'[c] = n
      BY <1>4, <2>4 DEF Declines
    <3>2. Retains(w, n) /\ n.phase = "idle" /\ n.outcome = "refused" /\ n.state = w.state
      BY <1>2, DeclinedSame, ViewRetains
    <3> HIDE DEF n, w
    <3>3. Halted(k, n)
      BY <1>1, <1>2, <3>2, RetainsTwice DEF CoreSame, Halted, Baseline
    <3> QED
      BY <3>1, <3>3 DEF Halting, Pulls, Parts
  <2>5. CASE Verifies(c)
    <3> DEFINE n == Requesting(w, "verifying", requests + 1, captures)
    <3>1. /\ b.type = "command_completed" /\ Receives(c, n) /\ Resyncs
      BY <2>5 DEF Verifies, Resyncs
    <3>2. requests + 1 \in Nat /\ captures \in Nat
      BY DEF TypeInv
    <3>3. Asks(w, n, "verifying", requests + 1, captures)
      BY <1>2, <3>2, RequestingTyped
    <3> HIDE DEF n, w
    <3>4. Begins(k, n, "verifying")
      BY <1>2, <3>3 DEF Begins, Asks, Retains
    <3> HIDE DEF b
    <3> QED
      BY <1>1, <1>2, <1>3, <2>2, <3>1, <3>4 DEF Verifying, Receives, b
  <2> QED
    BY <2>1, <2>3, <2>4, <2>5
<1> QED
  BY <1>5, <1>6

LEMMA ClientCases ==
    ASSUME TypeInv, NEW c \in Clients, OneClient(c)
    PROVE  \/ Starting(c) \/ Ordering(c) \/ Halting(c) \/ Renewing(c) \/ Proceeding(c)
           \/ Completing(c) \/ Accepting(c) \/ Consuming(c) \/ Verifying(c)
<1>0. ClientOK(client[c])
  BY DEF TypeInv
<1>1. CASE Starts(c)
  <2>1. PICK phase \in {"syncing", "probing"} : Begin(c, phase)
    BY <1>1 DEF Starts
  <2>2. /\ Asked(c, ResyncRequestOf(requests + 1)) /\ client[c].phase = "idle"
        /\ Asks(client[c], client'[c], phase, requests + 1, captures)
    BY <2>1, BeginAsks
  <2>3. Begins(client[c], client'[c], phase)
    BY <2>2 DEF Begins, Asks
  <2> QED
    BY <2>2, <2>3 DEF Starting, Asked, Resyncs
<1>2. CASE SendCommand(c)
  <2>1. PICK q \in CommandType : Asked(c, q) /\ CommandOf(c, q, client'[c])
    BY <1>2, SendCommandAsks
  <2>2. client[c].phase = "idle" /\ link'[c].queue = link[c].queue
    BY <1>2, SendCommandAsks
  <2>3. Commands(client[c], client'[c], q)
    BY <2>1, CommandTyped
  <2> QED
    BY <2>1, <2>2, <2>3 DEF Ordering
<1>3. CASE ReceiveRefused(c)
  <2>1. Receives(c, Raised(client[c])) /\ UNCHANGED <<inbox, requests>>
    BY <1>3, RefusedReceives
  <2>2. Retains(client[c], client[c]) /\ CoreSame(client[c], client[c])
    BY DEF Retains, CoreSame
  <2>3. Halted(client[c], Raised(client[c]))
    BY <1>0, <2>1, <2>2, RaisedHalts DEF Receives
  <2> QED
    BY <2>1, <2>3 DEF Receives, Halting, Parts, Silent
<1>4. CASE \E n : Rests(c, n)
  <2>1. PICK n : Rests(c, n)
    BY <1>4
  <2>2. Stopped(client[c], n) => Halted(client[c], n)
    BY <2>1, ViewRetains DEF Stopped, Halted, Rests
  <2> QED
    BY <2>1, <2>2 DEF Rests, Halting, Renewing, Parts, Silent
<1> QED
  BY <1>1, <1>2, <1>3, <1>4, NegotiateCases, AnswerCases DEF OneClient

--------------------------------------------------------------------------------
(***************************************************************************)
(* Numbers, continued.                                                     *)
(***************************************************************************)
(* Every message a client still has was there. *)
LEMMA PartOf ==
    ASSUME NEW l, LinkOK(l), NEW m, Parts(l, m), NEW i \in DOMAIN m.queue
    PROVE  \E j \in DOMAIN l.queue : m.queue[i] = l.queue[j]
<1>1. CASE m.queue = l.queue \/ m.queue = <<>>
  BY <1>1
<1>2. CASE Pops(l, m)
  BY <1>2, KeptMessage
<1> QED
  BY <1>1, <1>2 DEF Parts

(* The requests of a client's step. *)
LEMMA ClientRequests ==
    ASSUME TypeInv, NEW c \in Clients, OneClient(c)
    PROVE  \/ Silent
           \/ /\ requests' = requests + 1
              /\ \E q \in RequestType :
                    q.request = requests + 1 /\ inbox' = Append(inbox, q)
<1>1. CASE Starting(c) \/ Verifying(c)
  <2>1. ResyncRequestOf(requests + 1) \in RequestType
    BY DEF ResyncRequestOf, RequestType, TypeInv
  <2>2. ResyncRequestOf(requests + 1).request = requests + 1
    BY DEF ResyncRequestOf
  <2> QED
    BY <1>1, <2>1, <2>2 DEF Starting, Verifying, Resyncs
<1>2. CASE Ordering(c)
  BY <1>2 DEF Ordering, Asked
<1> QED
  BY <1>1, <1>2, ClientCases
     DEF Halting, Renewing, Proceeding, Completing, Accepting, Consuming, Pulls

LEMMA InboxGrows ==
    ASSUME TypeInv, NEW q \in RequestType, inbox' = Append(inbox, q), NEW i \in DOMAIN inbox'
    PROVE  inbox'[i] = q \/ (i \in DOMAIN inbox /\ inbox'[i] = inbox[i])
  BY DEF TypeInv

LEMMA NumberRequests ==
    ASSUME TypeInv, NumberInv, requests' = requests + 1, NEW q \in RequestType,
           q.request = requests + 1, inbox' = Append(inbox, q)
    PROVE  \A i \in DOMAIN inbox' : inbox'[i].request <= requests'
<1> SUFFICES ASSUME NEW i \in DOMAIN inbox'
             PROVE  inbox'[i].request <= requests'
  OBVIOUS
<1>1. requests \in Nat /\ inbox \in Seq(RequestType)
  BY DEF TypeInv
<1>2. CASE inbox'[i] = q
  BY <1>1, <1>2
<1>3. CASE i \in DOMAIN inbox /\ inbox'[i] = inbox[i]
  <2>1. inbox[i].request <= requests
    BY <1>3 DEF NumberInv
  <2>2. inbox[i].request \in Nat
    BY <1>1, <1>3 DEF RequestType, CommandType
  <2> QED
    BY <1>1, <1>3, <2>1, <2>2
<1> QED
  BY <1>2, <1>3, InboxGrows

LEMMA NumberAsks ==
    ASSUME TypeInv, NumberInv, NEW c \in Clients, OneClient(c)
    PROVE  client'[c].request <= requests' /\ client'[c].since <= captures
<1> DEFINE k == client[c]  n == client'[c]
<1>1. /\ k.request <= requests /\ k.since <= captures
      /\ k.request \in Nat /\ requests \in Nat /\ captures \in Nat /\ k.since \in Nat
  BY DEF NumberInv, TypeInv, ClientOK, ClientType
<1>2. requests' \in {requests, requests + 1}
  BY ClientRequests DEF Silent
<1>3. CASE n.request = k.request /\ n.since = k.since
  BY <1>1, <1>2, <1>3
<1>4. CASE Starting(c) \/ Verifying(c)
  <2>1. requests' = requests + 1 /\ n.request = requests + 1 /\ n.since = captures
    BY <1>4 DEF Starting, Verifying, Begins, Resyncs
  <2> QED
    BY <1>1, <2>1
<1>5. CASE Ordering(c)
  <2>1. requests' = requests + 1 /\ n.request = requests + 1 /\ n.since = k.since
    BY <1>5 DEF Ordering, Asked, Commands
  <2> QED
    BY <1>1, <2>1
<1>6. CASE Renewing(c)
  <2>1. n.request = 0 /\ n.since = 0
    BY <1>6 DEF Renewing, Renewed
  <2> QED
    BY <1>1, <1>2, <2>1
<1>7. CASE Halting(c) \/ Proceeding(c) \/ Completing(c) \/ Accepting(c) \/ Consuming(c)
  BY <1>3, <1>7
     DEF Halting, Halted, Proceeding, Completing, Accepting, Consuming, Retains, ReturnsTo,
         Learns, CoreSame
<1> QED
  BY <1>4, <1>5, <1>6, <1>7, ClientCases

LEMMA NumberClient ==
    ASSUME TypeInv, NumberInv, NEW c \in Clients, OneClient(c)
    PROVE  NumberInv'
<1>1. /\ OthersStay(c) /\ Parts(link[c], link'[c]) /\ game' = game /\ captures' = captures
      /\ client'[c].request <= requests' /\ client'[c].since <= captures'
  BY ClientParts, NumberAsks
<1>2. requests \in Nat /\ requests' \in {requests, requests + 1}
  BY ClientRequests DEF Silent, TypeInv
<1>3. \A i \in DOMAIN inbox' : inbox'[i].request <= requests'
  <2>1. CASE Silent
    BY <2>1 DEF Silent, NumberInv
  <2>2. CASE ~Silent
    <3>1. PICK q \in RequestType : q.request = requests + 1 /\ inbox' = Append(inbox, q)
      BY <2>2, ClientRequests
    <3> QED
      BY <2>2, <3>1, ClientRequests, NumberRequests
  <2> QED
    BY <2>1, <2>2
<1>4. \A n \in Nat : n <= requests => n <= requests'
  BY <1>2
<1>5. DoingNumbered(game)'
  <2> SUFFICES ASSUME ChangingName(game)
               PROVE  game.doing.request.request <= requests'
    BY <1>1 DEF DoingNumbered
  <2>1. game.doing \in [handler : {"command"}, request : CommandType, success : BOOLEAN]
    BY DoingTyped DEF TypeInv
  <2>2. game.doing.request.request \in Nat
    BY <2>1 DEF CommandType
  <2>3. game.doing.request.request <= requests
    BY DEF NumberInv, DoingNumbered
  <2> QED
    BY <1>4, <2>2, <2>3
<1>6. ASSUME NEW d \in Clients
      PROVE  /\ client'[d].request <= requests' /\ client'[d].since <= captures'
             /\ \A i \in DOMAIN link'[d].queue :
                   link'[d].queue[i].body.correlation <= requests'
  <2>1. client'[d].request <= requests' /\ client'[d].since <= captures'
    <3>1. CASE d = c
      BY <1>1, <3>1
    <3>2. CASE d # c
      <4>1. client'[d] = client[d] /\ client[d].request \in Nat
        BY <1>1, <3>2 DEF OthersStay, TypeInv, ClientOK, ClientType
      <4> QED
        BY <1>1, <1>4, <4>1 DEF NumberInv
    <3> QED
      BY <3>1, <3>2
  <2>2. ASSUME NEW i \in DOMAIN link'[d].queue
        PROVE  link'[d].queue[i].body.correlation <= requests'
    <3>1. LinkOK(link[d])
      BY DEF TypeInv
    <3>2. \E j \in DOMAIN link[d].queue : link'[d].queue[i] = link[d].queue[j]
      <4>1. CASE d = c
        BY <1>1, <3>1, <4>1, PartOf
      <4>2. CASE d # c
        BY <1>1, <4>2 DEF OthersStay
      <4> QED
        BY <4>1, <4>2
    <3>3. PICK j \in DOMAIN link[d].queue : link'[d].queue[i] = link[d].queue[j]
      BY <3>2
    <3>4. BodyOK(link[d].queue[j].body) /\ link[d].queue[j].body.correlation <= requests
      BY <3>1 DEF LinkOK, NumberInv
    <3>5. link[d].queue[j].body.correlation \in Nat
      BY <3>4 DEF BodyOK, BodyType
    <3> QED
      BY <1>4, <3>3, <3>4, <3>5
  <2> QED
    BY <2>1, <2>2
<1> QED
  BY <1>3, <1>5, <1>6 DEF NumberInv

LEMMA NumberInit == Init => NumberInv
<1> SUFFICES ASSUME Init
             PROVE  NumberInv
  OBVIOUS
<1>1. /\ requests = 0 /\ captures = 0 /\ inbox = <<>>
      /\ \A c \in Clients : client[c] = NewClient /\ link[c].queue = <<>>
  BY DEF Init
<1>2. game.doing = None
  BY GreetingTyped, NewGameTyped, SentTyped DEF Init
<1> QED
  BY <1>1, <1>2, NewClientTyped, NotChanging DEF NumberInv

LEMMA NumberOthers ==
    ASSUME TypeInv, NumberInv, OthersRequest
    PROVE  NumberInv'
<1>1. PICK q \in RequestType : q.request = requests + 1 /\ inbox' = Append(inbox, q)
  BY OthersRequestTyped
<1>2. /\ requests' = requests + 1 /\ UNCHANGED <<game, link, client, captures>>
      /\ requests \in Nat
  BY OthersRequestTyped DEF TypeInv
<1>3. \A i \in DOMAIN inbox' : inbox'[i].request <= requests'
  BY <1>1, <1>2, NumberRequests
<1>4. \A n \in Nat : n <= requests => n <= requests'
  BY <1>2
<1>5. DoingNumbered(game)'
  <2> SUFFICES ASSUME ChangingName(game)
               PROVE  game.doing.request.request <= requests'
    BY <1>2 DEF DoingNumbered
  <2>1. game.doing \in [handler : {"command"}, request : CommandType, success : BOOLEAN]
    BY DoingTyped DEF TypeInv
  <2>2. game.doing.request.request \in Nat
    BY <2>1 DEF CommandType
  <2>3. game.doing.request.request <= requests
    BY DEF NumberInv, DoingNumbered
  <2> QED
    BY <1>4, <2>2, <2>3
<1>6. ASSUME NEW c \in Clients
      PROVE  /\ client'[c].request <= requests' /\ client'[c].since <= captures'
             /\ \A i \in DOMAIN link'[c].queue :
                   link'[c].queue[i].body.correlation <= requests'
  <2>1. client[c].request \in Nat /\ LinkOK(link[c])
    BY DEF TypeInv, ClientOK, ClientType
  <2>2. \A i \in DOMAIN link[c].queue : link[c].queue[i].body.correlation \in Nat
    BY <2>1 DEF LinkOK, BodyOK, BodyType
  <2> QED
    BY <1>2, <1>4, <2>1, <2>2 DEF NumberInv
<1> QED
  BY <1>3, <1>5, <1>6 DEF NumberInv

LEMMA NumberNext ==
    ASSUME TypeInv, NumberInv, [Next]_vars
    PROVE  NumberInv'
<1>1. CASE ScriptStep \/ GameStep
  BY <1>1, NumberScript
<1>2. CASE OthersRequest
  BY <1>2, NumberOthers
<1>3. CASE \E c \in Clients : OneClient(c)
  BY <1>3, NumberClient
<1>4. CASE UNCHANGED vars
  BY <1>4 DEF vars, NumberInv, DoingNumbered
<1> QED
  BY <1>1, <1>2, <1>3, <1>4, StepCases

--------------------------------------------------------------------------------
(***************************************************************************)
(* Freshness: what the script sends.                                       *)
(***************************************************************************)
(* What is sent, and what is still to be sent, is newer than n if the world *)
(* that is being sent is.                                                  *)
Newly(bodies, g, h, n) ==
    /\ \A j \in DOMAIN bodies : bodies[j].type \in Telling =>
          bodies[j].number > n \/ (SendingWorld(g) /\ bodies[j].number = g.doing.number)
    /\ SendingWorld(h) =>
          h.doing.number > n \/ (SendingWorld(g) /\ h.doing.number = g.doing.number)

(* A response to request r comes third, and all with it is newer than n. *)
Responds(bodies, h, r, n) ==
    \A j \in DOMAIN bodies :
        bodies[j].type = "resync_response" /\ bodies[j].correlation = r =>
            /\ j > 2
            /\ \A i \in DOMAIN bodies : bodies[i].type \in Telling => bodies[i].number > n
            /\ SendingWorld(h) => h.doing.number > n

(* A part that comes first continues the world that is being sent. *)
Opens(bodies, g) ==
    /\ 1 \in DOMAIN bodies
    /\ bodies[1].type \in PartTypes => Underway(g) /\ bodies[1].number = g.doing.number

LEMMA NewerHeard ==
    ASSUME NEW s \in Seq(MessageType), NEW t, NEW bodies, Bodies(bodies), NEW g,
           Grown(s, t, bodies, g), NEW h, NEW n, NEW p, NewerFrom(s, p, g, n),
           Newly(bodies, g, h, n)
    PROVE  NewerFrom(t, p, h, n)
<1>1. SendingWorld(h) => h.doing.number > n
  BY DEF Newly, NewerFrom
<1>2. ASSUME NEW j \in DOMAIN t, j >= p, Tells(t[j])
      PROVE  Number(t[j]) > n
  <2>1. CASE Kept(s, t, j)
    BY <1>2, <2>1 DEF Kept, NewerFrom
  <2>2. CASE Added(s, t, j, bodies, g)
    <3>1. PICK i \in DOMAIN bodies : t[j].body = bodies[i]
      BY <2>2 DEF Added
    <3>2. bodies[i].number > n
      BY <1>2, <3>1 DEF Newly, NewerFrom, Tells
    <3> QED
      BY <3>1, <3>2 DEF Number
  <2> QED
    BY <2>1, <2>2, GrownMessage
<1> QED
  BY <1>1, <1>2 DEF NewerFrom

LEMMA AwaitedHeard ==
    ASSUME NEW s \in Seq(MessageType), NEW t, NEW bodies, Bodies(bodies), NEW g,
           Grown(s, t, bodies, g), NEW h, NEW k, Awaited(k, s, g),
           Newly(bodies, g, h, k.since), Responds(bodies, h, k.request, k.since)
    PROVE  Awaited(k, t, h)
<1> SUFFICES ASSUME Baseline(k), ~Answered(k), NEW i \in DOMAIN t, Own(k, t[i])
             PROVE  /\ NewerFrom(t, i, h, k.since)
                    /\ i = 1 => "capabilities" \in k.got
                    /\ i <= 2 => "hello" \in k.got
  BY DEF Awaited
<1>1. CASE Kept(s, t, i)
  <2>1. i \in DOMAIN s /\ Own(k, s[i])
    BY <1>1 DEF Kept
  <2>2. /\ NewerFrom(s, i, g, k.since)
        /\ i = 1 => "capabilities" \in k.got
        /\ i <= 2 => "hello" \in k.got
    BY <2>1 DEF Awaited
  <2> QED
    BY <2>2, NewerHeard
<1>2. CASE Added(s, t, i, bodies, g)
  <2>1. PICK j \in DOMAIN bodies : i = Len(s) + j /\ t[i].body = bodies[j]
    BY <1>2 DEF Added
  <2>2. /\ j > 2 /\ j \in Nat /\ Len(s) \in Nat
        /\ \A x \in DOMAIN bodies : bodies[x].type \in Telling => bodies[x].number > k.since
        /\ SendingWorld(h) => h.doing.number > k.since
    <3>1. bodies \in Seq(BodyType)
      BY DEF Bodies
    <3> QED
      BY <2>1, <3>1 DEF Own, Responds
  <2>3. i > 2
    BY <2>1, <2>2
  <2>4. ASSUME NEW x \in DOMAIN t, x >= i, Tells(t[x])
        PROVE  Number(t[x]) > k.since
    <3>1. ~Kept(s, t, x)
      <4>1. DOMAIN s = 1..Len(s) /\ i > Len(s) /\ i \in Nat
        BY <2>1, <2>2
      <4> QED
        BY <2>2, <2>4, <4>1 DEF Kept
    <3>2. PICK y \in DOMAIN bodies : t[x].body = bodies[y]
      BY <3>1, GrownMessage DEF Added
    <3> QED
      BY <2>2, <2>4, <3>2 DEF Tells, Number
  <2>5. NewerFrom(t, i, h, k.since)
    BY <2>2, <2>4 DEF NewerFrom
  <2> QED
    BY <2>1, <2>2, <2>3, <2>5
<1> QED
  BY <1>1, <1>2, GrownMessage

LEMMA AssemblyHeard ==
    ASSUME NEW s \in Seq(MessageType), NEW t, NEW bodies, Bodies(bodies), NEW g,
           Grown(s, t, bodies, g), NEW h, NEW k, Assembly(k, s, g), Opens(bodies, g)
    PROVE  Assembly(k, t, h)
<1>1. t # <<>> /\ 1 \in DOMAIN t
  <2>1. Len(s) + 1 \in DOMAIN t /\ Len(s) \in Nat /\ t \in Seq(MessageType)
    BY GrownAfter DEF Opens, Grown
  <2> QED
    BY <2>1
<1>2. CASE s # <<>>
  <2>1. 1 \in DOMAIN s
    BY <1>2
  <2>2. t[1] = s[1]
    BY <2>1, GrownBefore
  <2> QED
    BY <1>1, <1>2, <2>2 DEF Assembly
<1>3. CASE s = <<>>
  <2>1. t[1].body = bodies[1]
    <3>1. t[Len(s) + 1].body = bodies[1]
      BY GrownAfter DEF Opens
    <3>2. Len(s) + 1 = 1
      BY <1>3
    <3> QED
      BY <3>1, <3>2
  <2>2. IsPart(t[1]) => Assembles(k, Number(t[1]))
    BY <1>3, <2>1 DEF IsPart, Opens, Assembly, Number
  <2> QED
    BY <1>1, <1>3, <2>2 DEF Assembly
<1> QED
  BY <1>2, <1>3

LEMMA FreshHeard ==
    ASSUME NEW s \in Seq(MessageType), NEW t, NEW bodies, Bodies(bodies), NEW g,
           Grown(s, t, bodies, g), NEW h, NEW k, FreshOf(k, s, g),
           Newly(bodies, g, h, k.since), Responds(bodies, h, k.request, k.since),
           Opens(bodies, g)
    PROVE  FreshOf(k, t, h)
<1>1. Awaited(k, t, h)
  BY AwaitedHeard DEF FreshOf
<1>2. Current(k) => NewerFrom(t, 1, h, k.since)
  BY NewerHeard DEF FreshOf
<1>3. Collecting(k) /\ Answered(k) => Assembly(k, t, h)
  BY AssemblyHeard DEF FreshOf
<1> QED
  BY <1>1, <1>2, <1>3 DEF FreshOf

(* A client that is not connected is not waiting. *)
LEMMA FreshAway ==
    ASSUME NEW g, NEW h, NEW k, FreshOf(k, <<>>, g), k.phase = "idle", NEW bodies,
           Newly(bodies, g, h, k.since)
    PROVE  FreshOf(k, <<>>, h)
<1>1. ~Baseline(k) /\ ~Collecting(k)
  BY DEF Baseline, Collecting
<1>2. Current(k) => NewerFrom(<<>>, 1, h, k.since)
  BY DEF FreshOf, NewerFrom, Newly
<1> QED
  BY <1>1, <1>2 DEF FreshOf, Awaited

(* What the script's steps send is so. *)
Heralds(bodies, g, h, k) ==
    /\ Newly(bodies, g, h, k.since)
    /\ Responds(bodies, h, k.request, k.since) /\ Opens(bodies, g)

LEMMA ChatterHeralds ==
    ASSUME NEW bodies, Chatter(bodies), NEW g, NEW h, ~SendingWorld(h), NEW k
    PROVE  Heralds(bodies, g, h, k)
<1>1. Newly(bodies, g, h, k.since)
  BY DEF Newly, Chatter
<1>2. Responds(bodies, h, k.request, k.since)
  BY DEF Responds, Chatter
<1>3. Opens(bodies, g)
  BY DEF Opens, Chatter, Telling, WorldTypes
<1> QED
  BY <1>1, <1>2, <1>3 DEF Heralds

LEMMA HandshakeHeralds ==
    ASSUME NEW g \in GameType, NEW request \in Nat, NEW number \in Nat,
           NEW h, h.doing.number = number, NEW k, k.since < number
    PROVE  Heralds(Handshake(g, request, number), g, h, k)
<1> DEFINE b == Handshake(g, request, number)
<1>0. /\ Bodies(b) /\ DOMAIN b = 1..4
      /\ b[1].type = "hello" /\ b[2].type = "capabilities"
      /\ b[3].type = "resync_response" /\ b[4].type = "state_snapshot"
      /\ b[4].number = number
  BY HandshakeTyped
<1> HIDE DEF b
<1>1. \A j \in DOMAIN b : j \in {1, 2, 3, 4}
  BY <1>0
<1>2. \A j \in DOMAIN b : b[j].type \in Telling => b[j].number = number
  BY <1>0, <1>1 DEF Telling, WorldTypes, PartTypes
<1>3. number > k.since /\ h.doing.number > k.since
  BY Zenon DEF >
<1>4. Newly(b, g, h, k.since)
  BY <1>2, <1>3 DEF Newly
<1>5. Responds(b, h, k.request, k.since)
  <2>1. \A j \in DOMAIN b : b[j].type = "resync_response" => j > 2
    BY <1>0, <1>1
  <2> QED
    BY <1>2, <1>3, <2>1 DEF Responds
<1>6. Opens(b, g)
  BY <1>0 DEF Opens, PartTypes
<1> QED
  BY <1>4, <1>5, <1>6 DEF Heralds, b

LEMMA WorldHeralds ==
    ASSUME NEW g \in GameType, SendingWorld(g), NEW k,
           NEW h, SendingWorld(h) => h.doing.number = g.doing.number
    PROVE  Heralds(<<WorldMessage(g.doing)>>, g, h, k)
<1> DEFINE b == WorldMessage(g.doing)
<1>0. /\ BodyOK(b) /\ b.type \in WorldTypes /\ b.number = g.doing.number
      /\ b.type = "world_manifest" <=> g.doing.next = 0
      /\ g.doing.next \in Nat
  BY DoingTyped, WorldTyped
<1> HIDE DEF b
<1>1. DOMAIN <<b>> = {1} /\ <<b>>[1] = b
  BY <1>0, OneBody
<1>2. Newly(<<b>>, g, h, k.since)
  BY <1>0, <1>1 DEF Newly
<1>3. Responds(<<b>>, h, k.request, k.since)
  BY <1>0, <1>1 DEF Responds, WorldTypes, PartTypes
<1>4. Opens(<<b>>, g)
  BY <1>0, <1>1 DEF Opens, Underway, PartTypes
<1> QED
  BY <1>2, <1>3, <1>4 DEF Heralds, b

LEMMA FreshHears ==
    ASSUME TypeInv, NEW c \in Clients, NEW bodies, NEW after, Broadcasts(bodies, after),
           NEW h, Heralds(bodies, game, h, client[c]),
           FreshOf(client[c], link[c].queue, game)
    PROVE  FreshOf(client[c], link'[c].queue, h)
<1>1. /\ Hears(link[c], link'[c], bodies, game) /\ LinkOK(link[c]) /\ Bodies(bodies)
      /\ client[c].phase # "idle" => link[c].up
  BY DEF Broadcasts, TypeInv
<1>2. CASE link[c].up
  <2>1. /\ Grown(link[c].queue, link'[c].queue, bodies, game)
        /\ link[c].queue \in Seq(MessageType)
    BY <1>1, <1>2 DEF Hears, LinkOK
  <2> QED
    BY <1>1, <2>1, FreshHeard DEF Heralds
<1>3. CASE ~link[c].up
  <2>1. link[c].queue = <<>> /\ link'[c].queue = <<>> /\ client[c].phase = "idle"
    BY <1>1, <1>3 DEF Hears, LinkOK
  <2> QED
    BY <2>1, FreshAway DEF Heralds
<1> QED
  BY <1>2, <1>3

LEMMA FreshSame ==
    ASSUME NEW k, NEW s, NEW g, FreshOf(k, s, g), NEW h, h.doing = g.doing
    PROVE  FreshOf(k, s, h)
<1>1. \A p, n : NewerFrom(s, p, g, n) => NewerFrom(s, p, h, n)
  BY DEF NewerFrom, SendingWorld
<1>2. Assembly(k, s, g) => Assembly(k, s, h)
  BY DEF Assembly, Underway, SendingWorld
<1>3. Awaited(k, s, h)
  BY <1>1 DEF FreshOf, Awaited
<1> QED
  BY <1>1, <1>2, <1>3 DEF FreshOf

LEMMA FreshScript ==
    ASSUME TypeInv, NumberInv, FreshInv, ScriptStep \/ GameStep
    PROVE  FreshInv'
<1> SUFFICES ASSUME NEW c \in Clients
             PROVE  FreshOf(client[c], link'[c].queue, game')
  BY ScriptCases DEF FreshInv
<1>1. /\ game \in GameType /\ FreshOf(client[c], link[c].queue, game)
      /\ client[c].since \in Nat /\ client[c].since <= captures /\ captures \in Nat
  BY DEF TypeInv, ClientOK, ClientType, FreshInv, NumberInv
<1>2. CASE Quiet
  BY <1>1, <1>2, FreshSame DEF Quiet
<1>3. CASE ChatSteps
  <2>1. PICK bodies, after :
           Broadcasts(bodies, after) /\ Chatter(bodies) /\ ~SendingWorld(after)
    BY <1>3, ChatStepsChat
  <2>2. ~SendingWorld(game')
    BY <2>1 DEF Broadcasts, GameSame, SendingWorld
  <2> QED
    BY <1>1, <2>1, <2>2, ChatterHeralds, FreshHears
<1>4. CASE HandleResync
  <2> DEFINE request == inbox[1].request
             bodies  == Handshake(game, request, captures + 1)
             after   == AfterHandshake(game, captures + 1)
  <2>1. Broadcasts(bodies, after) /\ request \in Nat
    BY <1>4, ResyncSends
  <2>2. captures + 1 \in Nat /\ client[c].since < captures + 1
    BY <1>1
  <2>3. after.doing.number = captures + 1
    <3>1. after.doing = [handler |-> "world", next |-> 0, number |-> captures + 1,
                         ref |-> <<game.inst, game.seq + 5>>]
      BY <1>1, <2>2, AfterHandshakeTyped
    <3> HIDE DEF after
    <3> QED
      BY <3>1
  <2>4. game'.doing.number = captures + 1
    <3> HIDE DEF bodies, after
    <3> QED
      BY <2>1, <2>3 DEF Broadcasts, GameSame
  <2>5. Heralds(bodies, game, game', client[c])
    BY <1>1, <2>1, <2>2, <2>4, HandshakeHeralds
  <2> QED
    BY <1>1, <2>1, <2>5, FreshHears
<1>5. CASE SendWorld
  <2> DEFINE bodies == <<WorldMessage(game.doing)>>
             after  == AfterWorldMessage(game)
  <2>1. Broadcasts(bodies, after) /\ SendingWorld(game)
    BY <1>5, WorldSends
  <2>2. SendingWorld(after) => after.doing.number = game.doing.number
    <3>1. after.doing = IF game.doing.next > Pages THEN None
                        ELSE [handler |-> "world", next |-> game.doing.next + 1,
                              number |-> game.doing.number, ref |-> game.doing.ref]
      BY <1>1, <2>1, AfterWorldTyped
    <3> HIDE DEF after
    <3> QED
      BY <3>1 DEF SendingWorld
  <2>3. SendingWorld(game') => game'.doing.number = game.doing.number
    <3> HIDE DEF bodies, after
    <3> QED
      BY <2>1, <2>2 DEF Broadcasts, GameSame, SendingWorld
  <2>4. Heralds(bodies, game, game', client[c])
    BY <1>1, <2>1, <2>3, WorldHeralds
  <2> QED
    BY <1>1, <2>1, <2>4, FreshHears
<1> QED
  BY <1>2, <1>3, <1>4, <1>5, ScriptCases

--------------------------------------------------------------------------------
(***************************************************************************)
(* Freshness: what a client receives.                                      *)
(***************************************************************************)
LEMMA NewerParts ==
    ASSUME NEW l, LinkOK(l), NEW m, Parts(l, m), NEW g, NEW n, NewerFrom(l.queue, 1, g, n)
    PROVE  NewerFrom(m.queue, 1, g, n)
<1>1. ASSUME NEW i \in DOMAIN m.queue, Tells(m.queue[i])
      PROVE  Number(m.queue[i]) > n
  <2>1. PICK j \in DOMAIN l.queue : m.queue[i] = l.queue[j]
    BY PartOf
  <2>2. j >= 1
    BY DEF LinkOK
  <2> QED
    BY <1>1, <2>1, <2>2 DEF NewerFrom
<1> QED
  BY <1>1 DEF NewerFrom

LEMMA NewerShrunk ==
    ASSUME NEW s \in Seq(MessageType), NEW t, Shrunk(s, t), NEW g, NEW n,
           NEW p \in Nat, NewerFrom(s, p + 1, g, n)
    PROVE  NewerFrom(t, p, g, n)
<1>1. ASSUME NEW i \in DOMAIN t, i >= p, Tells(t[i])
      PROVE  Number(t[i]) > n
  <2>1. i + 1 \in DOMAIN s /\ t[i] = s[i + 1] /\ i \in Nat
    BY ShrunkMessage
  <2>2. i + 1 >= p + 1
    BY <1>1, <2>1
  <2>3. Number(s[i + 1]) > n
    BY <1>1, <2>1, <2>2 DEF NewerFrom
  <2> QED
    BY <2>1, <2>3
<1> QED
  BY <1>1 DEF NewerFrom

(* A client that does not wait for a handshake. *)
LEMMA FreshRests ==
    ASSUME NEW n, ~Baseline(n), NEW t, NEW g,
           n.state = "synchronized" => NewerFrom(t, 1, g, n.since) /\ Fresh(n)
    PROVE  FreshOf(n, t, g)
<1>1. ~Collecting(n)
  BY DEF Collecting, Baseline
<1> QED
  BY <1>1 DEF FreshOf, Awaited, Current

LEMMA FreshBegins ==
    ASSUME TypeInv, NEW k, NEW n, NEW phase, Begins(k, n, phase), NEW t, NEW g,
           \A i \in DOMAIN t : t[i].body.correlation <= requests
    PROVE  FreshOf(n, t, g)
<1>1. /\ n.request = requests + 1 /\ requests \in Nat /\ ~Answered(n) /\ n.got = {}
      /\ n.state = "resynchronizing"
  BY DEF Begins, TypeInv, Answered
<1>2. \A i \in DOMAIN t : ~Own(n, t[i])
  BY <1>1 DEF Own
<1> QED
  BY <1>1, <1>2 DEF FreshOf, Awaited, Current

LEMMA FreshTold ==
    ASSUME NEW k, NEW b, NEW n, Told(k, b, n), n.since = k.since, Fresh(k),
           b.type \in Telling => b.number > k.since
    PROVE  Fresh(n)
<1>1. n.snap.number > n.since
  BY DEF Told, Fresh, Telling
<1>2. n.world # {} /\ \A x \in n.world : x > n.since
  BY DEF Told, Fresh, Telling, WorldTypes, PartTypes
<1>3. n.manifest # None => n.manifest.number > n.since
  BY DEF Told, Fresh, Telling, WorldTypes, PartTypes
<1>4. \A p \in n.pages : p.number > n.since
  <2> DEFINE page == [index |-> b.index, number |-> b.number]
  <2>1. page.number = b.number
    OBVIOUS
  <2>2. b.type = "world_collection_page" => b.number > k.since
    BY DEF Telling, WorldTypes, PartTypes
  <2>3. n.pages = k.pages \/ n.pages = {}
        \/ (b.type = "world_collection_page" /\ n.pages = k.pages \cup {page})
    BY DEF Told
  <2> HIDE DEF page
  <2> QED
    BY <2>1, <2>2, <2>3 DEF Fresh
<1> QED
  BY <1>1, <1>2, <1>3, <1>4 DEF Fresh

LEMMA FreshRetained ==
    ASSUME NEW k, NEW n, Retains(k, n), Fresh(k)
    PROVE  Fresh(n)
  BY DEF Retains, Fresh

(* What a message of a world adds to the world that is assembled. *)
LEMMA AssemblesNext ==
    ASSUME NEW k, NEW m, NEW n, Learns(k, m.body, n), OfWorld(m),
           IsPart(m) => Assembles(k, Number(m))
    PROVE  Assembles(n, Number(m))
<1> DEFINE b == m.body
<1>1. Shaken(n) => Shaken(k)
  BY DEF Learns, Shaken, Summary, OfWorld, WorldTypes, PartTypes
<1>2. CASE b.type = "world_manifest"
  <2>1. Shaken(k) => n.manifest = [ref |-> b.ref, number |-> b.number] /\ n.pages = {}
    BY <1>2 DEF Learns
  <2> QED
    BY <1>1, <2>1 DEF Assembles, Assembling, Number
<1>3. CASE IsPart(m)
  <2> SUFFICES ASSUME Assembling(n)
               PROVE  n.manifest.number = Number(m) /\ \A p \in n.pages : p.number = Number(m)
    BY DEF Assembles
  <2>1. b.type # "world_manifest"
    BY <1>3 DEF IsPart, PartTypes
  <2>2. n.manifest = k.manifest
    BY <2>1 DEF Learns, Told
  <2>3. Assembling(k)
    BY <1>1, <2>2 DEF Assembling
  <2>4. k.manifest.number = Number(m) /\ \A p \in k.pages : p.number = Number(m)
    BY <1>3, <2>3 DEF Assembles
  <2> DEFINE page == [index |-> b.index, number |-> b.number]
  <2>5. page.number = Number(m)
    BY DEF Number
  <2>6. n.pages = k.pages \/ n.pages = k.pages \cup {page}
    BY <2>1 DEF Learns, Told
  <2> HIDE DEF page
  <2> QED
    BY <2>2, <2>4, <2>5, <2>6
<1> QED
  BY <1>2, <1>3 DEF OfWorld, WorldTypes, IsPart

(* The first message of a queue that is not empty. *)
Heads(s, t, m) ==
    /\ s \in Seq(MessageType) /\ Shrunk(s, t) /\ m = s[1] /\ 1 \in DOMAIN s /\ s # <<>>

LEMMA AwaitedNext ==
    ASSUME NEW k, NEW s, NEW t, NEW m, Heads(s, t, m), NEW g, NEW n, Learns(k, m.body, n),
           Awaited(k, s, g), StreamOf(s, g)
    PROVE  Awaited(n, t, g)
<1> SUFFICES ASSUME Baseline(n), ~Answered(n), NEW i \in DOMAIN t, Own(n, t[i])
             PROVE  /\ NewerFrom(t, i, g, n.since)
                    /\ i = 1 => "capabilities" \in n.got
                    /\ i <= 2 => "hello" \in n.got
  BY DEF Awaited
<1>1. i + 1 \in DOMAIN s /\ t[i] = s[i + 1] /\ i \in Nat \ {0}
  BY ShrunkMessage DEF Heads
<1>2. /\ Baseline(k) /\ ~Answered(k) /\ Own(k, s[i + 1]) /\ n.since = k.since
      /\ k.got \subseteq n.got
      /\ s[1].body.type \in {"hello", "capabilities"} => s[1].body.type \in n.got
  BY <1>1 DEF Learns, CoreSame, Baseline, Answered, Own, Heads
<1>3. /\ NewerFrom(s, i + 1, g, k.since)
      /\ i + 1 <= 2 => "hello" \in k.got
  BY <1>1, <1>2 DEF Awaited
<1>4. /\ i + 1 > 1 => s[(i + 1) - 1].body.type = "capabilities"
      /\ i + 1 > 2 => s[(i + 1) - 2].body.type = "hello"
  BY <1>1, <1>2, Zenon DEF StreamOf, Handshakes, Own
<1>5. NewerFrom(t, i, g, n.since)
  BY <1>1, <1>2, <1>3, NewerShrunk DEF Heads
<1>6. i = 1 => "capabilities" \in n.got /\ "hello" \in n.got
  <2> SUFFICES ASSUME i = 1
               PROVE  "capabilities" \in n.got /\ "hello" \in n.got
    OBVIOUS
  <2>1. i + 1 > 1 /\ i + 1 <= 2 /\ (i + 1) - 1 = 1
    OBVIOUS
  <2> QED
    BY <1>2, <1>3, <1>4, <2>1
<1>7. i = 2 => "hello" \in n.got
  <2> SUFFICES ASSUME i = 2
               PROVE  "hello" \in n.got
    OBVIOUS
  <2>1. i + 1 > 2 /\ (i + 1) - 2 = 1
    OBVIOUS
  <2> QED
    BY <1>2, <1>4, <2>1
<1>8. i <= 2 => i = 1 \/ i = 2
  BY <1>1
<1> QED
  BY <1>5, <1>6, <1>7, <1>8

(* A response completes the handshake but for its snapshot. *)
LEMMA AssemblyAnswered ==
    ASSUME NEW k, NEW s, NEW t, NEW m, Heads(s, t, m), NEW g, NEW n, Learns(k, m.body, n),
           Baseline(k), Awaited(k, s, g), StreamOf(s, g), ~Answered(k), Answered(n)
    PROVE  Assembly(n, t, g) /\ NewerFrom(s, 1, g, k.since)
<1>1. Own(k, s[1]) /\ k.got \subseteq n.got
  BY DEF Answered, Learns, Heads, Own, OwnResponse
<1>2. 1 \in DOMAIN s
  BY DEF Heads
<1>3. /\ NewerFrom(s, 1, g, k.since) /\ "capabilities" \in k.got /\ "hello" \in k.got
  BY <1>1, <1>2 DEF Awaited
<1>4. 1 + 1 \in DOMAIN s /\ s[1 + 1].body.type = "state_snapshot"
  BY <1>1, <1>2, Zenon DEF StreamOf, Handshakes, Own
<1>5. t \in Seq(MessageType) /\ 1 \in DOMAIN t
  BY <1>4 DEF Heads, Shrunk
<1>6. t[1] = s[1 + 1] /\ t # <<>>
  BY <1>5, ShrunkMessage DEF Heads
<1>7. ~IsPart(t[1])
  BY <1>4, <1>6 DEF IsPart, PartTypes
<1> QED
  BY <1>1, <1>3, <1>4, <1>6, <1>7 DEF Assembly

LEMMA AssemblyNext ==
    ASSUME NEW k, NEW s, NEW t, NEW m, Heads(s, t, m), NEW g, NEW n, Learns(k, m.body, n),
           StreamOf(s, g), Assembly(k, s, g), NewerFrom(s, 1, g, k.since)
    PROVE  Assembly(n, t, g)
<1>1. n.since = k.since /\ k.got \subseteq n.got /\ m = s[1] /\ 1 \in DOMAIN s /\ s # <<>>
  BY DEF Learns, CoreSame, Heads
<1>2. {"hello", "capabilities"} \subseteq n.got
  BY <1>1 DEF Assembly
<1>3. "state_snapshot" \in n.got /\ n.snap.number > n.since
  <2>1. CASE m.body.type = "state_snapshot"
    <3>1. "state_snapshot" \in n.got
      BY <2>1 DEF Learns
    <3>2. n.snap = [id |-> m.body.ref, name |-> m.body.name, number |-> m.body.number]
      BY <2>1 DEF Learns, Told
    <3>3. Number(m) > k.since
      BY <1>1, <2>1 DEF NewerFrom, Tells, Telling
    <3>4. n.snap.number = m.body.number
      BY <3>2
    <3> QED
      BY <1>1, <3>1, <3>3, <3>4 DEF Number
  <2>2. CASE m.body.type # "state_snapshot"
    BY <1>1, <2>2 DEF Assembly, Learns, Told
  <2> QED
    BY <2>1, <2>2
<1>4. OfWorld(m) => Assembles(n, Number(m))
  BY <1>1, AssemblesNext DEF Assembly
<1>5. t # <<>> /\ IsPart(t[1]) => Assembles(n, Number(t[1]))
  <2> SUFFICES ASSUME t # <<>>, IsPart(t[1])
               PROVE  Assembles(n, Number(t[1]))
    OBVIOUS
  <2>1. 1 \in DOMAIN t
    BY DEF Heads, Shrunk
  <2>2. 1 + 1 \in DOMAIN s /\ t[1] = s[1 + 1]
    BY <2>1, ShrunkMessage DEF Heads
  <2>3. 1 + 1 > 1 /\ (1 + 1) - 1 = 1
    OBVIOUS
  <2>4. OfWorld(s[(1 + 1) - 1]) /\ Number(s[(1 + 1) - 1]) = Number(s[1 + 1])
    BY <2>2, <2>3, Zenon DEF StreamOf, PartsFollow
  <2> QED
    BY <1>1, <1>4, <2>2, <2>3, <2>4
<1>6. t = <<>> /\ Underway(g) => Assembles(n, g.doing.number)
  <2> SUFFICES ASSUME t = <<>>, Underway(g)
               PROVE  Assembles(n, g.doing.number)
    OBVIOUS
  <2>1. Len(s) = 1
    BY DEF Heads, Shrunk
  <2>2. LastIsPart(s, g)
    BY DEF StreamOf
  <2>3. OfWorld(s[Len(s)]) /\ Number(s[Len(s)]) = g.doing.number
    BY <1>1, <2>2 DEF LastIsPart
  <2> QED
    BY <1>1, <1>4, <2>1, <2>3
<1> QED
  BY <1>2, <1>3, <1>5, <1>6 DEF Assembly

LEMMA FreshProceeds ==
    ASSUME NEW k, NEW s, NEW t, NEW m, Heads(s, t, m), NEW g, NEW n, Learns(k, m.body, n),
           Baseline(k), ~Finished(n), StreamOf(s, g), FreshOf(k, s, g)
    PROVE  FreshOf(n, t, g)
<1>1. /\ n.phase = k.phase /\ n.state = k.state /\ n.since = k.since
      /\ k.state # "synchronized"
  BY DEF Learns, CoreSame, FreshOf
<1>2. Awaited(n, t, g)
  BY AwaitedNext DEF FreshOf
<1>3. ASSUME Answered(n)
      PROVE  /\ NewerFrom(s, 1, g, k.since)
             /\ Collecting(k) => Assembly(n, t, g)
  <2>1. CASE Answered(k)
    <3>1. NewerFrom(s, 1, g, k.since) /\ (Collecting(k) => Assembly(k, s, g))
      BY <2>1 DEF FreshOf, Current
    <3> QED
      BY <3>1, AssemblyNext
  <2>2. CASE ~Answered(k)
    BY <1>3, <2>2, AssemblyAnswered DEF FreshOf
  <2> QED
    BY <2>1, <2>2
<1>4. Current(n) => NewerFrom(t, 1, g, n.since)
  <2> SUFFICES ASSUME Current(n)
               PROVE  NewerFrom(t, 1, g, n.since)
    OBVIOUS
  <2>1. NewerFrom(s, 1, g, k.since)
    BY <1>1, <1>3 DEF Current
  <2>2. NewerFrom(s, 1 + 1, g, k.since)
    BY <2>1 DEF NewerFrom, Heads
  <2> QED
    BY <1>1, <2>2, NewerShrunk DEF Heads
<1>5. Collecting(n) => "world_snapshot_complete" \notin n.got
  <2> SUFFICES ASSUME Collecting(n), "world_snapshot_complete" \in n.got
               PROVE  FALSE
    OBVIOUS
  <2>1. Collecting(k) /\ "world_snapshot_complete" \notin k.got
    BY <1>1 DEF Collecting, FreshOf
  <2>2. Assembling(k) /\ k.got \subseteq n.got
    BY <2>1 DEF Learns
  <2> QED
    BY <2>2 DEF Assembling, Shaken, Finished
<1>6. Collecting(n) => Collecting(k)
  BY <1>1 DEF Collecting
<1> QED
  BY <1>1, <1>2, <1>3, <1>4, <1>5, <1>6 DEF FreshOf

(* The world is whole, and of one capture, when its synchronization ends. *)
LEMMA Assembled ==
    ASSUME NEW k, NEW s, NEW t, NEW m, Heads(s, t, m), NEW g, NEW w, Learns(k, m.body, w),
           Collecting(k), Finished(w), FreshOf(k, s, g)
    PROVE  /\ w.world = {Number(m)} /\ w.manifest # None /\ w.manifest.number = Number(m)
           /\ \A p \in w.pages : p.number = Number(m)
           /\ w.snap.number > w.since /\ Number(m) > w.since
           /\ NewerFrom(s, 1, g, w.since)
<1> DEFINE b == m.body
<1>1. m = s[1] /\ 1 \in DOMAIN s /\ s # <<>> /\ w.since = k.since /\ w.phase = k.phase
  BY DEF Heads, Learns, CoreSame
<1>2. b.type = "world_snapshot_complete" /\ Assembling(k)
  <2>1. "world_snapshot_complete" \notin k.got
    BY DEF FreshOf
  <2>2. "world_snapshot_complete" \in w.got
    BY <1>1 DEF Finished, Collecting
  <2> QED
    BY <2>1, <2>2 DEF Learns
<1>3. Baseline(k) /\ Answered(k)
  BY <1>2 DEF Collecting, Baseline, Answered, Assembling, Shaken, Summary
<1>4. NewerFrom(s, 1, g, k.since) /\ Assembly(k, s, g)
  BY <1>3 DEF FreshOf, Current
<1>5. Number(m) > k.since
  BY <1>1, <1>2, <1>4 DEF NewerFrom, Tells, Telling, WorldTypes, PartTypes
<1>6. k.manifest # None /\ k.manifest.number = Number(m) /\ \A p \in k.pages : p.number = Number(m)
  BY <1>1, <1>2, <1>4 DEF Assembly, Assembles, Assembling, IsPart, PartTypes
<1>7. w.manifest = k.manifest /\ w.pages = k.pages /\ w.snap = k.snap
  BY <1>2 DEF Learns, Told
<1>8. w.world = {p.number : p \in k.pages} \cup {k.manifest.number, b.number}
  BY <1>2 DEF Learns
<1>9. w.world = {Number(m)}
  BY <1>6, <1>8 DEF Number
<1>10. w.snap.number > k.since
  BY <1>1, <1>2, <1>4, <1>7 DEF Assembly
<1> QED
  BY <1>1, <1>4, <1>5, <1>6, <1>7, <1>9, <1>10

LEMMA FreshCompletes ==
    ASSUME NEW k, NEW s, NEW t, NEW m, Heads(s, t, m), NEW g, NEW w, Learns(k, m.body, w),
           Baseline(k), Finished(w), NEW n, ReturnsTo(w, n), FreshOf(k, s, g)
    PROVE  FreshOf(n, t, g)
<1>1. ~Baseline(n) /\ n.since = w.since
  BY DEF ReturnsTo, Retains, Baseline
<1>2. ASSUME n.state = "synchronized"
      PROVE  NewerFrom(t, 1, g, n.since) /\ Fresh(n)
  <2>1. Collecting(k)
    BY <1>2 DEF ReturnsTo, Learns, CoreSame, Baseline, Collecting
  <2>2. /\ w.world = {Number(m)} /\ w.manifest # None /\ w.manifest.number = Number(m)
        /\ \A p \in w.pages : p.number = Number(m)
        /\ w.snap.number > w.since /\ Number(m) > w.since
        /\ NewerFrom(s, 1, g, w.since)
    BY <2>1, Assembled
  <2>3. Fresh(w)
    BY <2>2 DEF Fresh
  <2>4. NewerFrom(s, 1 + 1, g, w.since)
    BY <2>2 DEF NewerFrom, Heads
  <2>5. NewerFrom(t, 1, g, w.since)
    BY <2>4, NewerShrunk DEF Heads
  <2> QED
    BY <1>1, <2>3, <2>5, FreshRetained DEF ReturnsTo
<1> QED
  BY <1>1, <1>2, FreshRests

LEMMA PulledHead ==
    ASSUME NEW c \in Clients, LinkOK(link[c]), Pops(link[c], link'[c]),
           Incoming(c) = link[c].queue[1], link[c].queue # <<>>
    PROVE  Heads(link[c].queue, link'[c].queue, Incoming(c)) /\ Parts(link[c], link'[c])
  BY DEF LinkOK, Pops, Heads, Parts

LEMMA FreshClient ==
    ASSUME TypeInv, NumberInv, StreamInv, FreshInv, NEW c \in Clients, OneClient(c)
    PROVE  FreshOf(client'[c], link'[c].queue, game)
<1> DEFINE k == client[c]  n == client'[c]  s == link[c].queue  t == link'[c].queue
           m == Incoming(c)
<1>1. /\ LinkOK(link[c]) /\ FreshOf(k, s, game) /\ StreamOf(s, game)
      /\ Parts(link[c], link'[c])
      /\ \A i \in DOMAIN s : s[i].body.correlation <= requests
  BY ClientParts DEF TypeInv, FreshInv, StreamInv, NumberInv
<1>2. NewerFrom(s, 1, game, k.since) => NewerFrom(t, 1, game, k.since)
  BY <1>1, NewerParts
<1>3. k.state = "synchronized" => Fresh(k) /\ NewerFrom(s, 1, game, k.since)
  BY <1>1 DEF FreshOf, Current
<1>4. CASE Starting(c) \/ Verifying(c)
  <2>1. \E phase : Begins(k, n, phase)
    BY <1>4 DEF Starting, Verifying
  <2>2. \A i \in DOMAIN t : t[i].body.correlation <= requests
    BY <1>1, PartOf
  <2> QED
    BY <2>1, <2>2, FreshBegins
<1>5. CASE Ordering(c)
  <2>1. PICK q \in CommandType : CommandOf(c, q, n) /\ Commands(k, n, q)
    BY <1>5 DEF Ordering
  <2>2. k.state = "synchronized"
    BY <2>1 DEF CommandOf
  <2>3. ~Baseline(n) /\ n.since = k.since
    BY <2>1 DEF Commands, Baseline
  <2>4. Fresh(n)
    BY <1>3, <2>1, <2>2 DEF Commands, Fresh
  <2> QED
    BY <1>2, <1>3, <2>2, <2>3, <2>4, FreshRests
<1>6. CASE Halting(c)
  <2>1. Retains(k, n) /\ ~Baseline(n) /\ n.since = k.since
    BY <1>6 DEF Halting, Halted, Retains, Baseline
  <2>2. n.state = "synchronized" => k.state = "synchronized"
    BY <1>6 DEF Halting, Halted
  <2> QED
    BY <1>2, <1>3, <2>1, <2>2, FreshRetained, FreshRests
<1>7. CASE Renewing(c)
  <2>1. ~Baseline(n) /\ n.state # "synchronized"
    BY <1>7 DEF Renewing, Renewed, Baseline
  <2> QED
    BY <2>1, FreshRests
<1>8. CASE Accepting(c)
  <2>1. Retains(k, n) /\ ~Baseline(n) /\ n.since = k.since /\ n.state = k.state
    BY <1>8 DEF Accepting, CoreSame, Retains, Baseline
  <2> QED
    BY <1>2, <1>3, <2>1, FreshRetained, FreshRests
<1>9. CASE Consuming(c)
  <2>1. /\ Heads(s, t, m) /\ Told(k, m.body, n) /\ ~Baseline(n) /\ n.since = k.since
        /\ n.state = k.state
    BY <1>1, <1>9, PulledHead DEF Consuming, Pulls, CoreSame, Baseline
  <2>2. ASSUME k.state = "synchronized"
        PROVE  Fresh(n)
    <3>1. Fresh(k) /\ NewerFrom(s, 1, game, k.since)
      BY <1>3, <2>2
    <3>2. m.body.type \in Telling => m.body.number > k.since
      BY <2>1, <3>1 DEF Heads, NewerFrom, Tells, Number
    <3> QED
      BY <2>1, <3>1, <3>2, FreshTold
  <2> QED
    BY <1>2, <1>3, <2>1, <2>2, FreshRests
<1>10. CASE Proceeding(c)
  <2>1. Heads(s, t, m) /\ Learns(k, m.body, n) /\ Baseline(k) /\ ~Finished(n)
    BY <1>1, <1>10, PulledHead DEF Proceeding, Pulls
  <2> QED
    BY <1>1, <2>1, FreshProceeds
<1>11. CASE Completing(c)
  <2>1. Heads(s, t, m) /\ Baseline(k)
    BY <1>1, <1>11, PulledHead DEF Completing, Pulls
  <2>2. PICK w : Learns(k, m.body, w) /\ Finished(w) /\ ReturnsTo(w, n)
    BY <1>11 DEF Completing
  <2> QED
    BY <1>1, <2>1, <2>2, FreshCompletes
<1> QED
  BY <1>4, <1>5, <1>6, <1>7, <1>8, <1>9, <1>10, <1>11, ClientCases

LEMMA FreshInit == Init => FreshInv
<1> SUFFICES ASSUME Init, NEW c \in Clients
             PROVE  FreshOf(client[c], link[c].queue, game)
  BY DEF FreshInv
<1>1. client[c] = NewClient
  BY DEF Init
<1>2. client[c].phase = "idle" /\ client[c].state = "disconnected"
  BY <1>1, NewClientTyped
<1> QED
  BY <1>2, FreshRests DEF Baseline

LEMMA FreshNext ==
    ASSUME TypeInv, NumberInv, StreamInv, FreshInv, [Next]_vars
    PROVE  FreshInv'
<1>1. CASE ScriptStep \/ GameStep
  BY <1>1, FreshScript
<1>2. CASE OthersRequest
  BY <1>2, OthersRequestTyped DEF FreshInv
<1>3. CASE \E c \in Clients : OneClient(c)
  <2>1. PICK c \in Clients : OneClient(c)
    BY <1>3
  <2>2. OthersStay(c) /\ game' = game /\ FreshOf(client'[c], link'[c].queue, game)
    BY <2>1, ClientParts, FreshClient
  <2>3. ASSUME NEW d \in Clients
        PROVE  FreshOf(client'[d], link'[d].queue, game')
    <3>1. CASE d = c
      BY <2>2, <3>1
    <3>2. CASE d # c
      BY <2>2, <3>2 DEF OthersStay, FreshInv
    <3> QED
      BY <3>1, <3>2
  <2> QED
    BY <2>3 DEF FreshInv
<1>4. CASE UNCHANGED vars
  BY <1>4 DEF vars, FreshInv
<1> QED
  BY <1>1, <1>2, <1>3, <1>4, StepCases

(* The invariants hold together. *)
LEMMA FreshKept == Spec => [](TypeInv /\ NumberInv /\ StreamInv /\ FreshInv)
<1> DEFINE I == TypeInv /\ NumberInv /\ StreamInv /\ FreshInv
<1>1. Init => I
  BY InitTypes, NumberInit, StreamInit, FreshInit
<1>2. I /\ [Next]_vars => I'
  BY NextTypes, NumberNext, StreamNext, FreshNext
<1> QED
  BY <1>1, <1>2, PTL DEF Spec

(* What a client that rests synchronized has is newer than its request     *)
(* (synchronize), whatever is loaded and begun in between.                 *)
THEOREM SynchronizedAfterAsking ==
    Spec => [](\A c \in Clients : Rested(client[c]) => TakenAfterAsking(client[c]))
<1>1. FreshInv => \A c \in Clients : Rested(client[c]) => TakenAfterAsking(client[c])
  BY DEF FreshInv, FreshOf, Fresh, Rested, TakenAfterAsking
<1> QED
  BY <1>1, FreshKept, PTL

--------------------------------------------------------------------------------
(***************************************************************************)
(* A success that is reported has happened.                                *)
(***************************************************************************)
Later(id, name, n) ==
    \E i \in DOMAIN log' : log'[i].id = id /\ log'[i].name = name /\ log'[i].at <= n

LEMMA LoggedLater ==
    ASSUME TypeInv, [Next]_vars, NEW id, NEW name, NEW n \in Nat, Logged(id, name, n),
           NEW m \in Nat, n <= m
    PROVE  Later(id, name, m)
<1>1. PICK i \in DOMAIN log : log[i].id = id /\ log[i].name = name /\ log[i].at <= n
  BY DEF Logged
<1>2. log \in Seq(EntryType) /\ log[i].at \in Nat
  <2>1. log \in Seq(EntryType)
    BY DEF TypeInv
  <2>2. log[i] \in EntryType
    BY <2>1
  <2> QED
    BY <2>1, <2>2 DEF EntryType
<1>3. log[i].at <= m
  BY <1>1, <1>2
<1>4. CASE log' = log
  BY <1>1, <1>3, <1>4 DEF Later
<1>5. CASE log' # log
  <2> DEFINE e == EntryOf(inbox[1])
  <2>1. log' = Append(log, e)
    BY <1>5, LogGrows
  <2> HIDE DEF e
  <2>2. i \in DOMAIN log' /\ log'[i] = log[i]
    BY <1>2, <2>1
  <2> QED
    BY <1>1, <1>3, <2>2 DEF Later
<1> QED
  BY <1>4, <1>5

(* A command that is still to be answered. *)
Pending(q) ==
    /\ q \in CommandType
    /\ \/ \E i \in DOMAIN inbox : inbox[i] = q
       \/ ChangingName(game) /\ game.doing.request = q

(* A completion answers a command that was carried out. *)
Completion(b) ==
    \E q \in CommandType :
        /\ Pending(q) /\ Logged(q.id, q.name, captures)
        /\ b.correlation = q.request /\ b.ref = q.id /\ b.name = q.name

Completions(bodies) ==
    \A j \in DOMAIN bodies : bodies[j].type = "command_completed" => Completion(bodies[j])

(* What the script has done, and is about to answer, is in the log. *)
LedgerLater(g) == \A i \in DOMAIN g.ledger : Later(g.ledger[i][1], g.ledger[i][2], captures')

DoingLater(g) ==
    ChangingName(g) =>
        /\ Pending(g.doing.request)
        /\ g.doing.success => Later(g.doing.request.id, g.doing.request.name, captures')

LEMMA CompletionsOfOne ==
    ASSUME NEW b, b.type = "command_completed" => Completion(b)
    PROVE  Completions(<<b>>)
  BY DEF Completions

LEMMA CompletionsOfTwo ==
    ASSUME NEW a, a.type = "command_completed" => Completion(a),
           NEW b, b.type = "command_completed" => Completion(b)
    PROVE  Completions(<<a, b>>)
  BY DEF Completions

LEMMA NotDoing ==
    ASSUME NEW g, g.doing = None \/ g.doing.handler # "command"
    PROVE  DoingLater(g)
  BY DEF DoingLater, ChangingName

LEMMA LedgerStays ==
    ASSUME TypeInv, [Next]_vars, captures' \in Nat, captures <= captures', NEW g, GameLogged(g),
           NEW h, h.ledger = g.ledger
    PROVE  LedgerLater(h)
  BY LoggedLater DEF LedgerLater, GameLogged, TypeInv

LEMMA LedgerRemembered ==
    ASSUME TypeInv, [Next]_vars, captures' = captures, GameLogged(game), ChangingName(game),
           Logged(game.doing.request.id, game.doing.request.name, captures)
    PROVE  LedgerLater(Executed(game))
<1> DEFINE q == game.doing.request  e == <<q.id, q.name>>  ledger == Remember(game.ledger, e)
<1>1. /\ game \in GameType /\ captures \in Nat /\ captures <= captures
  BY DEF TypeInv
<1>2. /\ e \in CommandIds \X Names /\ Executed(game).ledger = ledger
      /\ game.ledger \in Seq(CommandIds \X Names)
  BY <1>1, ExecutedTyped DEF GameType
<1>3. ASSUME NEW i \in DOMAIN ledger
      PROVE  ledger[i] = e \/ \E j \in DOMAIN game.ledger : ledger[i] = game.ledger[j]
  <2> DEFINE longer == Append(game.ledger, e)
  <2> HIDE DEF e
  <2>1. /\ longer \in Seq(CommandIds \X Names) /\ longer # <<>>
        /\ \A j \in DOMAIN longer :
              longer[j] = e \/ (j \in DOMAIN game.ledger /\ longer[j] = game.ledger[j])
    <3>1. e \in CommandIds \X Names /\ game.ledger \in Seq(CommandIds \X Names)
      BY <1>2
    <3>2. longer \in Seq(CommandIds \X Names) /\ longer # <<>>
      BY <3>1
    <3>3. ASSUME NEW j \in DOMAIN longer
          PROVE  longer[j] = e \/ (j \in DOMAIN game.ledger /\ longer[j] = game.ledger[j])
      BY <3>1, <3>3
    <3> QED
      BY <3>2, <3>3
  <2>2. \E j \in DOMAIN longer : ledger[i] = longer[j]
    <3> HIDE DEF longer
    <3>1. CASE ledger = longer
      BY <1>3, <3>1
    <3>2. CASE ledger = Tail(longer)
      <4>1. i + 1 \in DOMAIN longer /\ Tail(longer)[i] = longer[i + 1]
        BY <1>3, <2>1, <3>2
      <4> QED
        BY <3>2, <4>1
    <3> QED
      BY <3>1, <3>2 DEF Remember, longer
  <2> HIDE DEF longer
  <2> QED
    BY <2>1, <2>2
<1>4. ASSUME NEW i \in DOMAIN ledger
      PROVE  Later(ledger[i][1], ledger[i][2], captures)
  <2>1. CASE ledger[i] = e
    <3>1. ledger[i][1] = q.id /\ ledger[i][2] = q.name
      BY <2>1
    <3> QED
      BY <1>1, <3>1, LoggedLater
  <2>2. CASE \E j \in DOMAIN game.ledger : ledger[i] = game.ledger[j]
    BY <1>1, <2>2, LoggedLater DEF GameLogged
  <2> QED
    BY <1>3, <2>1, <2>2
<1> QED
  BY <1>2, <1>4 DEF LedgerLater

LEMMA EntryLater ==
    ASSUME TypeInv, NEW q, log' = Append(log, EntryOf(q)), captures' = captures
    PROVE  Later(q.id, q.name, captures')
<1> DEFINE e == EntryOf(q)
<1>1. e.id = q.id /\ e.name = q.name /\ e.at = captures
  BY DEF EntryOf
<1>2. log \in Seq(EntryType) /\ captures \in Nat
  BY DEF TypeInv
<1> HIDE DEF e
<1>3. log' = Append(log, e)
  BY DEF e
<1>4. Len(log) + 1 \in DOMAIN log' /\ log'[Len(log) + 1] = e
  BY <1>2, <1>3
<1> QED
  BY <1>1, <1>2, <1>4 DEF Later

LEMMA ScriptCompletes ==
    ASSUME TypeInv, SuccessInv, ChatSteps \/ HandleResync \/ SendWorld
    PROVE  \E bodies, after :
              /\ Broadcasts(bodies, after) /\ Completions(bodies)
              /\ DoingLater(after) /\ LedgerLater(after)
<1>0. /\ game \in GameType /\ GameLogged(game) /\ (saved # None => GameLogged(saved))
      /\ captures \in Nat /\ captures + 1 \in Nat /\ captures <= captures + 1
      /\ ChangingName(game) /\ game.doing.success =>
            Logged(game.doing.request.id, game.doing.request.name, captures)
  BY DEF TypeInv, SuccessInv
<1>1. [Next]_vars
  BY DEF ChatSteps, Next, ScriptStep, GameStep
<1>2. captures' = captures \/ HandleResync
  BY ScriptCases DEF ChatSteps, ScriptStep, GameStep
<1>3. captures' \in Nat /\ captures <= captures'
  BY <1>0, <1>2, ResyncSends
<1>4. ASSUME NEW b, b.type # "command_completed"
      PROVE  Completions(<<b>>)
  BY <1>4, CompletionsOfOne
<1>5. \A h : h.ledger = game.ledger => LedgerLater(h)
  BY <1>0, <1>1, <1>3, LedgerStays
<1>6. Completions(Greeting)
  BY GreetingTyped DEF Completions
<1>7. CASE Heartbeat
  <2>1. Body("heartbeat", 0).type # "command_completed"
    BY BodyTyped DEF MessageTypes
  <2>2. Broadcasts(<<Body("heartbeat", 0)>>, game) /\ game.doing = None
    BY <1>7, HeartbeatSends
  <2> QED
    BY <1>4, <1>5, <2>1, <2>2, NotDoing
<1>8. CASE HandleCommand
  <2> DEFINE q == inbox[1]
  <2>1. /\ q \in CommandType /\ 1 \in DOMAIN inbox /\ game.doing = None
        /\ \/ Broadcasts(<<Reject(q)>>, game)
           \/ /\ Broadcasts(<<Accept(q), Complete(q)>>, game)
              /\ \E i \in DOMAIN game.ledger :
                    game.ledger[i][1] = q.id /\ game.ledger[i][2] = q.name
    BY <1>8, CommandSends
  <2>2. Pending(q)
    BY <2>1 DEF Pending
  <2> HIDE DEF q
  <2>3. Reject(q).type # "command_completed" /\ Accept(q).type # "command_completed"
    BY <2>1, AnswerTyped
  <2>4. CASE Broadcasts(<<Reject(q)>>, game)
    BY <1>4, <1>5, <2>1, <2>3, <2>4, NotDoing
  <2>5. CASE /\ Broadcasts(<<Accept(q), Complete(q)>>, game)
             /\ \E i \in DOMAIN game.ledger :
                   game.ledger[i][1] = q.id /\ game.ledger[i][2] = q.name
    <3>1. Logged(q.id, q.name, captures)
      BY <1>0, <2>5 DEF GameLogged
    <3>2. Completion(Complete(q))
      BY <2>1, <2>2, <3>1, AnswerTyped DEF Completion
    <3>3. Completions(<<Accept(q), Complete(q)>>)
      BY <2>3, <3>2, CompletionsOfTwo
    <3> QED
      BY <1>5, <2>1, <2>5, <3>3, NotDoing
  <2> QED
    BY <2>1, <2>4, <2>5
<1>9. CASE ExecuteSetCompanyName
  <2> DEFINE q == inbox[1]
  <2>1. /\ q \in CommandType /\ 1 \in DOMAIN inbox
        /\ \/ /\ Broadcasts(<<Accept(q)>>, Renaming(game, q, TRUE))
              /\ log' = Append(log, EntryOf(q))
           \/ Broadcasts(<<Accept(q)>>, Renaming(game, q, FALSE))
    BY <1>9, ExecuteSends
  <2>2. Pending(q) /\ captures' = captures
    BY <1>9, <2>1 DEF Pending, ExecuteSetCompanyName
  <2>3. log' = Append(log, EntryOf(q)) => Later(q.id, q.name, captures')
    BY <2>2, EntryLater
  <2> HIDE DEF q
  <2>4. Accept(q).type # "command_completed"
    BY <2>1, AnswerTyped
  <2>5. ASSUME NEW success \in BOOLEAN, success => Later(q.id, q.name, captures')
        PROVE  DoingLater(Renaming(game, q, success)) /\ LedgerLater(Renaming(game, q, success))
    <3> DEFINE r == Renaming(game, q, success)
    <3>1. /\ r.doing = [handler |-> "command", request |-> q, success |-> success]
          /\ r.ledger = game.ledger
      BY <1>0, <2>1, RenamingTyped, ZenonT(30)
    <3> HIDE DEF r
    <3>2. r.doing.request = q /\ r.doing.success = success
      BY <3>1
    <3>3. DoingLater(r)
      BY <2>2, <2>5, <3>2, Zenon DEF DoingLater
    <3> QED
      BY <1>5, <3>1, <3>3 DEF r
  <2>6. CASE /\ Broadcasts(<<Accept(q)>>, Renaming(game, q, TRUE))
             /\ log' = Append(log, EntryOf(q))
    BY <1>4, <2>3, <2>4, <2>5, <2>6
  <2>7. CASE Broadcasts(<<Accept(q)>>, Renaming(game, q, FALSE))
    BY <1>4, <2>4, <2>5, <2>7
  <2> QED
    BY <2>1, <2>6, <2>7
<1>10. CASE AnswerSetCompanyName
  <2> DEFINE q == game.doing.request  f == [game EXCEPT !.doing = None]
  <2>1. /\ q \in CommandType /\ ChangingName(game)
        /\ \/ Broadcasts(<<Complete(q)>>, Executed(game)) /\ game.doing.success
           \/ Broadcasts(<<Fail(q)>>, f)
    BY <1>10, AnswerSends
  <2>2. Pending(q) /\ captures' = captures
    BY <1>10, <2>1 DEF Pending, AnswerSetCompanyName
  <2>3. f.doing = None /\ f.ledger = game.ledger
    BY <1>0 DEF GameType
  <2>4. Fail(q).type # "command_completed"
    BY <2>1, AnswerTyped
  <2>5. CASE Broadcasts(<<Fail(q)>>, f)
    <3> HIDE DEF q, f
    <3> QED
      BY <1>4, <1>5, <2>3, <2>4, <2>5, NotDoing
  <2>6. CASE Broadcasts(<<Complete(q)>>, Executed(game)) /\ game.doing.success
    <3>1. Logged(q.id, q.name, captures)
      BY <1>0, <2>1, <2>6
    <3>2. Completion(Complete(q))
      BY <2>1, <2>2, <3>1, AnswerTyped DEF Completion
    <3>3. Completions(<<Complete(q)>>)
      BY <3>2, CompletionsOfOne
    <3>4. LedgerLater(Executed(game))
      BY <1>0, <1>1, <2>1, <2>2, <3>1, LedgerRemembered
    <3>5. Executed(game).doing = None
      BY <1>0, <2>1, ExecutedTyped
    <3> QED
      BY <2>6, <3>3, <3>4, <3>5, NotDoing
  <2> QED
    BY <2>1, <2>5, <2>6
<1>11. CASE LoadGame
  <2>1. /\ Broadcasts(Greeting, Load(saved)) /\ saved # None /\ saved \in GameType
    BY <1>11, LoadSends
  <2>2. Load(saved).ledger = saved.ledger /\ Load(saved).doing = None
    BY <2>1, LoadTyped
  <2>3. LedgerLater(Load(saved))
    BY <1>0, <1>1, <1>3, <2>1, <2>2, LedgerStays
  <2> QED
    BY <1>6, <2>1, <2>2, <2>3, NotDoing
<1>12. CASE StartNewGame
  <2> DEFINE g == NewGame(spent["new_game"] + 2, FirstName)
  <2>1. Broadcasts(Greeting, g)
    BY <1>12, NewGameSends
  <2>2. g.ledger = <<>> /\ g.doing = None
    BY <1>12, NewGameSends, NewGameTyped
  <2> HIDE DEF g
  <2>3. LedgerLater(g)
    BY <2>2 DEF LedgerLater
  <2> QED
    BY <1>6, <2>1, <2>2, <2>3, NotDoing
<1>13. CASE HandleResync
  <2> DEFINE h == Handshake(game, inbox[1].request, captures + 1)
             a == AfterHandshake(game, captures + 1)
  <2>1. Broadcasts(h, a) /\ inbox[1].request \in Nat
    BY <1>13, ResyncSends
  <2>2. \A i \in DOMAIN h : h[i].type # "command_completed"
    <3>1. game \in GameType /\ captures + 1 \in Nat /\ inbox[1].request \in Nat
      BY <1>0, <2>1
    <3> QED
      BY <3>1, HandshakeMessages
  <2>3. /\ a.doing = [handler |-> "world", next |-> 0, number |-> captures + 1,
                      ref |-> <<game.inst, game.seq + 5>>]
        /\ a.ledger = game.ledger
    BY <1>0, AfterHandshakeTyped
  <2> HIDE DEF h, a
  <2>4. Completions(h)
    BY <2>2 DEF Completions
  <2>5. DoingLater(a)
    BY <2>3, NotDoing
  <2> QED
    BY <1>5, <2>1, <2>3, <2>4, <2>5
<1>14. CASE SendWorld
  <2> DEFINE w == WorldMessage(game.doing)  a == AfterWorldMessage(game)
  <2>1. Broadcasts(<<w>>, a) /\ SendingWorld(game) /\ w.type \in WorldTypes
    BY <1>14, WorldSends, WorldTyped
  <2>2. /\ a.doing = IF game.doing.next > Pages THEN None
                     ELSE [handler |-> "world", next |-> game.doing.next + 1,
                           number |-> game.doing.number, ref |-> game.doing.ref]
        /\ a.ledger = game.ledger
    BY <1>0, <2>1, AfterWorldTyped
  <2> HIDE DEF w, a
  <2>3. DoingLater(a)
    BY <2>2, NotDoing
  <2>4. Completions(<<w>>)
    BY <1>4, <2>1 DEF WorldTypes, PartTypes
  <2> QED
    BY <1>5, <2>1, <2>2, <2>3, <2>4
<1> QED
  BY <1>7, <1>8, <1>9, <1>10, <1>11, <1>12, <1>13, <1>14 DEF ChatSteps

LEMMA PendingFits ==
    ASSUME NEW k, NEW s, AnswersFit(k, s), k.phase = "commanding", NEW q, Pending(q),
           q.request = k.request
    PROVE  SameCommand(k, q.id, q.name)
<1>1. q.type = "command_request"
  BY DEF Pending, CommandType
<1> QED
  BY <1>1 DEF AnswersFit, Pending

(* What is answered as completed is in the log, before a step and after. *)
QueueLater(s) ==
    \A i \in DOMAIN s : s[i].body.type = "command_completed" =>
        Later(s[i].body.ref, s[i].body.name, captures')

LEMMA QueueHears ==
    ASSUME TypeInv, SuccessInv, [Next]_vars, captures' \in Nat, captures <= captures',
           NEW c \in Clients, NEW bodies, NEW after, Broadcasts(bodies, after),
           Completions(bodies), NEW i \in DOMAIN link'[c].queue,
           link'[c].queue[i].body.type = "command_completed"
    PROVE  LET b == link'[c].queue[i].body
           IN  /\ Later(b.ref, b.name, captures')
               /\ \/ \E j \in DOMAIN link[c].queue : link'[c].queue[i] = link[c].queue[j]
                  \/ Completion(b)
<1>1. \/ Kept(link[c].queue, link'[c].queue, i)
      \/ Added(link[c].queue, link'[c].queue, i, bodies, game)
  BY HeardMessage DEF Broadcasts, TypeInv
<1>2. captures \in Nat /\ QueueLogged(link[c].queue)
  BY DEF TypeInv, SuccessInv
<1>3. CASE Kept(link[c].queue, link'[c].queue, i)
  <2>1. i \in DOMAIN link[c].queue /\ link'[c].queue[i] = link[c].queue[i]
    BY <1>3 DEF Kept
  <2>2. Logged(link[c].queue[i].body.ref, link[c].queue[i].body.name, captures)
    BY <1>2, <2>1 DEF QueueLogged
  <2> QED
    BY <1>2, <2>1, <2>2, LoggedLater
<1>4. CASE Added(link[c].queue, link'[c].queue, i, bodies, game)
  <2>1. Completion(link'[c].queue[i].body)
    BY <1>4 DEF Added, Completions
  <2>2. Later(link'[c].queue[i].body.ref, link'[c].queue[i].body.name, captures')
    BY <1>2, <2>1, LoggedLater DEF Completion
  <2> QED
    BY <2>1, <2>2
<1> QED
  BY <1>1, <1>3, <1>4

(* The answers on the way fit the client's command after the step too. *)
FitAfter(k, s) ==
    k.phase = "commanding" =>
        /\ \A i \in DOMAIN inbox' :
              inbox'[i].type = "command_request" /\ inbox'[i].request = k.request =>
                  SameCommand(k, inbox'[i].id, inbox'[i].name)
        /\ ChangingName(game') /\ game'.doing.request.request = k.request =>
              SameCommand(k, game'.doing.request.id, game'.doing.request.name)
        /\ \A i \in DOMAIN s :
              s[i].body.type = "command_completed" /\ s[i].body.correlation = k.request =>
                  SameCommand(k, s[i].body.ref, s[i].body.name)

(* A command that is being verified, and one that succeeded, after the step. *)
SucceedsAfter(k) ==
    /\ k.phase = "verifying" => Later(k.command.id, k.command.name, k.since)
    /\ k.outcome = "success" =>
          \E i \in DOMAIN log' :
              /\ log'[i].id = k.command.id /\ log'[i].name = k.command.name
              /\ log'[i].at < k.snap.number

SuccessAfter ==
    /\ LedgerLater(game') /\ (saved' # None => LedgerLater(saved'))
    /\ ChangingName(game') /\ game'.doing.success =>
          Later(game'.doing.request.id, game'.doing.request.name, captures')
    /\ \A c \in Clients :
          /\ QueueLater(link'[c].queue) /\ FitAfter(client'[c], link'[c].queue)
          /\ SucceedsAfter(client'[c])

LEMMA AfterSuccess == SuccessAfter => SuccessInv'
  BY DEF SuccessAfter, LedgerLater, QueueLater, FitAfter, SucceedsAfter, Later,
         SuccessInv, GameLogged, QueueLogged, Logged, AnswersFit, SuccessIsReal

(* A client that does not move. *)
LEMMA SuccessStays ==
    ASSUME TypeInv, SuccessInv, [Next]_vars, NEW c \in Clients
    PROVE  SucceedsAfter(client[c])
<1> DEFINE k == client[c]
<1>1. k.since \in Nat /\ log \in Seq(EntryType)
  BY DEF TypeInv, ClientOK, ClientType
<1>2. ASSUME k.phase = "verifying"
      PROVE  Later(k.command.id, k.command.name, k.since)
  BY <1>1, <1>2, LoggedLater DEF SuccessInv
<1>3. ASSUME k.outcome = "success"
      PROVE  \E i \in DOMAIN log' :
                /\ log'[i].id = k.command.id /\ log'[i].name = k.command.name
                /\ log'[i].at < k.snap.number
  <2>1. PICK i \in DOMAIN log :
           /\ log[i].id = k.command.id /\ log[i].name = k.command.name
           /\ log[i].at < k.snap.number
    BY <1>3 DEF SuccessInv, SuccessIsReal
  <2>2. i \in DOMAIN log' /\ log'[i] = log[i]
    <3>1. CASE log' = log
      BY <3>1
    <3>2. CASE log' # log
      <4> DEFINE e == EntryOf(inbox[1])
      <4>1. log' = Append(log, e)
        BY <3>2, LogGrows
      <4> HIDE DEF e
      <4> QED
        BY <1>1, <4>1
    <3> QED
      BY <3>1, <3>2
  <2> QED
    BY <2>1, <2>2
<1> QED
  BY <1>2, <1>3 DEF SucceedsAfter

LEMMA FitsScript ==
    ASSUME TypeInv, SuccessInv, ScriptStep \/ GameStep, NEW c \in Clients,
           ChangingName(game') => Pending(game'.doing.request),
           \A i \in DOMAIN link'[c].queue : link'[c].queue[i].body.type = "command_completed" =>
              \/ \E j \in DOMAIN link[c].queue : link'[c].queue[i] = link[c].queue[j]
              \/ Completion(link'[c].queue[i].body)
    PROVE  FitAfter(client[c], link'[c].queue)
<1> DEFINE k == client[c]
<1> SUFFICES ASSUME k.phase = "commanding"
             PROVE  FitAfter(k, link'[c].queue)
  BY DEF FitAfter
<1>1. AnswersFit(k, link[c].queue)
  BY DEF SuccessInv
<1>2. ASSUME NEW i \in DOMAIN inbox', inbox'[i].type = "command_request",
             inbox'[i].request = k.request
      PROVE  SameCommand(k, inbox'[i].id, inbox'[i].name)
  <2>1. PICK j \in DOMAIN inbox : inbox'[i] = inbox[j]
    BY InboxLeft
  <2> QED
    BY <1>1, <1>2, <2>1 DEF AnswersFit
<1>3. ASSUME ChangingName(game'), game'.doing.request.request = k.request
      PROVE  SameCommand(k, game'.doing.request.id, game'.doing.request.name)
  BY <1>1, <1>3, PendingFits
<1>4. ASSUME NEW i \in DOMAIN link'[c].queue,
             link'[c].queue[i].body.type = "command_completed",
             link'[c].queue[i].body.correlation = k.request
      PROVE  SameCommand(k, link'[c].queue[i].body.ref, link'[c].queue[i].body.name)
  <2>1. CASE \E j \in DOMAIN link[c].queue : link'[c].queue[i] = link[c].queue[j]
    BY <1>1, <1>4, <2>1 DEF AnswersFit
  <2>2. CASE Completion(link'[c].queue[i].body)
    BY <1>1, <1>4, <2>2, PendingFits DEF Completion
  <2> QED
    BY <1>4, <2>1, <2>2
<1> QED
  BY <1>2, <1>3, <1>4 DEF FitAfter

LEMMA SuccessScript ==
    ASSUME TypeInv, SuccessInv, ScriptStep \/ GameStep
    PROVE  SuccessInv'
<1>0. [Next]_vars
  BY DEF Next
<1>1. /\ captures \in Nat /\ client' = client
      /\ GameLogged(game) /\ (saved # None => GameLogged(saved))
      /\ ChangingName(game) /\ game.doing.success =>
            Logged(game.doing.request.id, game.doing.request.name, captures)
      /\ game \in GameType
  BY ScriptCases DEF TypeInv, SuccessInv
<1>2. captures' = captures \/ captures' = captures + 1
  BY ScriptCases, ResyncSends
<1>3. captures' \in Nat /\ captures <= captures'
  BY <1>1, <1>2
<1>4. ASSUME NEW h, h.ledger = game.ledger
      PROVE  LedgerLater(h)
  BY <1>0, <1>1, <1>3, <1>4, LedgerStays
<1>5. saved' # None => LedgerLater(saved')
  <2>1. CASE saved' = saved
    BY <1>0, <1>1, <1>3, <2>1, LedgerStays
  <2>2. CASE saved' = game
    BY <1>4, <2>2
  <2>3. saved' = saved \/ saved' = game
    BY DEF ScriptStep, GameStep, Heartbeat, HandleResync, SendWorld, HandleCommand,
           ExecuteSetCompanyName, AnswerSetCompanyName, Save, LoadGame, StartNewGame, Restart,
           Rename
  <2> QED
    BY <2>1, <2>2, <2>3
<1>6. /\ LedgerLater(game')
      /\ ChangingName(game') /\ game'.doing.success =>
            Later(game'.doing.request.id, game'.doing.request.name, captures')
      /\ \A c \in Clients :
            QueueLater(link'[c].queue) /\ FitAfter(client[c], link'[c].queue)
  <2>1. CASE Save \/ Rename
    <3>1. game'.ledger = game.ledger /\ game'.doing = game.doing
      <4>1. CASE Save
        BY <4>1 DEF Save
      <4>2. CASE Rename
        <5>1. PICK name \in Names : game' = [game EXCEPT !.name = name]
          BY <4>2 DEF Rename
        <5> QED
          BY <1>1, <5>1 DEF GameType
      <4> QED
        BY <2>1, <4>1, <4>2
    <3>2. link' = link /\ inbox' = inbox /\ captures' = captures
      BY <2>1 DEF Save, Rename
    <3>3. ChangingName(game') => ChangingName(game)
      BY <3>1 DEF ChangingName
    <3>4. /\ ChangingName(game') /\ game'.doing.success =>
               Later(game'.doing.request.id, game'.doing.request.name, captures')
      BY <1>0, <1>1, <1>3, <3>1, <3>3, LoggedLater
    <3>5. ASSUME NEW c \in Clients
          PROVE  QueueLater(link'[c].queue) /\ FitAfter(client[c], link'[c].queue)
      <4>1. QueueLogged(link[c].queue) /\ AnswersFit(client[c], link[c].queue)
        BY DEF SuccessInv
      <4>2. QueueLater(link[c].queue)
        BY <1>0, <1>1, <1>3, <4>1, LoggedLater DEF QueueLogged, QueueLater
      <4>3. FitAfter(client[c], link[c].queue)
        BY <3>1, <3>2, <3>3, <4>1 DEF AnswersFit, FitAfter
      <4> QED
        BY <3>2, <4>2, <4>3
    <3> QED
      BY <1>4, <3>1, <3>4, <3>5
  <2>2. CASE ChatSteps \/ HandleResync \/ SendWorld
    <3>1. PICK bodies, after :
             /\ Broadcasts(bodies, after) /\ Completions(bodies)
             /\ DoingLater(after) /\ LedgerLater(after)
      BY <2>2, ScriptCompletes
    <3>2. LedgerLater(game') /\ DoingLater(game')
      BY <3>1 DEF Broadcasts, GameSame, LedgerLater, DoingLater, ChangingName
    <3>3. ASSUME NEW c \in Clients
          PROVE  QueueLater(link'[c].queue) /\ FitAfter(client[c], link'[c].queue)
      <4>1. ASSUME NEW i \in DOMAIN link'[c].queue,
                   link'[c].queue[i].body.type = "command_completed"
            PROVE  LET b == link'[c].queue[i].body
                   IN  /\ Later(b.ref, b.name, captures')
                       /\ \/ \E j \in DOMAIN link[c].queue :
                                link'[c].queue[i] = link[c].queue[j]
                          \/ Completion(b)
        BY <1>0, <1>3, <3>1, <4>1, QueueHears
      <4>2. QueueLater(link'[c].queue)
        BY <4>1 DEF QueueLater
      <4>3. ChangingName(game') => Pending(game'.doing.request)
        BY <3>2 DEF DoingLater
      <4> QED
        BY <4>1, <4>2, <4>3, FitsScript
    <3> QED
      BY <3>2, <3>3 DEF DoingLater
  <2> QED
    BY <2>1, <2>2 DEF ScriptStep, GameStep, ChatSteps
<1>7. \A c \in Clients : SucceedsAfter(client[c])
  BY <1>0, SuccessStays
<1> QED
  BY <1>1, <1>5, <1>6, <1>7, AfterSuccess DEF SuccessAfter

(* The clients: a new request is not one that a client waits for. *)
NewRequests ==
    \A i \in DOMAIN inbox' :
        (\E j \in DOMAIN inbox : inbox'[i] = inbox[j]) \/ inbox'[i].request = requests + 1

LEMMA RequestsNew ==
    ASSUME TypeInv, OthersRequest \/ \E c \in Clients : OneClient(c)
    PROVE  NewRequests
<1>1. CASE Silent
  BY <1>1 DEF Silent, NewRequests
<1>2. CASE ~Silent
  <2>1. PICK q \in RequestType : q.request = requests + 1 /\ inbox' = Append(inbox, q)
    BY <1>2, ClientRequests, OthersRequestTyped
  <2> QED
    BY <2>1, InboxGrows DEF NewRequests
<1> QED
  BY <1>1, <1>2

LEMMA FitsMore ==
    ASSUME requests \in Nat, NewRequests, game' = game, NEW k, NEW s, AnswersFit(k, s),
           k.request <= requests, k.request \in Nat, NEW t,
           \A i \in DOMAIN t : \E j \in DOMAIN s : t[i] = s[j],
           NEW n, n.phase = k.phase, n.command = k.command, n.request = k.request
    PROVE  FitAfter(n, t)
<1> SUFFICES ASSUME n.phase = "commanding"
             PROVE  FitAfter(n, t)
  BY DEF FitAfter
<1>1. \A id, name : SameCommand(n, id, name) <=> SameCommand(k, id, name)
  BY DEF SameCommand
<1>2. ASSUME NEW i \in DOMAIN inbox', inbox'[i].type = "command_request",
             inbox'[i].request = n.request
      PROVE  SameCommand(n, inbox'[i].id, inbox'[i].name)
  <2>1. inbox'[i].request # requests + 1
    BY <1>2
  <2>2. PICK j \in DOMAIN inbox : inbox'[i] = inbox[j]
    BY <2>1 DEF NewRequests
  <2> QED
    BY <1>1, <1>2, <2>2 DEF AnswersFit
<1>3. ASSUME ChangingName(game), game.doing.request.request = n.request
      PROVE  SameCommand(n, game.doing.request.id, game.doing.request.name)
  BY <1>1, <1>3 DEF AnswersFit
<1>4. ASSUME NEW i \in DOMAIN t, t[i].body.type = "command_completed",
             t[i].body.correlation = n.request
      PROVE  SameCommand(n, t[i].body.ref, t[i].body.name)
  <2>1. PICK j \in DOMAIN s : t[i] = s[j]
    OBVIOUS
  <2> QED
    BY <1>1, <1>4, <2>1 DEF AnswersFit
<1> QED
  BY <1>2, <1>3, <1>4 DEF FitAfter

(* A command that is sent: no answer to it is on the way. *)
LEMMA FitsOrdered ==
    ASSUME TypeInv, NumberInv, NEW c \in Clients, Ordering(c), game' = game
    PROVE  FitAfter(client'[c], link'[c].queue)
<1> DEFINE n == client'[c]
<1>1. PICK q \in CommandType : Asked(c, q) /\ Commands(client[c], n, q)
  BY DEF Ordering
<1>2. /\ q.request = requests + 1 /\ n.request = requests + 1 /\ inbox' = Append(inbox, q)
      /\ n.command = [id |-> q.id, name |-> q.name] /\ q \in RequestType /\ requests \in Nat
      /\ link'[c].queue = link[c].queue
  BY <1>1 DEF Asked, Commands, TypeInv, Ordering
<1>3. ASSUME NEW i \in DOMAIN inbox', inbox'[i].request = n.request
      PROVE  SameCommand(n, inbox'[i].id, inbox'[i].name)
  <2>1. CASE inbox'[i] = q
    BY <1>2, <2>1 DEF SameCommand
  <2>2. CASE i \in DOMAIN inbox /\ inbox'[i] = inbox[i]
    BY <1>2, <1>3, <2>2 DEF NumberInv
  <2> QED
    BY <1>2, <2>1, <2>2, InboxGrows
<1>4. ChangingName(game) => game.doing.request.request # n.request
  BY <1>2 DEF NumberInv, DoingNumbered
<1>5. \A i \in DOMAIN link[c].queue : link[c].queue[i].body.correlation # n.request
  BY <1>2 DEF NumberInv
<1> QED
  BY <1>2, <1>3, <1>4, <1>5 DEF FitAfter

LEMMA FitsClient ==
    ASSUME TypeInv, NumberInv, SuccessInv, NEW c \in Clients, OneClient(c)
    PROVE  FitAfter(client'[c], link'[c].queue)
<1> DEFINE k == client[c]  n == client'[c]  s == link[c].queue  t == link'[c].queue
<1>1. /\ requests \in Nat /\ NewRequests /\ game' = game /\ AnswersFit(k, s)
      /\ k.request <= requests /\ k.request \in Nat
      /\ \A i \in DOMAIN t : \E j \in DOMAIN s : t[i] = s[j]
  <2>1. k.request <= requests /\ k.request \in Nat /\ requests \in Nat
    BY DEF TypeInv, NumberInv, ClientOK, ClientType
  <2>2. AnswersFit(k, s) /\ LinkOK(link[c])
    BY DEF TypeInv, SuccessInv
  <2>3. NewRequests /\ game' = game /\ Parts(link[c], link'[c])
    BY ClientParts, RequestsNew
  <2> QED
    BY <2>1, <2>2, <2>3, PartOf
<1>2. CASE n.phase # "commanding"
  BY <1>2 DEF FitAfter
<1>3. CASE Ordering(c)
  BY <1>1, <1>3, FitsOrdered
<1>4. CASE Accepting(c) \/ Consuming(c)
  <2>1. n.phase = k.phase /\ n.command = k.command /\ n.request = k.request
    BY <1>4 DEF Accepting, Consuming, CoreSame
  <2> QED
    BY <1>1, <2>1, FitsMore
<1>5. CASE Starting(c) \/ Halting(c) \/ Renewing(c) \/ Proceeding(c) \/ Completing(c)
           \/ Verifying(c)
  <2>1. n.phase # "commanding"
    BY <1>5 DEF Starting, Begins, Halting, Halted, Renewing, Proceeding, Learns, CoreSame,
                Baseline, Completing, ReturnsTo, Verifying
  <2> QED
    BY <1>2, <2>1
<1> QED
  BY <1>3, <1>4, <1>5, ClientCases

(* The completion a client takes for its own is of its command. *)
LEMMA VerifiesDone ==
    ASSUME TypeInv, SuccessInv, [Next]_vars, NEW c \in Clients, Verifying(c)
    PROVE  SucceedsAfter(client'[c])
<1> DEFINE k == client[c]  n == client'[c]  b == Incoming(c).body
<1>1. /\ k.phase = "commanding" /\ b.correlation = k.request /\ b.type = "command_completed"
      /\ Begins(k, n, "verifying")
      /\ Incoming(c) = link[c].queue[1] /\ link[c].queue # <<>>
  BY DEF Verifying, Unsolicited
<1>2. n.command = k.command /\ n.since = captures /\ n.outcome = "none"
  BY <1>1 DEF Begins
<1>3. /\ link[c].queue \in Seq(MessageType) /\ captures \in Nat
      /\ QueueLogged(link[c].queue) /\ AnswersFit(k, link[c].queue)
  BY DEF TypeInv, LinkOK, SuccessInv
<1>4. 1 \in DOMAIN link[c].queue
  BY <1>1, <1>3
<1>5. Logged(b.ref, b.name, captures)
  BY <1>1, <1>3, <1>4 DEF QueueLogged
<1>6. SameCommand(k, b.ref, b.name)
  BY <1>1, <1>3, <1>4 DEF AnswersFit
<1>7. Later(n.command.id, n.command.name, n.since)
  BY <1>2, <1>3, <1>5, <1>6, LoggedLater DEF SameCommand
<1> QED
  BY <1>2, <1>7 DEF SucceedsAfter

(* The snapshot that verifies a command is newer than its execution. *)
LEMMA SucceedsDone ==
    ASSUME TypeInv, FreshInv, SuccessInv, [Next]_vars, NEW c \in Clients, Completing(c)
    PROVE  SucceedsAfter(client'[c])
<1> DEFINE k == client[c]  n == client'[c]  s == link[c].queue  t == link'[c].queue
           m == Incoming(c)
<1>1. n.phase = "idle"
  BY DEF Completing, ReturnsTo
<1> SUFFICES ASSUME n.outcome = "success"
             PROVE  \E i \in DOMAIN log' :
                       /\ log'[i].id = n.command.id /\ log'[i].name = n.command.name
                       /\ log'[i].at < n.snap.number
  BY <1>1 DEF SucceedsAfter
<1>2. PICK w : Learns(k, m.body, w) /\ Finished(w) /\ ReturnsTo(w, n)
  BY DEF Completing
<1>3. k.phase = "verifying" /\ n.command = k.command /\ n.snap = w.snap /\ w.since = k.since
  BY <1>2 DEF ReturnsTo, Retains, Learns, CoreSame
<1>4. Heads(s, t, m) /\ FreshOf(k, s, game) /\ Collecting(k)
  BY <1>3, PulledHead DEF Completing, Pulls, TypeInv, FreshInv, Collecting
<1>5. w.snap.number > w.since
  BY <1>2, <1>4, Assembled
<1>6. w.snap.number \in Nat /\ k.since \in Nat
  <2>1. "state_snapshot" \in w.got /\ ClientOK(w) /\ ClientOK(k)
    BY <1>2 DEF Finished, Shaken, Summary, Learns, TypeInv
  <2>2. w.snap \in SnapType
    BY <2>1 DEF ClientOK, Has
  <2> QED
    BY <2>1, <2>2 DEF SnapType, ClientOK, ClientType
<1>7. Later(k.command.id, k.command.name, k.since)
  BY <1>3, SuccessStays DEF SucceedsAfter
<1>8. PICK i \in DOMAIN log' :
         /\ log'[i].id = k.command.id /\ log'[i].name = k.command.name
         /\ log'[i].at <= k.since
  BY <1>7 DEF Later
<1>9. log'[i].at \in Nat
  <2>1. log' \in Seq(EntryType)
    BY NextTypes DEF TypeInv
  <2>2. log'[i] \in EntryType
    BY <2>1
  <2> QED
    BY <2>2 DEF EntryType
<1>10. log'[i].at < n.snap.number
  BY <1>3, <1>5, <1>6, <1>8, <1>9
<1> QED
  BY <1>3, <1>8, <1>10

LEMMA SucceedsClient ==
    ASSUME TypeInv, FreshInv, SuccessInv, NEW c \in Clients, OneClient(c), [Next]_vars
    PROVE  SucceedsAfter(client'[c])
<1> DEFINE k == client[c]  n == client'[c]
<1>1. SucceedsAfter(k) /\ (k.phase # "idle" => k.outcome = "none")
  BY SuccessStays DEF TypeInv, ClientOK
<1>2. ASSUME n.phase # "verifying", n.outcome # "success"
      PROVE  SucceedsAfter(n)
  BY <1>2 DEF SucceedsAfter
<1>3. CASE Starting(c) \/ Ordering(c) \/ Renewing(c)
  BY <1>2, <1>3 DEF Starting, Begins, Ordering, Commands, Renewing, Renewed
<1>4. CASE Halting(c)
  <2>1. /\ Retains(k, n)
        /\ n.phase = "idle"
        /\ n.outcome = "success" => k.outcome = "success"
    BY <1>4 DEF Halting, Halted
  <2> QED
    BY <1>1, <2>1 DEF SucceedsAfter, Retains
<1>5. CASE Proceeding(c)
  <2>1. CoreSame(k, n) /\ k.phase # "idle"
    BY <1>5 DEF Proceeding, Learns, Baseline
  <2> QED
    BY <1>1, <2>1 DEF SucceedsAfter, CoreSame
<1>6. CASE Accepting(c) \/ Consuming(c)
  <2>1. n.phase = "commanding" /\ n.outcome = "none"
    BY <1>1, <1>6 DEF Accepting, Consuming, CoreSame
  <2> QED
    BY <1>2, <2>1
<1> QED
  BY <1>3, <1>4, <1>5, <1>6, ClientCases, VerifiesDone, SucceedsDone

LEMMA SuccessQueue ==
    ASSUME TypeInv, SuccessInv, [Next]_vars, captures' = captures, NEW c \in Clients,
           \A i \in DOMAIN link'[c].queue :
              \E j \in DOMAIN link[c].queue : link'[c].queue[i] = link[c].queue[j]
    PROVE  QueueLater(link'[c].queue)
<1>1. captures \in Nat /\ captures <= captures /\ QueueLogged(link[c].queue)
  BY DEF TypeInv, SuccessInv
<1> SUFFICES ASSUME NEW i \in DOMAIN link'[c].queue,
                    link'[c].queue[i].body.type = "command_completed"
             PROVE  Later(link'[c].queue[i].body.ref, link'[c].queue[i].body.name, captures)
  BY DEF QueueLater
<1>2. PICK j \in DOMAIN link[c].queue : link'[c].queue[i] = link[c].queue[j]
  OBVIOUS
<1>3. Logged(link[c].queue[j].body.ref, link[c].queue[j].body.name, captures)
  BY <1>1, <1>2 DEF QueueLogged
<1> QED
  BY <1>1, <1>2, <1>3, LoggedLater

LEMMA SuccessNoGame ==
    ASSUME TypeInv, SuccessInv, [Next]_vars, UNCHANGED <<game, saved, captures>>
    PROVE  /\ LedgerLater(game') /\ (saved' # None => LedgerLater(saved'))
           /\ ChangingName(game') /\ game'.doing.success =>
                Later(game'.doing.request.id, game'.doing.request.name, captures')
<1>1. /\ captures \in Nat /\ captures' \in Nat /\ captures <= captures'
      /\ GameLogged(game) /\ (saved # None => GameLogged(saved))
      /\ ChangingName(game) /\ game.doing.success =>
            Logged(game.doing.request.id, game.doing.request.name, captures)
  BY DEF TypeInv, SuccessInv
<1>2. LedgerLater(game) /\ (saved # None => LedgerLater(saved))
  BY <1>1, LedgerStays
<1>3. ChangingName(game) /\ game.doing.success =>
         Later(game.doing.request.id, game.doing.request.name, captures')
  BY <1>1, LoggedLater
<1> QED
  BY <1>2, <1>3

LEMMA SuccessClient ==
    ASSUME TypeInv, NumberInv, FreshInv, SuccessInv, NEW c \in Clients, OneClient(c),
           [Next]_vars
    PROVE  SuccessInv'
<1>1. /\ OthersStay(c) /\ UNCHANGED <<game, saved, captures, log>>
      /\ Parts(link[c], link'[c])
  BY ClientParts
<1>2. ASSUME NEW d \in Clients
      PROVE  /\ QueueLater(link'[d].queue) /\ FitAfter(client'[d], link'[d].queue)
             /\ SucceedsAfter(client'[d])
  <2>1. \A i \in DOMAIN link'[d].queue :
           \E j \in DOMAIN link[d].queue : link'[d].queue[i] = link[d].queue[j]
    <3>1. CASE d = c
      <4> DEFINE l == link[d]  m == link'[d]
      <4>1. LinkOK(l) /\ Parts(l, m)
        BY <1>1, <3>1 DEF TypeInv
      <4> HIDE DEF l, m
      <4>2. \A i \in DOMAIN m.queue : \E j \in DOMAIN l.queue : m.queue[i] = l.queue[j]
        BY <4>1, PartOf
      <4> QED
        BY <4>2 DEF l, m
    <3>2. CASE d # c
      BY <1>1, <3>2 DEF OthersStay
    <3> QED
      BY <3>1, <3>2
  <2>2. QueueLater(link'[d].queue)
    BY <1>1, <2>1, SuccessQueue
  <2>3. CASE d = c
    BY <2>2, <2>3, FitsClient, SucceedsClient
  <2>4. CASE d # c
    <3>1. client'[d] = client[d] /\ link'[d] = link[d]
      BY <1>1, <2>4 DEF OthersStay
    <3>2. /\ client[d].request <= requests /\ client[d].request \in Nat /\ requests \in Nat
      BY DEF TypeInv, NumberInv, ClientOK, ClientType
    <3>3. AnswersFit(client[d], link[d].queue) /\ NewRequests
      BY RequestsNew DEF SuccessInv
    <3>4. FitAfter(client[d], link[d].queue)
      BY <1>1, <3>2, <3>3, FitsMore
    <3> QED
      BY <2>2, <3>1, <3>4, SuccessStays
  <2> QED
    BY <2>3, <2>4
<1> QED
  BY <1>1, <1>2, SuccessNoGame, AfterSuccess DEF SuccessAfter

LEMMA SuccessOthers ==
    ASSUME TypeInv, NumberInv, SuccessInv, OthersRequest, [Next]_vars
    PROVE  SuccessInv'
<1>1. UNCHANGED <<game, saved, link, client, captures, log>>
  BY OthersRequestTyped
<1>2. ASSUME NEW d \in Clients
      PROVE  /\ QueueLater(link'[d].queue) /\ FitAfter(client'[d], link'[d].queue)
             /\ SucceedsAfter(client'[d])
  <2>1. QueueLater(link'[d].queue)
    BY <1>1, SuccessQueue
  <2>2. /\ client[d].request <= requests /\ client[d].request \in Nat /\ requests \in Nat
    BY DEF TypeInv, NumberInv, ClientOK, ClientType
  <2>3. AnswersFit(client[d], link[d].queue) /\ NewRequests
    BY RequestsNew DEF SuccessInv
  <2>4. FitAfter(client[d], link[d].queue)
    BY <1>1, <2>2, <2>3, FitsMore
  <2> QED
    BY <1>1, <2>1, <2>4, SuccessStays
<1> QED
  BY <1>1, <1>2, SuccessNoGame, AfterSuccess DEF SuccessAfter

LEMMA SuccessInit == Init => SuccessInv
<1> SUFFICES ASSUME Init
             PROVE  SuccessInv
  OBVIOUS
<1>1. /\ saved = None /\ log = <<>>
      /\ \A c \in Clients : client[c] = NewClient /\ link[c].queue = <<>>
  BY DEF Init
<1>2. game.doing = None /\ game.ledger = <<>>
  BY GreetingTyped, NewGameTyped, SentTyped DEF Init
<1>3. ~ChangingName(game) /\ GameLogged(game)
  BY <1>2 DEF ChangingName, GameLogged
<1>4. NewClient.phase = "idle" /\ NewClient.outcome = "none"
  BY NewClientTyped
<1> QED
  BY <1>1, <1>3, <1>4 DEF SuccessInv, QueueLogged, AnswersFit, SuccessIsReal

LEMMA SuccessNext ==
    ASSUME TypeInv, NumberInv, FreshInv, SuccessInv, [Next]_vars
    PROVE  SuccessInv'
<1>1. CASE ScriptStep \/ GameStep
  BY <1>1, SuccessScript
<1>2. CASE OthersRequest
  BY <1>2, SuccessOthers
<1>3. CASE \E c \in Clients : OneClient(c)
  BY <1>3, SuccessClient
<1>4. CASE UNCHANGED vars
  BY <1>4 DEF vars, SuccessInv, GameLogged, QueueLogged, Logged, AnswersFit, SuccessIsReal,
              ChangingName
<1> QED
  BY <1>1, <1>2, <1>3, <1>4, StepCases

(* A client that reports success has a change of the name to show for it,  *)
(* made by its command before the snapshot that verified it was taken      *)
(* (execute_set_company_name).                                             *)
THEOREM SuccessHappened == Spec => []SuccessIsReal
<1> DEFINE I == TypeInv /\ NumberInv /\ StreamInv /\ FreshInv
<1>1. Init => SuccessInv
  BY SuccessInit
<1>2. I /\ SuccessInv /\ [Next]_vars => SuccessInv'
  BY SuccessNext
<1>3. SuccessInv => SuccessIsReal
  BY DEF SuccessInv
<1>4. Spec => []I
  BY FreshKept
<1> HIDE DEF I
<1> QED
  BY <1>1, <1>2, <1>3, <1>4, PTL DEF Spec

--------------------------------------------------------------------------------
(***************************************************************************)
(* Identity: until a saved game is loaded, an ID names one capture.        *)
(***************************************************************************)
LEMMA SpentElsewhere ==
    ASSUME Next, ~StartNewGame, ~LoadGame
    PROVE  \E kind \in Kinds \ {"new_game", "load"} : Spend(kind) \/ spent' = spent
<1> DEFINE Else == Kinds \ {"new_game", "load"}
<1>1. /\ "other" \in Else /\ "save" \in Else /\ "synchronize" \in Else /\ "verify" \in Else
      /\ "command" \in Else /\ "process" \in Else /\ "timeout" \in Else
  BY DEF Kinds
<1> SUFFICES \E kind \in Else : Spend(kind) \/ spent' = spent
  OBVIOUS
<1> HIDE DEF Else
<1>2. CASE ScriptStep
  <2>1. Spend("other") \/ spent' = spent
    BY <1>2 DEF ScriptStep, Heartbeat, HandleResync, SendWorld, HandleCommand,
                ExecuteSetCompanyName, AnswerSetCompanyName
  <2> QED
    BY <1>1, <2>1
<1>3. CASE GameStep
  <2>1. Spend("save") \/ Spend("other")
    BY <1>3 DEF GameStep, Save, Rename
  <2> QED
    BY <1>1, <2>1
<1>4. CASE OthersRequest
  BY <1>1, <1>4 DEF OthersRequest
<1>5. ASSUME NEW c \in Clients,
             \/ Synchronize(c) \/ VerifyIdentity(c) \/ SendCommand(c)
             \/ ClientStep(c) \/ CollectState(c) \/ Close(c) \/ NewProcess(c)
      PROVE  \E kind \in Else : Spend(kind) \/ spent' = spent
  <2>1. CASE ClientStep(c)
    <3>1. Spend("timeout") \/ spent' = spent
      BY <2>1 DEF ClientStep, ReceiveRefused, Negotiate, ConsumeUnsolicited,
                  ReceiveAnswer, Timeout
    <3> QED
      BY <1>1, <3>1
  <2>2. CASE ~ClientStep(c)
    <3>1. \/ Spend("synchronize") \/ Spend("verify") \/ Spend("command") \/ Spend("process")
          \/ spent' = spent
      BY <1>5, <2>2 DEF Synchronize, VerifyIdentity, SendCommand, CollectState, Close,
                        NewProcess
    <3> QED
      BY <1>1, <3>1
  <2> QED
    BY <2>1, <2>2
<1> QED
  BY <1>2, <1>3, <1>4, <1>5 DEF Next

(* What is counted of new games and of loads. *)
LEMMA EventsCounted ==
    ASSUME TypeInv, [Next]_vars, ~LoadGame
    PROVE  /\ spent'["new_game"] = spent["new_game"] \/ StartNewGame
           /\ spent'["load"] = spent["load"] \/ StartNewGame
<1>1. CASE UNCHANGED vars
  BY <1>1 DEF vars
<1>2. ASSUME Next, ~StartNewGame
      PROVE  spent'["new_game"] = spent["new_game"] /\ spent'["load"] = spent["load"]
  <2>1. PICK kind \in Kinds \ {"new_game", "load"} : Spend(kind) \/ spent' = spent
    BY <1>2, SpentElsewhere
  <2>2. "new_game" \in Kinds /\ "load" \in Kinds
    BY DEF Kinds
  <2> QED
    BY <2>1, <2>2, SpendTyped
<1> QED
  BY <1>1, <1>2

LEMMA LoadsCounted ==
    ASSUME TypeInv, [Next]_vars, NeverLoaded'
    PROVE  NeverLoaded /\ ~LoadGame
<1>1. ~LoadGame
  BY LoadSends DEF NeverLoaded
<1>2. StartNewGame => spent'["load"] = spent["load"]
  BY SpendTyped DEF StartNewGame, Kinds
<1> QED
  BY <1>1, <1>2, EventsCounted DEF NeverLoaded

(* A game as it may be a step later: a new capture has a new ID. *)
Ages(g, h) ==
    \/ /\ h.inst = g.inst /\ g.seq <= h.seq
       /\ h.lastSnap = g.lastSnap /\ h.number = g.number
    \/ h.inst = g.inst /\ g.seq + 4 <= h.seq /\ h.lastSnap = <<g.inst, g.seq + 4>>
    \/ g.inst < h.inst /\ h.lastSnap = None /\ h.number = 0

InstanceCounted == game.inst = spent["new_game"] + 1

LEMMA BroadcastAges ==
    ASSUME TypeInv, NEW bodies, NEW after, Broadcasts(bodies, after),
           after.inst = game.inst, after.seq = game.seq, after.lastSnap = game.lastSnap,
           after.number = game.number
    PROVE  Ages(game, game') /\ game'.inst = game.inst
<1>1. game.seq \in Nat /\ Len(bodies) \in Nat
  BY DEF TypeInv, GameType, Broadcasts, Bodies
<1>2. /\ game'.inst = game.inst /\ game'.lastSnap = game.lastSnap
      /\ game'.number = game.number /\ game'.seq = game.seq + Len(bodies)
  BY DEF Broadcasts, GameSame
<1> QED
  BY <1>1, <1>2 DEF Ages

LEMMA GameAges ==
    ASSUME TypeInv, InstanceCounted, ScriptStep \/ GameStep, ~LoadGame
    PROVE  Ages(game, game') /\ (StartNewGame \/ game'.inst = game.inst)
<1>1. game \in GameType /\ game.seq \in Nat /\ game.inst \in Nat /\ captures + 1 \in Nat
  BY DEF TypeInv, GameType
<1>2. CASE Save
  BY <1>1, <1>2 DEF Save, Ages
<1>3. CASE Rename
  <2>1. PICK name \in Names : game' = [game EXCEPT !.name = name]
    BY <1>3 DEF Rename
  <2>2. /\ game'.inst = game.inst /\ game'.seq = game.seq /\ game'.lastSnap = game.lastSnap
        /\ game'.number = game.number
    BY <1>1, <2>1 DEF GameType
  <2> QED
    BY <1>1, <2>2 DEF Ages
<1>4. CASE Heartbeat
  BY <1>4, HeartbeatSends, BroadcastAges
<1>5. CASE HandleCommand
  BY <1>5, CommandSends, BroadcastAges
<1>6. CASE ExecuteSetCompanyName
  <2>1. PICK success \in BOOLEAN :
           /\ inbox[1] \in CommandType
           /\ Broadcasts(<<Accept(inbox[1])>>, Renaming(game, inbox[1], success))
    BY <1>6, ExecuteSends
  <2> DEFINE after == Renaming(game, inbox[1], success)
  <2>2. /\ after.inst = game.inst /\ after.seq = game.seq /\ after.lastSnap = game.lastSnap
        /\ after.number = game.number
    BY <1>1, <2>1, RenamingTyped, ZenonT(30)
  <2> HIDE DEF after
  <2> QED
    BY <2>1, <2>2, BroadcastAges DEF after
<1>7. CASE AnswerSetCompanyName
  <2>1. ChangingName(game)
    BY <1>7, AnswerSends
  <2>2. CASE Broadcasts(<<Complete(game.doing.request)>>, Executed(game))
    BY <1>1, <2>1, <2>2, ExecutedTyped, BroadcastAges
  <2>3. CASE Broadcasts(<<Fail(game.doing.request)>>, [game EXCEPT !.doing = None])
    <3> DEFINE after == [game EXCEPT !.doing = None]
    <3>1. /\ after.inst = game.inst /\ after.seq = game.seq
          /\ after.lastSnap = game.lastSnap /\ after.number = game.number
      BY <1>1 DEF GameType
    <3> HIDE DEF after
    <3> QED
      BY <2>3, <3>1, BroadcastAges DEF after
  <2> QED
    BY <1>7, <2>2, <2>3, AnswerSends
<1>8. CASE SendWorld
  <2>1. Broadcasts(<<WorldMessage(game.doing)>>, AfterWorldMessage(game)) /\ SendingWorld(game)
    BY <1>8, WorldSends
  <2> QED
    BY <1>1, <2>1, AfterWorldTyped, BroadcastAges
<1>9. CASE HandleResync
  <2> DEFINE bodies == Handshake(game, inbox[1].request, captures + 1)
             after  == AfterHandshake(game, captures + 1)
  <2>1. Broadcasts(bodies, after) /\ inbox[1].request \in Nat
    BY <1>9, ResyncSends
  <2>2. Len(bodies) = 4
    BY <1>1, <2>1, HandshakeMessages
  <2>3. /\ after.inst = game.inst /\ after.seq = game.seq
        /\ after.lastSnap = <<game.inst, game.seq + 4>>
    BY <1>1, AfterHandshakeTyped
  <2> HIDE DEF bodies, after
  <2>4. /\ game'.inst = game.inst /\ game'.seq = game.seq + 4
        /\ game'.lastSnap = <<game.inst, game.seq + 4>>
    BY <2>1, <2>2, <2>3 DEF Broadcasts, GameSame
  <2> QED
    BY <1>1, <2>4 DEF Ages
<1>10. CASE StartNewGame
  <2> DEFINE n == spent["new_game"] + 2  after == NewGame(n, FirstName)
  <2>1. Broadcasts(Greeting, after) /\ n \in Nat
    BY <1>10, NewGameSends
  <2>2. after.inst = n /\ after.lastSnap = None /\ after.number = 0
    BY <2>1, NewGameTyped
  <2>3. game.inst < n
    <3>1. spent["new_game"] \in Nat
      BY DEF TypeInv, Kinds
    <3> QED
      BY <1>1, <3>1 DEF InstanceCounted
  <2> HIDE DEF n, after
  <2> QED
    BY <1>10, <2>1, <2>2, <2>3 DEF Broadcasts, GameSame, Ages
<1> QED
  BY <1>2, <1>3, <1>4, <1>5, <1>6, <1>7, <1>8, <1>9, <1>10 DEF ScriptStep, GameStep

(* Instances are numbered by the new games. *)
LEMMA InstanceNext ==
    ASSUME TypeInv, InstanceCounted, [Next]_vars, ~LoadGame
    PROVE  InstanceCounted'
<1>1. CASE StartNewGame
  <2> DEFINE n == spent["new_game"] + 2  after == NewGame(n, FirstName)
  <2>1. /\ Broadcasts(Greeting, after) /\ n \in Nat
        /\ spent'["new_game"] = spent["new_game"] + 1
    BY <1>1, NewGameSends
  <2>2. after.inst = n
    BY <2>1, NewGameTyped
  <2>3. game'.inst = after.inst
    BY <2>1 DEF Broadcasts, GameSame
  <2>4. spent["new_game"] \in Nat
    BY DEF TypeInv, Kinds
  <2> QED
    BY <2>1, <2>2, <2>3, <2>4 DEF InstanceCounted
<1>2. CASE ~StartNewGame
  <2>1. spent'["new_game"] = spent["new_game"]
    BY <1>2, EventsCounted
  <2>2. game'.inst = game.inst
    <3>1. CASE ScriptStep \/ GameStep
      <4>1. StartNewGame \/ game'.inst = game.inst
        BY <3>1, GameAges
      <4> QED
        BY <1>2, <4>1
    <3>2. CASE OthersRequest
      BY <3>2, OthersRequestTyped
    <3>3. CASE \E c \in Clients : OneClient(c)
      BY <3>3, ClientParts
    <3>4. CASE UNCHANGED vars
      BY <3>4 DEF vars
    <3> QED
      BY <3>1, <3>2, <3>3, <3>4, StepCases
  <2> QED
    BY <2>1, <2>2 DEF InstanceCounted
<1> QED
  BY <1>1, <1>2

(* What is known of a snapshot stays true of it. *)
LEMMA SnapshotAges ==
    ASSUME NEW g \in GameType, NEW h \in GameType, Ages(g, h),
           NEW id \in Ident \cup {None}, NEW number, SnapshotOf(id, number, g)
    PROVE  SnapshotOf(id, number, h)
<1>1. g.inst \in Nat /\ g.seq \in Nat /\ h.inst \in Nat /\ h.seq \in Nat /\ None \notin Ident
  BY DEF GameType, Ident
<1>2. CASE id = None
  <2>1. number = 0
    BY <1>2 DEF SnapshotOf
  <2>2. h.lastSnap = None => h.number = 0
    <3>1. CASE h.lastSnap = g.lastSnap /\ h.number = g.number
      BY <1>2, <2>1, <3>1 DEF SnapshotOf
    <3>2. CASE h.lastSnap = <<g.inst, g.seq + 4>>
      <4>1. <<g.inst, g.seq + 4>> \in Ident
        BY <1>1 DEF Ident
      <4> QED
        BY <1>1, <3>2, <4>1
    <3> QED
      BY <3>1, <3>2 DEF Ages
  <2> QED
    BY <1>1, <1>2, <2>1, <2>2 DEF SnapshotOf
<1>3. CASE id \in Ident
  <2>1. id[1] \in Nat /\ id[2] \in Nat /\ id # None
    BY <1>1, <1>3 DEF Ident
  <2>2. Given(id, g, 0)
    BY <1>3 DEF SnapshotOf
  <2>3. Given(id, h, 0)
    BY <1>1, <2>1, <2>2 DEF Given, Ages
  <2>4. id = h.lastSnap => number = h.number
    <3>1. CASE h.lastSnap = g.lastSnap /\ h.number = g.number
      BY <3>1 DEF SnapshotOf
    <3>2. CASE h.lastSnap = <<g.inst, g.seq + 4>>
      <4>1. id = <<g.inst, g.seq + 4>> => id[1] = g.inst /\ id[2] = g.seq + 4
        OBVIOUS
      <4>2. id # <<g.inst, g.seq + 4>>
        BY <1>1, <2>1, <2>2, <4>1 DEF Given
      <4> QED
        BY <3>2, <4>2
    <3>3. CASE h.lastSnap = None
      BY <2>1, <3>3
    <3> QED
      BY <3>1, <3>2, <3>3 DEF Ages
  <2> QED
    BY <2>1, <2>3, <2>4 DEF SnapshotOf
<1> QED
  BY <1>2, <1>3

(* The newest snapshot itself. *)
LEMMA NewestAges ==
    ASSUME NEW g \in GameType, NEW h \in GameType, Ages(g, h),
           SnapshotOf(g.lastSnap, g.number, g)
    PROVE  SnapshotOf(h.lastSnap, h.number, h)
<1>1. g.inst \in Nat /\ g.seq \in Nat /\ h.seq \in Nat /\ None \notin Ident
      /\ g.lastSnap \in Ident \cup {None}
  BY DEF GameType, Ident
<1>2. CASE h.lastSnap = g.lastSnap /\ h.number = g.number
  BY <1>1, <1>2, SnapshotAges
<1>3. CASE h.inst = g.inst /\ g.seq + 4 <= h.seq /\ h.lastSnap = <<g.inst, g.seq + 4>>
  <2> DEFINE id == <<g.inst, g.seq + 4>>
  <2>1. id \in Ident /\ id[1] = g.inst /\ id[2] = g.seq + 4
    BY <1>1 DEF Ident
  <2> HIDE DEF id
  <2>2. Given(id, h, 0) /\ id # None
    BY <1>1, <1>3, <2>1 DEF Given
  <2> QED
    BY <1>3, <2>2 DEF SnapshotOf, id
<1>4. CASE h.lastSnap = None /\ h.number = 0
  BY <1>1, <1>4 DEF SnapshotOf
<1> QED
  BY <1>2, <1>3, <1>4 DEF Ages

(* What the messages, requests and clients say of snapshots in a step. *)
QueueTrue(s, g) ==
    \A i \in DOMAIN s : s[i].body.type = "state_snapshot" =>
        SnapshotOf(s[i].body.ref, s[i].body.number, g)

RequestsTrue(s, g) ==
    \A i \in DOMAIN s : s[i].type = "command_request" => SnapshotOf(s[i].prior, s[i].number, g)

BelievesTrue(k, g) == Has(k) => SnapshotOf(k.snap.id, k.snap.number, g)

LEMMA DecidedParts ==
    DecidedInv <=>
        /\ InstanceCounted
        /\ SnapshotOf(game.lastSnap, game.number, game)
        /\ RequestsTrue(inbox, game)
        /\ \A c \in Clients : QueueTrue(link[c].queue, game) /\ BelievesTrue(client[c], game)
        /\ DecidedOnTheNewestCapture
  BY DEF DecidedInv, InstanceCounted, RequestsTrue, QueueTrue, BelievesTrue

LEMMA QueueTrueAges ==
    ASSUME NEW g \in GameType, NEW h \in GameType, Ages(g, h), NEW l, LinkOK(l),
           QueueTrue(l.queue, g)
    PROVE  QueueTrue(l.queue, h)
<1> SUFFICES ASSUME NEW i \in DOMAIN l.queue, l.queue[i].body.type = "state_snapshot"
             PROVE  SnapshotOf(l.queue[i].body.ref, l.queue[i].body.number, h)
  BY DEF QueueTrue
<1>1. SnapshotOf(l.queue[i].body.ref, l.queue[i].body.number, g)
  BY DEF QueueTrue
<1>2. BodyOK(l.queue[i].body)
  BY DEF LinkOK
<1>3. l.queue[i].body.ref \in Ident
  BY <1>2 DEF BodyOK, Telling
<1> QED
  BY <1>1, <1>3, SnapshotAges

LEMMA RequestsTrueAges ==
    ASSUME NEW g \in GameType, NEW h \in GameType, Ages(g, h), NEW s \in Seq(RequestType),
           RequestsTrue(s, g)
    PROVE  RequestsTrue(s, h)
<1> SUFFICES ASSUME NEW i \in DOMAIN s, s[i].type = "command_request"
             PROVE  SnapshotOf(s[i].prior, s[i].number, h)
  BY DEF RequestsTrue
<1>1. SnapshotOf(s[i].prior, s[i].number, g)
  BY DEF RequestsTrue
<1>2. s[i] \in RequestType
  OBVIOUS
<1>3. s[i].prior \in Ident \cup {None}
  BY <1>2 DEF RequestType, CommandType
<1> QED
  BY <1>1, <1>3, SnapshotAges

LEMMA BelievesTrueAges ==
    ASSUME NEW g \in GameType, NEW h \in GameType, Ages(g, h), NEW k, ClientOK(k),
           BelievesTrue(k, g)
    PROVE  BelievesTrue(k, h)
<1> SUFFICES ASSUME Has(k)
             PROVE  SnapshotOf(k.snap.id, k.snap.number, h)
  BY DEF BelievesTrue
<1>1. SnapshotOf(k.snap.id, k.snap.number, g)
  BY DEF BelievesTrue
<1>2. k.snap \in SnapType
  BY DEF ClientOK
<1>3. k.snap.id \in Ident
  BY <1>2 DEF SnapType
<1> QED
  BY <1>1, <1>3, SnapshotAges

(* What the script sends of snapshots is true. *)
LEMMA TrueHeard ==
    ASSUME NEW l, LinkOK(l), NEW m, NEW bodies, Bodies(bodies), NEW g,
           Hears(l, m, bodies, g), NEW h, QueueTrue(l.queue, h),
           \A i \in DOMAIN bodies : bodies[i].type = "state_snapshot" =>
              SnapshotOf(bodies[i].ref, bodies[i].number, h)
    PROVE  QueueTrue(m.queue, h)
<1> SUFFICES ASSUME NEW i \in DOMAIN m.queue, m.queue[i].body.type = "state_snapshot"
             PROVE  SnapshotOf(m.queue[i].body.ref, m.queue[i].body.number, h)
  BY DEF QueueTrue
<1>1. CASE Kept(l.queue, m.queue, i)
  BY <1>1 DEF Kept, QueueTrue
<1>2. CASE Added(l.queue, m.queue, i, bodies, g)
  BY <1>2 DEF Added
<1> QED
  BY <1>1, <1>2, HeardMessage

LEMMA QueuesTrue ==
    ASSUME TypeInv, NEW c \in Clients, ScriptStep \/ GameStep, Ages(game, game'),
           game' \in GameType, QueueTrue(link[c].queue, game)
    PROVE  QueueTrue(link'[c].queue, game')
<1>1. game \in GameType /\ LinkOK(link[c]) /\ captures + 1 \in Nat
  BY DEF TypeInv
<1>2. QueueTrue(link[c].queue, game')
  BY <1>1, QueueTrueAges
<1>3. CASE Quiet
  BY <1>2, <1>3 DEF Quiet
<1>4. CASE ChatSteps
  <2>1. PICK bodies, after : Broadcasts(bodies, after) /\ Chatter(bodies)
    BY <1>4, ChatStepsChat
  <2>2. \A i \in DOMAIN bodies : bodies[i].type # "state_snapshot"
    BY <2>1 DEF Chatter, Telling
  <2> QED
    BY <1>1, <1>2, <2>1, <2>2, TrueHeard DEF Broadcasts
<1>5. CASE HandleResync
  <2> DEFINE bodies == Handshake(game, inbox[1].request, captures + 1)
             after  == AfterHandshake(game, captures + 1)
  <2>1. Broadcasts(bodies, after) /\ inbox[1].request \in Nat
    BY <1>5, ResyncSends
  <2>2. /\ Len(bodies) = 4
        /\ \A i \in DOMAIN bodies : bodies[i].type = "state_snapshot" =>
             bodies[i].ref = <<game.inst, game.seq + 4>> /\ bodies[i].number = captures + 1
    <3>1. game \in GameType /\ captures + 1 \in Nat /\ inbox[1].request \in Nat
      BY <1>1, <2>1
    <3> QED
      BY <3>1, HandshakeSnapshot
  <2>3. /\ after.inst = game.inst /\ after.seq = game.seq /\ after.number = captures + 1
        /\ after.lastSnap = <<game.inst, game.seq + 4>>
    BY <1>1, AfterHandshakeTyped
  <2> HIDE DEF bodies, after
  <2>4. /\ game'.lastSnap = <<game.inst, game.seq + 4>> /\ game'.number = captures + 1
        /\ game'.inst = game.inst /\ game'.seq = game.seq + 4
    BY <2>1, <2>2, <2>3 DEF Broadcasts, GameSame
  <2>5. SnapshotOf(game'.lastSnap, game'.number, game')
    <3> DEFINE id == <<game.inst, game.seq + 4>>
    <3>1. id \in Ident /\ id[1] = game.inst /\ id[2] = game.seq + 4 /\ game.seq + 4 \in Nat
      BY <1>1 DEF Ident, GameType
    <3>2. game'.lastSnap = id
      BY <2>4
    <3> HIDE DEF id
    <3>3. Given(id, game', 0) /\ id # None
      BY <2>4, <3>1 DEF Given, Ident
    <3> QED
      BY <3>2, <3>3 DEF SnapshotOf
  <2>6. ASSUME NEW i \in DOMAIN bodies, bodies[i].type = "state_snapshot"
        PROVE  SnapshotOf(bodies[i].ref, bodies[i].number, game')
    <3>1. bodies[i].ref = game'.lastSnap /\ bodies[i].number = game'.number
      BY <2>2, <2>4, <2>6
    <3> QED
      BY <2>5, <3>1
  <2> QED
    BY <1>1, <1>2, <2>1, <2>6, TrueHeard DEF Broadcasts
<1>6. CASE SendWorld
  <2> DEFINE b == WorldMessage(game.doing)
  <2>1. Broadcasts(<<b>>, AfterWorldMessage(game))
    BY <1>6, WorldSends
  <2>2. BodyOK(b) /\ b.type \in WorldTypes
    BY <1>6, WorldSends, WorldTyped
  <2> HIDE DEF b
  <2>3. ASSUME NEW i \in DOMAIN <<b>>
        PROVE  <<b>>[i].type # "state_snapshot"
    BY <2>2, OneBody DEF WorldTypes, PartTypes
  <2> QED
    BY <1>1, <1>2, <2>1, <2>3, TrueHeard DEF Broadcasts
<1> QED
  BY <1>3, <1>4, <1>5, <1>6, ScriptCases

(* Executed is what was decided on the newest capture. *)
LEMMA DecidedNewest ==
    ASSUME TypeInv, DecidedInv, [Next]_vars
    PROVE  DecidedOnTheNewestCapture'
<1> USE DEF DecidedOnTheNewestCapture
<1>1. DecidedOnTheNewestCapture /\ RequestsTrue(inbox, game) /\ log \in Seq(EntryType)
  BY DecidedParts DEF TypeInv
<1>2. CASE log' = log
  BY <1>1, <1>2
<1>3. CASE ExecuteSetCompanyName /\ log' = Append(log, EntryOf(inbox[1]))
  <2> DEFINE q == inbox[1]
  <2>1. q \in CommandType /\ 1 \in DOMAIN inbox /\ q.prior = game.lastSnap
    BY <1>3, ExecuteSends
  <2>2. q.type = "command_request"
    BY <2>1 DEF CommandType
  <2>3. SnapshotOf(q.prior, q.number, game)
    BY <1>1, <2>1, <2>2 DEF RequestsTrue
  <2>4. q.number = game.number
    BY <2>1, <2>3 DEF SnapshotOf
  <2> DEFINE e == EntryOf(q)
  <2>5. e.decided = e.newest
    BY <2>4 DEF EntryOf
  <2> HIDE DEF e, q
  <2>6. log' = Append(log, e)
    BY <1>3 DEF e, q
  <2>7. ASSUME NEW i \in DOMAIN log'
        PROVE  log'[i] = e \/ (i \in DOMAIN log /\ log'[i] = log[i])
    BY <1>1, <2>6
  <2> QED
    BY <1>1, <2>5, <2>7
<1> QED
  BY <1>2, <1>3, LogGrows

(* The requests on their way name snapshots truly. *)
LEMMA TrueRequested ==
    ASSUME TypeInv, RequestsTrue(inbox, game), NEW q \in RequestType,
           inbox' = Append(inbox, q),
           q.type = "command_request" => SnapshotOf(q.prior, q.number, game)
    PROVE  RequestsTrue(inbox', game)
  BY InboxGrows DEF RequestsTrue

LEMMA ResyncTrue ==
    ASSUME TypeInv, RequestsTrue(inbox, game),
           inbox' = Append(inbox, ResyncRequestOf(requests + 1))
    PROVE  RequestsTrue(inbox', game)
<1> DEFINE q == ResyncRequestOf(requests + 1)
<1>1. q \in RequestType /\ q.type # "command_request"
  BY DEF ResyncRequestOf, RequestType, TypeInv
<1> HIDE DEF q
<1> QED
  BY <1>1, TrueRequested DEF q

LEMMA RequestsStayTrue ==
    ASSUME TypeInv, DecidedInv, OthersRequest \/ \E c \in Clients : OneClient(c)
    PROVE  RequestsTrue(inbox', game)
<1>1. /\ RequestsTrue(inbox, game) /\ SnapshotOf(game.lastSnap, game.number, game)
      /\ \A c \in Clients : BelievesTrue(client[c], game)
  BY DecidedParts
<1>2. CASE OthersRequest
  <2>1. PICK q \in RequestType :
           /\ inbox' = Append(inbox, q)
           /\ \/ q = ResyncRequestOf(requests + 1)
              \/ q.prior = game.lastSnap /\ q.number = game.number
    BY <1>2, OthersRequestTyped
  <2> QED
    BY <1>1, <2>1, ResyncTrue, TrueRequested
<1>3. ASSUME NEW c \in Clients, OneClient(c)
      PROVE  RequestsTrue(inbox', game)
  <2>1. CASE Silent
    BY <1>1, <2>1 DEF Silent
  <2>2. CASE Resyncs
    BY <1>1, <2>2, ResyncTrue DEF Resyncs
  <2>3. CASE Ordering(c)
    <3>1. PICK q \in CommandType : Asked(c, q) /\ CommandOf(c, q, client'[c])
      BY <2>3 DEF Ordering
    <3>2. /\ client[c].state = "synchronized" /\ q.prior = client[c].snap.id
          /\ q.number = client[c].snap.number
      BY <3>1 DEF CommandOf
    <3>3. SnapshotOf(q.prior, q.number, game)
      BY <1>1, <3>2 DEF BelievesTrue, Has
    <3> QED
      BY <1>1, <3>1, <3>3, TrueRequested DEF Asked
  <2> QED
    BY <1>3, <2>1, <2>2, <2>3, ClientCases
       DEF Starting, Halting, Renewing, Proceeding, Completing, Accepting, Consuming,
           Verifying, Pulls
<1> QED
  BY <1>2, <1>3

(* A snapshot a client has is the one it had, or the message it received. *)
TakesSnapshot(c, n) ==
    \/ Has(client[c]) /\ n.snap = client[c].snap
    \/ /\ 1 \in DOMAIN link[c].queue /\ link[c].queue[1].body.type = "state_snapshot"
       /\ n.snap = [ id |-> link[c].queue[1].body.ref, name |-> link[c].queue[1].body.name,
                     number |-> link[c].queue[1].body.number ]

LEMMA LearnsSnapshot ==
    ASSUME TypeInv, NEW c \in Clients, Pulls(c), NEW w,
           Learns(client[c], Incoming(c).body, w), Has(w)
    PROVE  TakesSnapshot(c, w)
<1> DEFINE k == client[c]  b == Incoming(c).body
<1>1. LinkOK(link[c])
  BY DEF TypeInv
<1>2. Incoming(c) = link[c].queue[1] /\ 1 \in DOMAIN link[c].queue
  BY <1>1, PulledHead DEF Pulls, Heads
<1>3. CASE b.type = "state_snapshot"
  BY <1>2, <1>3 DEF Learns, Told, TakesSnapshot
<1>4. CASE b.type # "state_snapshot"
  BY <1>4 DEF Learns, Told, CoreSame, Has, TakesSnapshot
<1> QED
  BY <1>3, <1>4

LEMMA SnapshotTaken ==
    ASSUME TypeInv, NEW c \in Clients, OneClient(c), Has(client'[c])
    PROVE  TakesSnapshot(c, client'[c])
<1> DEFINE k == client[c]  n == client'[c]  b == Incoming(c).body
<1>1. ~Starting(c) /\ ~Verifying(c) /\ ~Renewing(c)
  BY DEF Starting, Verifying, Begins, Renewing, Renewed, Has
<1>2. CASE Ordering(c)
  BY <1>2 DEF Ordering, CommandOf, Commands, Has, TakesSnapshot
<1>3. CASE Halting(c)
  BY <1>3 DEF Halting, Halted, Retains, Has, TakesSnapshot
<1>4. CASE Accepting(c)
  BY <1>4 DEF Accepting, Retains, CoreSame, Has, TakesSnapshot
<1>5. CASE Proceeding(c)
  BY <1>5, LearnsSnapshot DEF Proceeding
<1>6. CASE Completing(c)
  <2>1. PICK w : Learns(k, b, w) /\ Finished(w) /\ ReturnsTo(w, n)
    BY <1>6 DEF Completing
  <2>2. Has(w)
    BY <2>1 DEF Finished, Shaken, Summary, Has
  <2>3. TakesSnapshot(c, w)
    BY <1>6, <2>1, <2>2, LearnsSnapshot DEF Completing
  <2> QED
    BY <2>1, <2>3 DEF ReturnsTo, Retains, TakesSnapshot
<1>7. CASE Consuming(c)
  <2>1. LinkOK(link[c])
    BY DEF TypeInv
  <2>2. Incoming(c) = link[c].queue[1] /\ 1 \in DOMAIN link[c].queue
    BY <1>7, <2>1, PulledHead DEF Consuming, Pulls, Heads
  <2>3. CASE b.type = "state_snapshot"
    BY <1>7, <2>2, <2>3 DEF Consuming, Told, TakesSnapshot
  <2>4. CASE b.type # "state_snapshot"
    BY <1>7, <2>4 DEF Consuming, Told, CoreSame, Has, TakesSnapshot
  <2> QED
    BY <2>3, <2>4
<1> QED
  BY <1>1, <1>2, <1>3, <1>4, <1>5, <1>6, <1>7, ClientCases

LEMMA ClientsTrue ==
    ASSUME TypeInv, DecidedInv, NEW c \in Clients, OneClient(c), NEW d \in Clients
    PROVE  QueueTrue(link'[d].queue, game) /\ BelievesTrue(client'[d], game)
<1>1. /\ QueueTrue(link[d].queue, game) /\ BelievesTrue(client[d], game)
      /\ LinkOK(link[d]) /\ OthersStay(c) /\ Parts(link[c], link'[c])
  BY DecidedParts, ClientParts DEF TypeInv
<1>2. CASE d # c
  BY <1>1, <1>2 DEF OthersStay
<1>3. CASE d = c
  <2>1. QueueTrue(link'[c].queue, game)
    <3>1. \A i \in DOMAIN link'[c].queue :
             \E j \in DOMAIN link[c].queue : link'[c].queue[i] = link[c].queue[j]
      BY <1>1, <1>3, PartOf
    <3>2. QueueTrue(link[c].queue, game)
      BY <1>1, <1>3
    <3> QED
      BY <3>1, <3>2 DEF QueueTrue
  <2>2. BelievesTrue(client'[c], game)
    <3> SUFFICES ASSUME Has(client'[c])
                 PROVE  SnapshotOf(client'[c].snap.id, client'[c].snap.number, game)
      BY DEF BelievesTrue
    <3>1. TakesSnapshot(c, client'[c])
      BY SnapshotTaken
    <3>2. CASE Has(client[c]) /\ client'[c].snap = client[c].snap
      BY <1>1, <1>3, <3>2 DEF BelievesTrue
    <3>3. CASE ~(Has(client[c]) /\ client'[c].snap = client[c].snap)
      <4> DEFINE b == link[c].queue[1].body
                 snap == [id |-> b.ref, name |-> b.name, number |-> b.number]
      <4>1. /\ 1 \in DOMAIN link[c].queue /\ b.type = "state_snapshot"
            /\ client'[c].snap = snap
        BY <3>1, <3>3 DEF TakesSnapshot
      <4>2. SnapshotOf(b.ref, b.number, game)
        BY <1>1, <1>3, <4>1 DEF QueueTrue
      <4>3. snap.id = b.ref /\ snap.number = b.number
        OBVIOUS
      <4> HIDE DEF snap, b
      <4> QED
        BY <4>1, <4>2, <4>3
    <3> QED
      BY <3>2, <3>3
  <2> QED
    BY <1>3, <2>1, <2>2
<1> QED
  BY <1>2, <1>3

LEMMA DecidedScript ==
    ASSUME TypeInv, DecidedInv, ScriptStep \/ GameStep, [Next]_vars, ~LoadGame
    PROVE  DecidedInv'
<1>1. /\ InstanceCounted /\ SnapshotOf(game.lastSnap, game.number, game)
      /\ RequestsTrue(inbox, game)
      /\ \A c \in Clients : QueueTrue(link[c].queue, game) /\ BelievesTrue(client[c], game)
  BY DecidedParts
<1>2. /\ game \in GameType /\ game' \in GameType /\ inbox' \in Seq(RequestType)
      /\ Ages(game, game')
  BY <1>1, NextTypes, GameAges DEF TypeInv
<1>3. SnapshotOf(game'.lastSnap, game'.number, game')
  BY <1>1, <1>2, NewestAges
<1>4. RequestsTrue(inbox', game')
  <2>1. RequestsTrue(inbox', game)
    BY <1>1, InboxLeft DEF RequestsTrue
  <2> QED
    BY <1>2, <2>1, RequestsTrueAges
<1>5. ASSUME NEW c \in Clients
      PROVE  QueueTrue(link'[c].queue, game') /\ BelievesTrue(client'[c], game')
  <2>1. QueueTrue(link'[c].queue, game')
    BY <1>1, <1>2, QueuesTrue
  <2>2. ClientOK(client[c]) /\ client' = client
    BY ScriptCases DEF TypeInv
  <2>3. BelievesTrue(client[c], game')
    BY <1>1, <1>2, <2>2, BelievesTrueAges
  <2> QED
    BY <2>1, <2>2, <2>3
<1>6. InstanceCounted' /\ DecidedOnTheNewestCapture'
  BY <1>1, InstanceNext, DecidedNewest
<1> QED
  BY <1>3, <1>4, <1>5, <1>6
     DEF DecidedInv, InstanceCounted, RequestsTrue, QueueTrue, BelievesTrue

LEMMA DecidedNext ==
    ASSUME TypeInv, DecidedInv, [Next]_vars, ~LoadGame
    PROVE  DecidedInv'
<1>1. CASE ScriptStep \/ GameStep
  BY <1>1, DecidedScript
<1>2. /\ InstanceCounted /\ SnapshotOf(game.lastSnap, game.number, game)
      /\ RequestsTrue(inbox, game)
      /\ \A c \in Clients : QueueTrue(link[c].queue, game) /\ BelievesTrue(client[c], game)
  BY DecidedParts
<1>3. ASSUME game' = game, RequestsTrue(inbox', game),
             \A c \in Clients : QueueTrue(link'[c].queue, game) /\ BelievesTrue(client'[c], game)
      PROVE  DecidedInv'
  <2>1. InstanceCounted' /\ DecidedOnTheNewestCapture'
    BY <1>2, InstanceNext, DecidedNewest
  <2> QED
    BY <1>2, <1>3, <2>1
       DEF DecidedInv, InstanceCounted, RequestsTrue, QueueTrue, BelievesTrue
<1>4. CASE OthersRequest
  <2>1. game' = game /\ link' = link /\ client' = client
    BY <1>4, OthersRequestTyped
  <2> QED
    BY <1>2, <1>3, <1>4, <2>1, RequestsStayTrue
<1>5. CASE \E c \in Clients : OneClient(c)
  <2>1. PICK c \in Clients : OneClient(c)
    BY <1>5
  <2>2. game' = game
    BY <2>1, ClientParts
  <2>3. RequestsTrue(inbox', game)
    BY <2>1, RequestsStayTrue
  <2> QED
    BY <1>3, <2>1, <2>2, <2>3, ClientsTrue
<1>6. CASE UNCHANGED vars
  <2>1. game' = game /\ link' = link /\ client' = client /\ inbox' = inbox
    BY <1>6 DEF vars
  <2> QED
    BY <1>2, <1>3, <2>1
<1> QED
  BY <1>1, <1>4, <1>5, <1>6, StepCases

LEMMA DecidedInit == Init => DecidedInv
<1> SUFFICES ASSUME Init
             PROVE  DecidedInv
  OBVIOUS
<1>1. /\ inbox = <<>> /\ log = <<>> /\ spent["new_game"] = 0
      /\ \A c \in Clients : client[c] = NewClient /\ link[c].queue = <<>>
  BY DEF Init, Kinds
<1>2. game.inst = 1 /\ game.lastSnap = None /\ game.number = 0
  BY GreetingTyped, NewGameTyped, SentTyped DEF Init
<1>3. InstanceCounted
  BY <1>1, <1>2 DEF InstanceCounted
<1>4. SnapshotOf(game.lastSnap, game.number, game)
  BY <1>2 DEF SnapshotOf, Ident
<1>5. ~Has(NewClient)
  BY NewClientTyped DEF Has
<1>6. DecidedOnTheNewestCapture
  BY <1>1 DEF DecidedOnTheNewestCapture
<1> QED
  BY <1>1, <1>3, <1>4, <1>5, <1>6, DecidedParts DEF RequestsTrue, QueueTrue, BelievesTrue

(* As long as no saved game has been loaded, a command changes the name    *)
(* only if it was decided on the newest capture of the game it changes,    *)
(* whoever else asks for snapshots and commands meanwhile                  *)
(* (prior_snapshot_id).                                                    *)
THEOREM DecidedOnTheNewest == Spec => [](NeverLoaded => DecidedOnTheNewestCapture)
<1> DEFINE I == NeverLoaded => DecidedInv
<1>1. Init => I
  BY DecidedInit
<1>2. TypeInv /\ I /\ [Next]_vars => I'
  BY LoadsCounted, DecidedNext
<1>3. I => (NeverLoaded => DecidedOnTheNewestCapture)
  BY DEF DecidedInv
<1>4. Spec => []TypeInv
  BY BridgeTypes
<1> HIDE DEF I
<1> QED
  BY <1>1, <1>2, <1>3, <1>4, PTL DEF Spec

--------------------------------------------------------------------------------
(***************************************************************************)
(* Identity: until a saved game is loaded, the ID of a world is that of    *)
(* one capture, so that the parts a client puts together belong together.  *)
(***************************************************************************)
FromQueue(s, x) == \E i \in DOMAIN s : OfWorld(s[i]) /\ x = Tag(s[i].body)

FromGame(g, x) == SendingWorld(g) /\ x = Tag(g.doing)

LEMMA KnownFrom ==
    ASSUME NEW k, NEW s, NEW g, NEW x
    PROVE  x \in KnownWorlds(k, s, g)
           <=>  \/ FromQueue(s, x) \/ FromGame(g, x)
                \/ k.manifest # None /\ x = Tag(k.manifest)
  BY DEF KnownWorlds, FromQueue, FromGame

LEMMA KnownTyped ==
    ASSUME TypeInv, NEW c \in Clients,
           NEW x \in KnownWorlds(client[c], link[c].queue, game)
    PROVE  x[1] \in Ident
<1>1. LinkOK(link[c]) /\ client[c] \in ClientType /\ game \in GameType
  BY DEF TypeInv, ClientOK
<1>2. CASE FromQueue(link[c].queue, x)
  <2>1. PICK i \in DOMAIN link[c].queue :
           OfWorld(link[c].queue[i]) /\ x = Tag(link[c].queue[i].body)
    BY <1>2 DEF FromQueue
  <2>2. BodyOK(link[c].queue[i].body)
    BY <1>1 DEF LinkOK
  <2>3. link[c].queue[i].body.ref \in Ident
    BY <2>1, <2>2 DEF BodyOK, OfWorld, Telling
  <2> QED
    BY <2>1, <2>3 DEF Tag
<1>3. CASE FromGame(game, x)
  <2>1. game.doing \in [handler : {"world"}, next : Nat, number : Nat, ref : Ident]
    BY <1>1, <1>3, DoingTyped DEF FromGame
  <2>2. game.doing.ref \in Ident
    BY <2>1
  <2> QED
    BY <1>3, <2>2 DEF FromGame, Tag
<1>4. CASE client[c].manifest # None /\ x = Tag(client[c].manifest)
  <2>1. client[c].manifest \in [ref : Ident, number : Nat]
    BY <1>1, <1>4 DEF ClientType
  <2>2. client[c].manifest.ref \in Ident
    BY <2>1
  <2> QED
    BY <1>4, <2>2 DEF Tag
<1> QED
  BY <1>2, <1>3, <1>4, KnownFrom

(* Time does not give an ID twice. *)
LEMMA GivenAges ==
    ASSUME NEW g \in GameType, NEW h \in GameType, Ages(g, h), NEW id \in Ident,
           Given(id, g, 1)
    PROVE  Given(id, h, 1)
<1>1. /\ g.inst \in Nat /\ g.seq \in Nat /\ h.inst \in Nat /\ h.seq \in Nat
      /\ id[1] \in Nat /\ id[2] \in Nat
  BY DEF GameType, Ident
<1> QED
  BY <1>1 DEF Given, Ages

LEMMA WorldsKept ==
    ASSUME NEW g \in GameType, NEW h \in GameType, Ages(g, h), NEW worlds, NEW later,
           OneCapture(worlds, g), \A x \in worlds : x[1] \in Ident,
           \A x \in later : x \in worlds
    PROVE  OneCapture(later, h)
<1>1. \A x \in later : Given(x[1], h, 1)
  BY GivenAges DEF OneCapture
<1> QED
  BY <1>1 DEF OneCapture

(* The world of a new capture has an ID of its own. *)
LEMMA WorldsAdded ==
    ASSUME NEW g \in GameType, NEW h \in GameType, Ages(g, h), NEW worlds, NEW later,
           OneCapture(worlds, g), \A x \in worlds : x[1] \in Ident,
           h.inst = g.inst, h.seq = g.seq + 4, NEW number,
           \A x \in later : x \in worlds \/ x = <<<<g.inst, g.seq + 5>>, number>>
    PROVE  OneCapture(later, h)
<1> DEFINE id == <<g.inst, g.seq + 5>>  new == <<id, number>>
<1>1. g.inst \in Nat /\ g.seq \in Nat /\ h.inst \in Nat /\ h.seq \in Nat
  BY DEF GameType
<1>2. id[1] = g.inst /\ id[2] = g.seq + 5 /\ new[1] = id
  OBVIOUS
<1>3. Given(id, h, 1)
  BY <1>1, <1>2 DEF Given
<1>4. ~Given(id, g, 1)
  BY <1>1, <1>2 DEF Given
<1>5. \A x \in later : x \in worlds \/ x = new
  OBVIOUS
<1> HIDE DEF id, new
<1>6. \A x \in later : Given(x[1], h, 1)
  BY <1>2, <1>3, <1>5, GivenAges DEF OneCapture
<1>7. ASSUME NEW x \in later, NEW y \in later, x[1] = y[1]
      PROVE  x = y
  BY <1>2, <1>4, <1>5, <1>7 DEF OneCapture
<1> QED
  BY <1>6, <1>7 DEF OneCapture

(* The script sends parts of the world it has captured only. *)
LEMMA WorldsHeard ==
    ASSUME NEW l, LinkOK(l), NEW m, NEW bodies, Bodies(bodies), NEW g,
           Hears(l, m, bodies, g), NEW x, FromQueue(m.queue, x)
    PROVE  \/ FromQueue(l.queue, x)
           \/ \E i \in DOMAIN bodies : bodies[i].type \in WorldTypes /\ x = Tag(bodies[i])
<1>1. PICK i \in DOMAIN m.queue : OfWorld(m.queue[i]) /\ x = Tag(m.queue[i].body)
  BY DEF FromQueue
<1>2. CASE Kept(l.queue, m.queue, i)
  BY <1>1, <1>2 DEF Kept, FromQueue
<1>3. CASE Added(l.queue, m.queue, i, bodies, g)
  <2>1. PICK j \in DOMAIN bodies : m.queue[i].body = bodies[j]
    BY <1>3 DEF Added
  <2> QED
    BY <1>1, <2>1 DEF OfWorld
<1> QED
  BY <1>1, <1>2, <1>3, HeardMessage

LEMMA WorldsScript ==
    ASSUME TypeInv, InstanceCounted, ScriptStep \/ GameStep, ~LoadGame, game' \in GameType,
           NEW c \in Clients, OneCapture(KnownWorlds(client[c], link[c].queue, game), game)
    PROVE  OneCapture(KnownWorlds(client[c], link'[c].queue, game'), game')
<1> DEFINE k == client[c]  l == link[c]  m == link'[c]
           worlds == KnownWorlds(k, l.queue, game)
           later  == KnownWorlds(k, m.queue, game')
<1>1. game \in GameType /\ LinkOK(l) /\ captures + 1 \in Nat
  BY DEF TypeInv
<1>2. Ages(game, game') /\ \A x \in worlds : x[1] \in Ident
  BY GameAges, KnownTyped
<1>3. ASSUME \A x \in later : x \in worlds
      PROVE  OneCapture(later, game')
  <2> HIDE DEF worlds, later
  <2>1. OneCapture(worlds, game)
    BY DEF worlds
  <2> QED
    BY <1>1, <1>2, <1>3, <2>1, WorldsKept
<1>4. ASSUME NEW x, x \in later
      PROVE  \/ FromQueue(m.queue, x) \/ FromGame(game', x)
             \/ x \in worlds
  BY <1>4, KnownFrom
<1>5. ASSUME NEW x, FromQueue(l.queue, x) \/ FromGame(game, x)
      PROVE  x \in worlds
  BY <1>5, KnownFrom
<1> HIDE DEF worlds, later
<1>6. CASE Quiet
  <2>1. ASSUME NEW x \in later
        PROVE  x \in worlds
    BY <1>4, <1>5, <1>6 DEF Quiet, FromGame, SendingWorld
  <2> QED
    BY <1>3, <2>1 DEF later
<1>7. CASE ChatSteps
  <2>1. PICK bodies, after :
           Broadcasts(bodies, after) /\ Chatter(bodies) /\ ~SendingWorld(after)
    BY <1>7, ChatStepsChat
  <2>2. Bodies(bodies) /\ Hears(l, m, bodies, game) /\ ~SendingWorld(game')
    BY <2>1 DEF Broadcasts, GameSame, SendingWorld
  <2>3. ASSUME NEW x \in later
        PROVE  x \in worlds
    <3>1. ~FromGame(game', x)
      BY <2>2 DEF FromGame
    <3>2. FromQueue(m.queue, x) => FromQueue(l.queue, x)
      BY <1>1, <2>1, <2>2, WorldsHeard DEF Chatter, Telling
    <3> QED
      BY <1>4, <1>5, <3>1, <3>2
  <2> QED
    BY <1>3, <2>3 DEF later
<1>8. CASE SendWorld
  <2> DEFINE b == WorldMessage(game.doing)  after == AfterWorldMessage(game)
  <2>1. /\ Broadcasts(<<b>>, after) /\ SendingWorld(game)
        /\ game.doing \in [handler : {"world"}, next : Nat, number : Nat, ref : Ident]
    BY <1>8, WorldSends
  <2>2. b.ref = game.doing.ref /\ b.number = game.doing.number /\ BodyOK(b)
    BY <2>1, WorldTyped
  <2>3. SendingWorld(after) => Tag(after.doing) = Tag(game.doing)
    <3>1. after.doing = IF game.doing.next > Pages THEN None
                        ELSE [handler |-> "world", next |-> game.doing.next + 1,
                              number |-> game.doing.number, ref |-> game.doing.ref]
      BY <1>1, <2>1, AfterWorldTyped
    <3> HIDE DEF after
    <3> QED
      BY <3>1 DEF SendingWorld, Tag
  <2> HIDE DEF b, after
  <2>4. /\ Hears(l, m, <<b>>, game)
        /\ SendingWorld(game') => Tag(game'.doing) = Tag(game.doing)
    BY <2>1, <2>3 DEF Broadcasts, GameSame, SendingWorld
  <2>5. ASSUME NEW x \in later
        PROVE  x \in worlds
    <3>1. FromGame(game', x) => FromGame(game, x)
      BY <2>1, <2>4 DEF FromGame
    <3>2. \A i \in DOMAIN <<b>> : Tag(<<b>>[i]) = Tag(game.doing)
      BY <2>2, OneBody DEF Tag
    <3>3. Bodies(<<b>>)
      BY <2>2, OneBody
    <3>4. FromQueue(m.queue, x) => FromQueue(l.queue, x) \/ FromGame(game, x)
      <4> SUFFICES ASSUME FromQueue(m.queue, x)
                   PROVE  FromQueue(l.queue, x) \/ FromGame(game, x)
        OBVIOUS
      <4>1. \/ FromQueue(l.queue, x)
            \/ \E i \in DOMAIN <<b>> : x = Tag(<<b>>[i])
        BY <1>1, <2>4, <3>3, WorldsHeard
      <4> QED
        BY <2>1, <3>2, <4>1 DEF FromGame
    <3> QED
      BY <1>4, <1>5, <3>1, <3>4
  <2> QED
    BY <1>3, <2>5 DEF later
<1>9. CASE HandleResync
  <2> DEFINE bodies == Handshake(game, inbox[1].request, captures + 1)
             after  == AfterHandshake(game, captures + 1)
             new    == <<<<game.inst, game.seq + 5>>, captures + 1>>
  <2>1. Broadcasts(bodies, after) /\ inbox[1].request \in Nat
    BY <1>9, ResyncSends
  <2>2. Len(bodies) = 4 /\ \A i \in DOMAIN bodies : bodies[i].type \notin WorldTypes
    <3>1. game \in GameType /\ captures + 1 \in Nat /\ inbox[1].request \in Nat
      BY <1>1, <2>1
    <3>2. /\ Len(bodies) = 4
          /\ \A i \in DOMAIN bodies :
               bodies[i].type \in {"hello", "capabilities", "resync_response", "state_snapshot"}
      BY <3>1, HandshakeMessages
    <3> HIDE DEF bodies
    <3> QED
      BY <3>2 DEF WorldTypes, PartTypes
  <2>3. /\ after.inst = game.inst /\ after.seq = game.seq
        /\ after.doing = [handler |-> "world", next |-> 0, number |-> captures + 1,
                          ref |-> <<game.inst, game.seq + 5>>]
    BY <1>1, AfterHandshakeTyped
  <2> HIDE DEF bodies, after
  <2>4. Tag(after.doing) = new
    BY <2>3 DEF Tag
  <2>5. /\ game'.inst = game.inst /\ game'.seq = game.seq + 4 /\ game'.doing = after.doing
        /\ Bodies(bodies) /\ Hears(l, m, bodies, game)
    BY <2>1, <2>2, <2>3 DEF Broadcasts, GameSame
  <2>6. ASSUME NEW x \in later
        PROVE  x \in worlds \/ x = new
    <3>1. FromGame(game', x) => x = new
      BY <2>4, <2>5 DEF FromGame
    <3>2. FromQueue(m.queue, x) => FromQueue(l.queue, x)
      BY <1>1, <2>2, <2>5, WorldsHeard
    <3> QED
      BY <1>4, <1>5, <3>1, <3>2
  <2>7. OneCapture(worlds, game)
    BY DEF worlds
  <2>8. OneCapture(later, game')
    BY <1>1, <1>2, <2>5, <2>6, <2>7, WorldsAdded
  <2> QED
    BY <2>8 DEF later
<1> QED
  BY <1>6, <1>7, <1>8, <1>9, ScriptCases

(* A world that a client has begun is the one it had begun, or the one of  *)
(* the message it receives.                                                *)
BeginsWorld(c, n) ==
    \/ n.manifest \in {client[c].manifest, None}
    \/ /\ 1 \in DOMAIN link[c].queue /\ OfWorld(link[c].queue[1])
       /\ n.manifest = [ ref |-> link[c].queue[1].body.ref,
                         number |-> link[c].queue[1].body.number ]

LEMMA ToldWorld ==
    ASSUME TypeInv, NEW c \in Clients, Pulls(c), NEW w,
           Told(client[c], Incoming(c).body, w)
    PROVE  BeginsWorld(c, w)
<1>1. LinkOK(link[c])
  BY DEF TypeInv
<1>2. Incoming(c) = link[c].queue[1] /\ 1 \in DOMAIN link[c].queue
  BY <1>1, PulledHead DEF Pulls, Heads
<1> QED
  BY <1>2 DEF Told, BeginsWorld, OfWorld, WorldTypes

LEMMA WorldBegun ==
    ASSUME TypeInv, NEW c \in Clients, OneClient(c)
    PROVE  BeginsWorld(c, client'[c])
<1> DEFINE k == client[c]  n == client'[c]
<1>1. CASE Starting(c) \/ Verifying(c) \/ Renewing(c)
  BY <1>1 DEF Starting, Verifying, Begins, Renewing, Renewed, BeginsWorld
<1>2. CASE Ordering(c)
  BY <1>2 DEF Ordering, Commands, BeginsWorld
<1>3. CASE Halting(c) \/ Accepting(c)
  BY <1>3 DEF Halting, Halted, Accepting, Retains, BeginsWorld
<1>4. CASE Proceeding(c)
  BY <1>4, ToldWorld DEF Proceeding, Learns
<1>5. CASE Completing(c)
  <2>1. PICK w : Learns(k, Incoming(c).body, w) /\ ReturnsTo(w, n)
    BY <1>5 DEF Completing
  <2>2. BeginsWorld(c, w)
    BY <1>5, <2>1, ToldWorld DEF Completing, Learns
  <2> QED
    BY <2>1, <2>2 DEF ReturnsTo, Retains, BeginsWorld
<1>6. CASE Consuming(c)
  BY <1>6, ToldWorld DEF Consuming
<1> QED
  BY <1>1, <1>2, <1>3, <1>4, <1>5, <1>6, ClientCases

(* A client that consumes a world in passing puts nothing together that    *)
(* does not belong together.                                               *)
LEMMA WholeTold ==
    ASSUME NEW k, NEW b, NEW n, Told(k, b, n), Whole(k),
           b.type \in PartTypes => OfManifest(k, b),
           k.manifest # None /\ b.ref = k.manifest.ref /\ b.type \in PartTypes =>
              b.number = k.manifest.number
    PROVE  Whole(n)
<1>1. b.type \in PartTypes => k.manifest # None /\ b.number = k.manifest.number
  BY DEF OfManifest
<1>2. n.manifest # None => \A p \in n.pages : p.number = n.manifest.number
  <2>1. CASE n.manifest = k.manifest /\ n.pages = k.pages
    BY <2>1 DEF Whole
  <2>2. CASE n.pages = {}
    BY <2>2
  <2>3. CASE /\ b.type = "world_collection_page" /\ n.manifest = k.manifest
             /\ n.pages = k.pages \cup {[index |-> b.index, number |-> b.number]}
    <3> DEFINE page == [index |-> b.index, number |-> b.number]
    <3>1. page.number = k.manifest.number
      BY <1>1, <2>3 DEF PartTypes
    <3>2. n.pages = k.pages \cup {page}
      BY <2>3
    <3> HIDE DEF page
    <3> QED
      BY <2>3, <3>1, <3>2 DEF Whole
  <2> QED
    BY <2>1, <2>2, <2>3 DEF Told
<1>3. Cardinality(n.world) = 1
  <2>1. CASE n.world = k.world
    BY <2>1 DEF Whole
  <2>2. CASE /\ b.type = "world_snapshot_complete" /\ k.manifest # None
             /\ n.world = {p.number : p \in k.pages} \cup {k.manifest.number, b.number}
    <3>1. n.world = {k.manifest.number}
      BY <1>1, <2>2 DEF Whole, PartTypes
    <3> QED
      BY <3>1, FS_Singleton
  <2> QED
    BY <2>1, <2>2 DEF Told
<1> QED
  BY <1>2, <1>3 DEF Whole

LEMMA WholeClient ==
    ASSUME TypeInv, FreshInv, WorldsInv, NEW c \in Clients, OneClient(c),
           client'[c].state = "synchronized"
    PROVE  Whole(client'[c])
<1> DEFINE k == client[c]  n == client'[c]  m == Incoming(c)  s == link[c].queue
           t == link'[c].queue
<1>1. /\ LinkOK(link[c]) /\ FreshOf(k, s, game) /\ OneCapture(KnownWorlds(k, s, game), game)
      /\ k.state = "synchronized" => Whole(k)
  BY DEF TypeInv, FreshInv, WorldsInv, WorldsOf
<1>2. ~Starting(c) /\ ~Verifying(c) /\ ~Renewing(c)
  BY DEF Starting, Verifying, Begins, Renewing, Renewed
<1>3. CASE Ordering(c)
  BY <1>1, <1>3 DEF Ordering, CommandOf, Commands, Whole
<1>4. CASE Halting(c)
  BY <1>1, <1>4 DEF Halting, Halted, Retains, Whole
<1>5. CASE Accepting(c)
  BY <1>1, <1>5 DEF Accepting, CoreSame, Retains, Whole
<1>6. CASE Proceeding(c)
  <2>1. k.state = "synchronized" /\ Baseline(k)
    BY <1>6 DEF Proceeding, Learns, CoreSame
  <2> QED
    BY <1>1, <2>1 DEF FreshOf
<1>7. CASE Completing(c)
  <2>1. Heads(s, t, m) /\ Baseline(k)
    BY <1>1, <1>7, PulledHead DEF Completing, Pulls
  <2>2. PICK w : Learns(k, m.body, w) /\ Finished(w) /\ ReturnsTo(w, n)
    BY <1>7 DEF Completing
  <2>3. Collecting(k)
    BY <2>1, <2>2 DEF ReturnsTo, Learns, CoreSame, Baseline, Collecting
  <2>4. /\ w.world = {Number(m)} /\ w.manifest.number = Number(m)
        /\ \A p \in w.pages : p.number = Number(m)
    BY <1>1, <2>1, <2>2, <2>3, Assembled
  <2>5. Whole(w)
    BY <2>4, FS_Singleton DEF Whole
  <2> QED
    BY <2>2, <2>5 DEF ReturnsTo, Retains, Whole
<1>8. CASE Consuming(c)
  <2> DEFINE b == m.body
  <2>1. /\ Told(k, b, n) /\ k.state = "synchronized"
        /\ b.type \in PartTypes => OfManifest(k, b)
    BY <1>8 DEF Consuming, CoreSame
  <2>2. Heads(s, t, m)
    BY <1>1, <1>8, PulledHead DEF Consuming, Pulls
  <2>3. ASSUME k.manifest # None, b.ref = k.manifest.ref, b.type \in PartTypes
        PROVE  b.number = k.manifest.number
    <3>1. FromQueue(s, Tag(b))
      BY <2>2, <2>3 DEF FromQueue, Heads, OfWorld, WorldTypes
    <3>2. /\ Tag(b) \in KnownWorlds(k, s, game)
          /\ Tag(k.manifest) \in KnownWorlds(k, s, game)
      BY <2>3, <3>1, KnownFrom
    <3>3. Tag(b)[1] = Tag(k.manifest)[1]
      BY <2>3 DEF Tag
    <3>4. Tag(b) = Tag(k.manifest)
      BY <1>1, <3>2, <3>3 DEF OneCapture
    <3> QED
      BY <3>4 DEF Tag
  <2> QED
    BY <1>1, <2>1, <2>3, WholeTold
<1> QED
  BY <1>2, <1>3, <1>4, <1>5, <1>6, <1>7, <1>8, ClientCases

LEMMA WorldsClient ==
    ASSUME TypeInv, FreshInv, WorldsInv, NEW c \in Clients, OneClient(c)
    PROVE  WorldsOf(client'[c], link'[c].queue, game)
<1> DEFINE k == client[c]  n == client'[c]  s == link[c].queue  t == link'[c].queue
<1>1. /\ LinkOK(link[c]) /\ Parts(link[c], link'[c])
      /\ OneCapture(KnownWorlds(k, s, game), game)
  BY ClientParts DEF TypeInv, WorldsInv, WorldsOf
<1>2. ASSUME NEW x \in KnownWorlds(n, t, game)
      PROVE  x \in KnownWorlds(k, s, game)
  <2>1. CASE FromQueue(t, x)
    <3>1. PICK i \in DOMAIN t : OfWorld(t[i]) /\ x = Tag(t[i].body)
      BY <2>1 DEF FromQueue
    <3>2. PICK j \in DOMAIN s : t[i] = s[j]
      BY <1>1, PartOf
    <3>3. FromQueue(s, x)
      BY <3>1, <3>2 DEF FromQueue
    <3> QED
      BY <3>3, KnownFrom
  <2>2. CASE FromGame(game, x)
    BY <2>2, KnownFrom
  <2>3. CASE n.manifest # None /\ x = Tag(n.manifest)
    <3>1. CASE n.manifest = k.manifest
      BY <2>3, <3>1, KnownFrom
    <3>2. CASE n.manifest # k.manifest
      <4> DEFINE b == s[1].body  manifest == [ref |-> b.ref, number |-> b.number]
      <4>1. 1 \in DOMAIN s /\ OfWorld(s[1]) /\ n.manifest = manifest
        BY <2>3, <3>2, WorldBegun DEF BeginsWorld
      <4>2. Tag(manifest) = Tag(b)
        BY DEF Tag
      <4> HIDE DEF manifest
      <4>3. FromQueue(s, x)
        BY <2>3, <4>1, <4>2 DEF FromQueue
      <4> QED
        BY <4>3, KnownFrom
    <3> QED
      BY <3>1, <3>2
  <2> QED
    BY <2>1, <2>2, <2>3, KnownFrom
<1>3. OneCapture(KnownWorlds(n, t, game), game)
  BY <1>1, <1>2 DEF OneCapture
<1> QED
  BY <1>3, WholeClient DEF WorldsOf

LEMMA WorldsNext ==
    ASSUME TypeInv, FreshInv, WorldsInv, [Next]_vars, ~LoadGame
    PROVE  WorldsInv'
<1>1. /\ InstanceCounted /\ \A c \in Clients : WorldsOf(client[c], link[c].queue, game)
  BY DEF WorldsInv, InstanceCounted
<1>2. InstanceCounted'
  BY <1>1, InstanceNext
<1>3. ASSUME NEW d \in Clients
      PROVE  WorldsOf(client'[d], link'[d].queue, game')
  <2>1. WorldsOf(client[d], link[d].queue, game)
    BY <1>1
  <2>2. CASE ScriptStep \/ GameStep
    <3>1. game' \in GameType /\ client' = client
      BY <2>2, NextTypes, ScriptCases DEF TypeInv
    <3>2. OneCapture(KnownWorlds(client[d], link'[d].queue, game'), game')
      BY <1>1, <2>1, <2>2, <3>1, WorldsScript DEF WorldsOf
    <3> QED
      BY <2>1, <3>1, <3>2 DEF WorldsOf
  <2>3. CASE OthersRequest
    BY <2>1, <2>3, OthersRequestTyped
  <2>4. ASSUME NEW c \in Clients, OneClient(c)
        PROVE  WorldsOf(client'[d], link'[d].queue, game')
    <3>1. OthersStay(c) /\ game' = game /\ WorldsOf(client'[c], link'[c].queue, game)
      BY <2>4, ClientParts, WorldsClient
    <3>2. CASE d = c
      BY <3>1, <3>2
    <3>3. CASE d # c
      BY <2>1, <3>1, <3>3 DEF OthersStay
    <3> QED
      BY <3>2, <3>3
  <2>5. CASE UNCHANGED vars
    BY <2>1, <2>5 DEF vars
  <2> QED
    BY <2>2, <2>3, <2>4, <2>5, StepCases
<1> QED
  BY <1>2, <1>3 DEF WorldsInv, InstanceCounted

LEMMA WorldsInit == Init => WorldsInv
<1> SUFFICES ASSUME Init
             PROVE  WorldsInv
  OBVIOUS
<1>1. game.inst = 1 /\ game.doing = None
  BY GreetingTyped, NewGameTyped, SentTyped DEF Init
<1>2. game.inst = spent["new_game"] + 1
  BY <1>1 DEF Init, Kinds
<1>3. ASSUME NEW c \in Clients
      PROVE  WorldsOf(client[c], link[c].queue, game)
  <2>1. client[c] = NewClient /\ link[c].queue = <<>>
    BY DEF Init
  <2>2. client[c].state = "disconnected" /\ client[c].manifest = None
    BY <2>1, NewClientTyped
  <2>3. KnownWorlds(client[c], link[c].queue, game) = {}
    BY <1>1, <2>1, <2>2, KnownFrom DEF FromQueue, FromGame, SendingWorld
  <2> QED
    BY <2>2, <2>3 DEF WorldsOf, OneCapture
<1> QED
  BY <1>2, <1>3 DEF WorldsInv

(* As long as no saved game has been loaded, a synchronized client has a   *)
(* snapshot and a whole world of one capture, both taken after it asked    *)
(* (synchronize).  The first load may bring the IDs of two captures        *)
(* together; that what a client has is newer than its request holds for    *)
(* ever (SynchronizedAfterAsking).                                         *)
THEOREM SynchronizedIsOneCapture == Spec => [](NeverLoaded => SynchronizedIsFresh)
<1> DEFINE I == NeverLoaded => WorldsInv
           F == TypeInv /\ NumberInv /\ StreamInv /\ FreshInv
<1>1. Init => I
  BY WorldsInit
<1>2. F /\ I /\ [Next]_vars => I'
  BY LoadsCounted, WorldsNext
<1>3. F /\ I => (NeverLoaded => SynchronizedIsFresh)
  BY DEF FreshInv, FreshOf, Fresh, WorldsInv, WorldsOf, Whole, SynchronizedIsFresh, Rested,
         TakenAfterAsking
<1>4. Spec => []F
  BY FreshKept
<1> HIDE DEF I, F
<1> QED
  BY <1>1, <1>2, <1>3, <1>4, PTL DEF Spec

================================================================================
