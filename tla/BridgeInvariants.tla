--------------------------- MODULE BridgeInvariants ----------------------------
(***************************************************************************)
(* The inductive invariants behind the theorems about the OpenTTD bridge,  *)
(* in a module of their own so that TLC can check them too.                *)
(***************************************************************************)
EXTENDS BridgeProperties

(***************************************************************************)
(* Types.                                                                  *)
(***************************************************************************)
Ident == Nat \X Nat

PartTypes  == {"world_collection_page", "world_snapshot_complete"}
WorldTypes == PartTypes \cup {"world_manifest"}
Telling    == WorldTypes \cup {"state_snapshot"}

BodyType ==
    [ type : MessageTypes, correlation : Nat, ref : Ident \cup CommandIds \cup {None},
      index : Nat, name : Names \cup {None}, number : Nat ]

(* What a client keeps of a message is what the message is about. *)
BodyOK(b) ==
    /\ b \in BodyType
    /\ b.type \in Telling => b.ref \in Ident
    /\ b.type = "state_snapshot" => b.name \in Names

MessageType == [inst : Nat, seq : Nat, body : BodyType]

CommandType ==
    [ type : {"command_request"}, request : Nat, id : CommandIds, name : Names,
      prior : Ident \cup {None}, number : Nat, home : Nat ]

RequestType == CommandType \cup [type : {"resync_request"}, request : Nat]

SuspendedType ==
    [handler : {"world"}, next : Nat, number : Nat, ref : Ident]
    \cup [handler : {"command"}, request : CommandType, success : BOOLEAN]

GameType ==
    [ inst : Nat, seq : Nat, lastSnap : Ident \cup {None},
      ledger : Seq(CommandIds \X Names), doing : SuspendedType \cup {None},
      name : Names, number : Nat, completed : Seq(CommandIds) ]

SnapType == [id : Ident, name : Names, number : Nat]

Phases == {"idle", "syncing", "probing", "commanding", "verifying"}

ClientType ==
    [ phase : Phases,
      state : {"disconnected", "resynchronizing", "synchronized", "identity_verified", "failed"},
      inst : Nat, last : Nat, snap : SnapType \cup {None}, world : SUBSET Nat,
      seen : SUBSET Ident, manifest : [ref : Ident, number : Nat] \cup {None},
      pages : SUBSET [index : Nat, number : Nat], request : Nat,
      got : SUBSET MessageTypes,
      command : [id : CommandIds, name : Names] \cup {None}, accepted : BOOLEAN,
      outcome : {"none", "success", "refused", "raised"}, rejecting : BOOLEAN,
      home : Nat, since : Nat ]

Has(k) == k.state = "synchronized" \/ "state_snapshot" \in k.got

ClientOK(k) ==
    /\ k \in ClientType
    /\ Has(k) => k.snap \in SnapType
    /\ k.phase \in {"commanding", "verifying"} => k.command \in [id : CommandIds, name : Names]
    /\ k.phase # "idle" => k.outcome = "none"

EntryType ==
    [ id : CommandIds, name : Names, at : Nat, inst : Nat, decided : Nat, newest : Nat,
      home : Nat ]

LinkOK(l) ==
    /\ l \in [up : BOOLEAN, queue : Seq(MessageType)]
    /\ \A i \in DOMAIN l.queue : BodyOK(l.queue[i].body)
    /\ ~l.up => l.queue = <<>>

TypeInv ==
    /\ game \in GameType
    /\ saved \in GameType \cup {None}
    /\ inbox \in Seq(RequestType)
    /\ DOMAIN link = Clients /\ \A c \in Clients : LinkOK(link[c])
    /\ DOMAIN client = Clients /\ \A c \in Clients : ClientOK(client[c])
    /\ \A c \in Clients : client[c].phase # "idle" => link[c].up
    /\ requests \in Nat /\ captures \in Nat
    /\ log \in Seq(EntryType)
    /\ spent \in [Kinds -> Nat]

--------------------------------------------------------------------------------
(***************************************************************************)
(* Commands run once: the ledger is the end of the list of completed       *)
(* commands, in the game and in its save.                                  *)
(***************************************************************************)
Ends(ledger, completed) ==
    LET n == Len(completed) - Len(ledger)
    IN  /\ n \in Nat
        /\ Len(ledger) <= LedgerLimit
        /\ n > 0 => Len(ledger) = LedgerLimit
        /\ \A i \in DOMAIN ledger : ledger[i][1] = completed[n + i]

LedgerOf(g) == Ends(g.ledger, g.completed)

LedgerInv == LedgerOf(game) /\ (saved # None => LedgerOf(saved))

(***************************************************************************)
(* The game a task is tied to: every snapshot is named for its instance,   *)
(* and a client that rejects a change of instance has snapshots of its own *)
(* game only.                                                              *)
(***************************************************************************)
GameNamed(g) == g.lastSnap # None => g.lastSnap[1] = g.inst

QueueNamed(s) ==
    \A i \in DOMAIN s : s[i].body.type = "state_snapshot" => s[i].body.ref[1] = s[i].inst

ClientTied(k) ==
    k.rejecting => k.home # 0 /\ k.inst = k.home /\ (Has(k) => k.snap.id[1] = k.home)

RequestTied(q) ==
    q.type = "command_request" /\ q.home # 0 => q.prior \in Ident /\ q.prior[1] = q.home

NamedInv ==
    /\ GameNamed(game) /\ (saved # None => GameNamed(saved))
    /\ \A c \in Clients : QueueNamed(link[c].queue) /\ ClientTied(client[c])
    /\ \A i \in DOMAIN inbox : RequestTied(inbox[i])
    /\ ResumedInTheSameGame

--------------------------------------------------------------------------------
(***************************************************************************)
(* Freshness.  The script answers one request after the other, so what     *)
(* follows the response to a request on a connection was captured after    *)
(* the request was sent.                                                   *)
(***************************************************************************)
Number(m) == m.body.number
Tells(m)  == m.body.type \in Telling
IsPart(m) == m.body.type \in PartTypes
OfWorld(m) == m.body.type \in WorldTypes

(* A part of a world follows the part before it, and a response follows a  *)
(* hello and the capabilities and is followed by a snapshot.  A queue may  *)
(* begin in the middle.                                                    *)
PartsFollow(s) ==
    \A i \in DOMAIN s : i > 1 /\ IsPart(s[i]) =>
        OfWorld(s[i - 1]) /\ Number(s[i - 1]) = Number(s[i])

Handshakes(s) ==
    \A i \in DOMAIN s : s[i].body.type = "resync_response" =>
        /\ i + 1 \in DOMAIN s /\ s[i + 1].body.type = "state_snapshot"
        /\ i > 1 => s[i - 1].body.type = "capabilities"
        /\ i > 2 => s[i - 2].body.type = "hello"

(* The next part of the world will follow the last message. *)
Underway(g) == SendingWorld(g) /\ g.doing.next > 0

LastIsPart(s, g) ==
    Underway(g) /\ s # <<>> =>
        OfWorld(s[Len(s)]) /\ Number(s[Len(s)]) = g.doing.number

StreamOf(s, g) == PartsFollow(s) /\ Handshakes(s) /\ LastIsPart(s, g)

StreamInv == \A c \in Clients : StreamOf(link[c].queue, game)

(* Requests are numbered, so that a response to a new one is not there. *)
DoingNumbered(g) == ChangingName(g) => g.doing.request.request <= requests

NumberInv ==
    /\ \A i \in DOMAIN inbox : inbox[i].request <= requests
    /\ DoingNumbered(game)
    /\ \A c \in Clients :
        /\ client[c].request <= requests /\ client[c].since <= captures
        /\ \A i \in DOMAIN link[c].queue : link[c].queue[i].body.correlation <= requests

(* From position p on, everything is newer than n. *)
NewerFrom(s, p, g, n) ==
    /\ \A j \in DOMAIN s : j >= p /\ Tells(s[j]) => Number(s[j]) > n
    /\ SendingWorld(g) => g.doing.number > n

Own(k, m) == m.body.type = "resync_response" /\ m.body.correlation = k.request

Answered(k) == "resync_response" \in k.got

(* The response a client waits for, wherever it is in its queue. *)
Awaited(k, s, g) ==
    Baseline(k) /\ ~Answered(k) =>
        \A i \in DOMAIN s : Own(k, s[i]) =>
            /\ NewerFrom(s, i, g, k.since)
            /\ i = 1 => "capabilities" \in k.got
            /\ i <= 2 => "hello" \in k.got

(* The world the client assembles is the one whose parts come next. *)
Assembles(k, n) ==
    Assembling(k) => k.manifest.number = n /\ \A p \in k.pages : p.number = n

Assembly(k, s, g) ==
    /\ {"hello", "capabilities"} \subseteq k.got
    /\ \/ "state_snapshot" \in k.got /\ k.snap.number > k.since
       \/ s # <<>> /\ s[1].body.type = "state_snapshot"
    /\ s # <<>> /\ IsPart(s[1]) => Assembles(k, Number(s[1]))
    /\ s = <<>> /\ Underway(g) => Assembles(k, g.doing.number)

Fresh(k) ==
    /\ k.snap.number > k.since
    /\ k.world # {} /\ \A n \in k.world : n > k.since
    /\ k.manifest # None => k.manifest.number > k.since
    /\ \A p \in k.pages : p.number > k.since

Current(k) == (Baseline(k) /\ Answered(k)) \/ k.state = "synchronized"

Collecting(k) == k.phase \in {"syncing", "verifying"}

FreshOf(k, s, g) ==
    /\ Awaited(k, s, g)
    /\ Current(k) => NewerFrom(s, 1, g, k.since)
    /\ Baseline(k) => k.state # "synchronized"
    /\ Collecting(k) => "world_snapshot_complete" \notin k.got
    /\ Collecting(k) /\ Answered(k) => Assembly(k, s, g)
    /\ k.state = "synchronized" => Fresh(k)

FreshInv == \A c \in Clients : FreshOf(client[c], link[c].queue, game)

--------------------------------------------------------------------------------
(***************************************************************************)
(* Success.  What is answered as completed has been logged, and the answer *)
(* a command waits for is about the command.                               *)
(***************************************************************************)
Logged(id, name, n) ==
    \E i \in DOMAIN log : log[i].id = id /\ log[i].name = name /\ log[i].at <= n

GameLogged(g) ==
    \A i \in DOMAIN g.ledger : Logged(g.ledger[i][1], g.ledger[i][2], captures)

QueueLogged(s) ==
    \A i \in DOMAIN s : s[i].body.type = "command_completed" =>
        Logged(s[i].body.ref, s[i].body.name, captures)

SameCommand(k, id, name) == id = k.command.id /\ name = k.command.name

AnswersFit(k, s) ==
    k.phase = "commanding" =>
        /\ \A i \in DOMAIN inbox :
              inbox[i].type = "command_request" /\ inbox[i].request = k.request =>
                  SameCommand(k, inbox[i].id, inbox[i].name)
        /\ ChangingName(game) /\ game.doing.request.request = k.request =>
              SameCommand(k, game.doing.request.id, game.doing.request.name)
        /\ \A i \in DOMAIN s :
              s[i].body.type = "command_completed" /\ s[i].body.correlation = k.request =>
                  SameCommand(k, s[i].body.ref, s[i].body.name)

SuccessInv ==
    /\ GameLogged(game) /\ (saved # None => GameLogged(saved))
    /\ ChangingName(game) /\ game.doing.success =>
          Logged(game.doing.request.id, game.doing.request.name, captures)
    /\ \A c \in Clients :
        LET k == client[c]
        IN  /\ QueueLogged(link[c].queue)
            /\ AnswersFit(k, link[c].queue)
            /\ k.phase = "verifying" => Logged(k.command.id, k.command.name, k.since)
    /\ SuccessIsReal

--------------------------------------------------------------------------------
(***************************************************************************)
(* Identity.  As long as no saved game has been loaded, IDs grow: one ID   *)
(* is that of one capture.                                                 *)
(***************************************************************************)
NeverLoaded == spent["load"] = 0

(* An ID the script of g can have given. *)
Given(id, g, ahead) == id[1] < g.inst \/ (id[1] = g.inst /\ id[2] <= g.seq + ahead)

SnapshotOf(id, number, g) ==
    /\ id \in Ident => Given(id, g, 0)
    /\ id = None => number = 0
    /\ id = g.lastSnap => number = g.number

DecidedInv ==
    /\ game.inst = spent["new_game"] + 1
    /\ SnapshotOf(game.lastSnap, game.number, game)
    /\ \A i \in DOMAIN inbox : inbox[i].type = "command_request" =>
          SnapshotOf(inbox[i].prior, inbox[i].number, game)
    /\ \A c \in Clients :
        LET s == link[c].queue
        IN  /\ \A i \in DOMAIN s : s[i].body.type = "state_snapshot" =>
                  SnapshotOf(s[i].body.ref, s[i].body.number, game)
            /\ Has(client[c]) => SnapshotOf(client[c].snap.id, client[c].snap.number, game)
    /\ DecidedOnTheNewestCapture

(* The worlds that a client has a part of, or may still hear of: a world   *)
(* is known by its ID, and is of one capture.                              *)
Tag(x) == <<x.ref, x.number>>

KnownWorlds(k, s, g) ==
    {Tag(s[i].body) : i \in {j \in DOMAIN s : OfWorld(s[j])}}
    \cup {Tag(x) : x \in {k.manifest} \ {None}}
    \cup {Tag(x) : x \in IF SendingWorld(g) THEN {g.doing} ELSE {}}

OneCapture(worlds, g) ==
    /\ \A x \in worlds : Given(x[1], g, 1)
    /\ \A x, y \in worlds : x[1] = y[1] => x = y

Whole(k) ==
    /\ k.manifest # None => \A p \in k.pages : p.number = k.manifest.number
    /\ Cardinality(k.world) = 1

WorldsOf(k, s, g) ==
    /\ OneCapture(KnownWorlds(k, s, g), g)
    /\ k.state = "synchronized" => Whole(k)

WorldsInv ==
    /\ game.inst = spent["new_game"] + 1
    /\ \A c \in Clients : WorldsOf(client[c], link[c].queue, game)

================================================================================
