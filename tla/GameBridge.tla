------------------------------- MODULE GameBridge -------------------------------
(***************************************************************************)
(* The semantic bridge that Rail Route's plug-in and Software Inc.'s mod   *)
(* share (SimPilot.GameBridge.Core/BridgeServer.cs), its client            *)
(* (game_bridge/client.py) and one synchronized observation over it        *)
(* (rail_route/ui/observer.py, software_inc/ui/observer.py): connect, a    *)
(* snapshot, a screenshot, a second snapshot, close.                       *)
(*                                                                         *)
(* The server owns one client at a time and asks its provider for the      *)
(* game's state whenever it sends.  Rail Route's provider copies what the  *)
(* last rendered frame showed ("sampled"); Software Inc.'s waits for the   *)
(* game's main thread, which runs only while the game is in front, and     *)
(* gives up after three seconds ("pumped").                                *)
(*                                                                         *)
(* `game' is what the game is: its session stands for session, map and     *)
(* save identity, and its time counts its changes.  The actions that       *)
(* change it are with the desk that uses the bridge.  A wire is one TCP    *)
(* connection; an observation uses a client and a wire of its own.         *)
(***************************************************************************)
EXTENDS Naturals, Sequences

CONSTANTS
    None, Failed,
    Providers,          \* a subset of {"sampled", "pumped"}
    MaxWires,           \* bound: connections in a behaviour, for each provider
    MaxBeats,           \* bound: heartbeats on one connection
    MaxInstances,       \* bound: starts of the game
    MaxRefreshes        \* frames taken again because they grew old

ASSUME GameBridgeAssumption ==
    /\ Providers \subseteq {"sampled", "pumped"}
    /\ MaxWires \in [Providers -> Nat \ {0}] /\ MaxBeats \in Nat /\ MaxInstances \in Nat \ {0}
    /\ MaxRefreshes \in Nat

VARIABLES
    provider,   \* how the server learns the state of the game
    game,       \* the game: a record with `session' and `time' among its fields
    front,      \* the game's window is in front
    bridge,     \* the server: instance, sequence, owner and what it is doing
    wires,      \* the connections made so far
    look,       \* the observation under way
    seen        \* None, Failed, or what the last observation saw

bridgeVars == <<provider, front, bridge, wires, look, seen>>

NewBridge(instance) ==
    [instance |-> instance, sequence |-> 0, owner |-> 0, stage |-> "hello",
     heard |-> 0, beats |-> 0, job |-> None]

NoLook ==
    [at |-> "idle", wire |-> 0, instance |-> 0, session |-> 0, heard |-> 0, sent |-> 0,
     refreshes |-> 0, before |-> None, frame |-> None, after |-> None]

BridgeInit ==
    /\ provider \in Providers
    /\ front \in IF provider = "pumped" THEN BOOLEAN ELSE {TRUE}
    /\ bridge = NewBridge(1)
    /\ wires = <<>>
    /\ look = NoLook
    /\ seen = None

-----------------------------------------------------------------------------
(* The server. *)

Owner == bridge.owner
Wire == wires[Owner]
Owned == Owner # 0

(* The handler ends: its connection is closed and ownership given up. *)
Released(b) == [b EXCEPT !.owner = 0, !.stage = "hello", !.heard = 0,
                         !.beats = 0, !.job = None]
Release ==
    /\ bridge' = Released(bridge)
    /\ wires' = [wires EXCEPT ![Owner].shut = TRUE, ![Owner].up = <<>>]

(* AcceptLoop: a client is owned, or refused when the owner before it does   *)
(* not leave within 250 ms.                                                  *)
Accept ==
    \E w \in DOMAIN wires :
        /\ wires[w].waiting
        /\ \/ /\ Owner = 0
              /\ bridge' = [bridge EXCEPT !.owner = w]
              /\ wires' = [wires EXCEPT ![w].waiting = FALSE]
           \/ /\ Owned
              /\ wires' = [wires EXCEPT ![w].waiting = FALSE, ![w].shut = TRUE,
                                        ![w].up = <<>>]
              /\ UNCHANGED bridge

(* A request is read; what it asks is known before the state is captured. *)
Job(message) ==
    IF bridge.stage = "hello" THEN [do |-> "hello", request |-> message]
    ELSE IF message.sequence # bridge.heard + 1 \/ message.instance # bridge.instance
    THEN [do |-> "error", request |-> message]
    ELSE [do |-> "snapshot", request |-> message]

Hear ==
    /\ Owned /\ bridge.job = None /\ Wire.up # <<>>
    /\ bridge' = [bridge EXCEPT !.job = Job(Head(Wire.up)), !.heard = Head(Wire.up).sequence]
    /\ wires' = [wires EXCEPT ![Owner].up = Tail(@)]

(* Two seconds without a request: a heartbeat is due. *)
Beat ==
    /\ Owned /\ bridge.job = None /\ bridge.stage = "serving"
    /\ Wire.up = <<>> /\ bridge.beats < MaxBeats
    /\ bridge' = [bridge EXCEPT !.beats = @ + 1,
                                !.job = [do |-> "heartbeat", request |-> None]]
    /\ UNCHANGED wires

(* The provider answers. *)
Captures == provider = "sampled" \/ front

Message(type, sequence, state) ==
    [type |-> type, sequence |-> sequence, instance |-> bridge.instance,
     to |-> IF bridge.job.request = None THEN 0 ELSE bridge.job.request.sequence,
     state |-> state]

(* What is sent for the job, once the state is known. *)
Replies(state) ==
    CASE bridge.job.do = "hello" -> <<"hello", "manifest">>
      [] bridge.job.do = "snapshot" /\ bridge.job.request.session # state.session -> <<>>
      [] OTHER -> <<bridge.job.do>>

Sent(types, state) ==
    [i \in DOMAIN types |-> Message(types[i], bridge.sequence + i, state)]

Serve ==
    /\ Owned /\ bridge.job # None /\ Captures
    /\ LET types == Replies(game) IN
       IF types = <<>>             \* a stale identity: an error, with a capture of its own
       THEN /\ bridge' = [bridge EXCEPT !.job.do = "error"]
            /\ UNCHANGED wires
       ELSE IF ~Wire.open          \* the write fails
       THEN Release
       ELSE /\ bridge' =
                   IF types = <<"error">>
                   THEN Released([bridge EXCEPT !.sequence = @ + 1])
                   ELSE [bridge EXCEPT !.sequence = @ + Len(types), !.job = None,
                                       !.stage = "serving"]
            /\ wires' = [wires EXCEPT
                   ![Owner].down = @ \o Sent(types, game),
                   ![Owner].shut = (types = <<"error">>)]

(* Mutant: the capture waits for the main thread. *)
CaptureWaits == FALSE /\ Release

(* The main thread does not answer in time: the handler fails. *)
CaptureTimeout ==
    /\ Owned /\ bridge.job # None /\ provider = "pumped"
    /\ Release

(* The client has gone, or never said hello. *)
HangUp ==
    /\ Owned /\ bridge.job = None /\ Wire.up = <<>>
    /\ ~Wire.open \/ bridge.stage = "hello"
    /\ Release

Server ==
    /\ Accept \/ Hear \/ Beat \/ Serve \/ CaptureTimeout \/ HangUp
    /\ UNCHANGED <<provider, game, front, look, seen>>

-----------------------------------------------------------------------------
(* The client and its observation. *)

Mine == wires[look.wire]

Request(session) ==
    [sequence |-> look.sent + 1, instance |-> look.instance, session |-> session]

(* connect: the hello goes out on a new connection. *)
Open ==
    /\ look.at = "idle"
    /\ Len(wires) < MaxWires[provider]
    /\ look' = [NoLook EXCEPT !.at = "hello", !.wire = Len(wires) + 1, !.sent = 1]
    /\ wires' = Append(wires, [waiting |-> TRUE, open |-> TRUE, shut |-> FALSE,
                               up |-> <<[sequence |-> 1, instance |-> 0, session |-> 0]>>,
                               down |-> <<>>])
    /\ seen' = None

(* The finally of an observation: the connection is closed, and the server   *)
(* loses it at what it does next.                                            *)
CloseWith(observation) ==
    /\ look' = NoLook
    /\ seen' = observation
    /\ wires' = [wires EXCEPT ![look.wire].open = FALSE, ![look.wire].up = <<>>,
                              ![look.wire].down = <<>>]

Raise == CloseWith(Failed)

(* _receive: identity and sequence must continue those of the connection. *)
Continues(message) ==
    /\ message.instance = look.instance
    /\ message.state.session = look.session
    /\ message.sequence = look.heard + 1

Expected == CASE look.at \in {"before", "after"} -> "snapshot" [] OTHER -> look.at

Answers(message) ==
    /\ message.type = Expected
    /\ look.at # "manifest" => message.to = look.sent

(* Mutant: the second snapshot is asked for before the screenshot. *)
FollowingFrameLast ==
    [hello |-> "manifest", manifest |-> "ask_before", before |-> "ask_after",
     after |-> "frame", frame |-> "close", ask_before |-> "before", ask_after |-> "after"]

(* What follows each step of an observation. *)
Following ==
    [hello |-> "manifest", manifest |-> "ask_before", before |-> "frame",
     after |-> "close", frame |-> "ask_after", ask_before |-> "before", ask_after |-> "after"]

Waiting == look.at \in {"hello", "manifest", "before", "after"}

Beats(message) == message.type = "heartbeat" /\ look.at \in {"before", "after"}

Accepted(message) ==
    /\ look.at = "hello" \/ Continues(message)
    /\ Answers(message) \/ Beats(message)

Receive ==
    /\ Waiting /\ Mine.down # <<>>
    /\ LET message == Head(Mine.down)
           heard == [look EXCEPT !.instance = message.instance,
                                 !.session = message.state.session,
                                 !.heard = message.sequence]
       IN  /\ Accepted(message)
           /\ look' = IF Beats(message) THEN heard
                      ELSE IF look.at \in {"before", "after"}
                      THEN [heard EXCEPT !.at = Following[@], ![look.at] = message.state]
                      ELSE [heard EXCEPT !.at = Following[@]]
    /\ wires' = [wires EXCEPT ![look.wire].down = Tail(@)]
    /\ UNCHANGED seen

(* Mutant: a read waits for as long as it takes. *)
ReceiveWaits ==
    /\ Waiting /\ Mine.down # <<>>
    /\ ~Accepted(Head(Mine.down))
    /\ Raise

(* Any other message ends the observation, as do a timeout and a closed      *)
(* connection.                                                               *)
ReceiveFails ==
    /\ Waiting
    /\ IF Mine.down = <<>> THEN TRUE ELSE ~Accepted(Head(Mine.down))
    /\ Raise

Ask ==
    /\ look.at \in {"ask_before", "ask_after"}
    /\ IF Mine.shut /\ Mine.down = <<>> THEN Raise
       ELSE /\ look' = [look EXCEPT !.at = Following[@], !.sent = @ + 1]
            /\ wires' = [wires EXCEPT ![look.wire].up =
                            IF Mine.shut THEN @ ELSE Append(@, Request(look.session))]
            /\ UNCHANGED seen

(* The screenshot; the backend brings the game to the front for it. *)
TakeFrame ==
    /\ look.at = "frame"
    /\ front' = TRUE
    /\ look' = [look EXCEPT !.at = Following[@], !.frame = game]
    /\ UNCHANGED <<wires, seen>>

(* The capture, or what an observer demands of its surfaces and its pace,    *)
(* fails.                                                                    *)
Abandon ==
    /\ look.at \in {"ask_before", "frame", "close"}
    /\ Raise

(* Software Inc.'s observer takes a frame that grew old again. *)
Refresh ==
    /\ look.at = "close" /\ provider = "pumped"
    /\ look.refreshes < MaxRefreshes
    /\ look' = [look EXCEPT !.at = "frame", !.before = look.after,
                            !.refreshes = @ + 1]
    /\ UNCHANGED <<wires, seen>>

(* close, and the continuity both observers require. *)
Finish ==
    /\ look.at = "close"
    /\ CloseWith(IF look.before.session = look.after.session
                 THEN [before |-> look.before, frame |-> look.frame, after |-> look.after,
                       instance |-> look.instance]
                 ELSE Failed)

(* While a request waits, the client of Software Inc. brings the game to     *)
(* the front.                                                                *)
BringForward ==
    /\ Waiting /\ provider = "pumped" /\ ~front
    /\ front' = TRUE
    /\ UNCHANGED <<provider, game, bridge, wires, look, seen>>

Client ==
    /\ \/ (Receive \/ ReceiveFails \/ Ask \/ Refresh \/ Abandon \/ Finish) /\ UNCHANGED front
       \/ TakeFrame
    /\ UNCHANGED <<provider, game, bridge>>

-----------------------------------------------------------------------------
(* The game's window goes behind the terminal, which matters to the pump. *)
GoBehind ==
    /\ front /\ provider = "pumped" /\ look.at # "idle"
    /\ front' = FALSE
    /\ UNCHANGED <<provider, game, bridge, wires, look, seen>>

(* The game is started anew: a new bridge, and every connection is lost. *)
Restarts ==
    /\ bridge.instance < MaxInstances
    /\ bridge' = NewBridge(bridge.instance + 1)
    /\ wires' = [w \in DOMAIN wires |->
                    [wires[w] EXCEPT !.waiting = FALSE, !.shut = TRUE, !.up = <<>>]]
    /\ UNCHANGED <<provider, front, look, seen>>

================================================================================
