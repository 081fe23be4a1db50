---------------------------- MODULE GameScriptBridge ----------------------------
(***************************************************************************)
(* The OpenTTD bridge end to end: clients, each on an admin connection of  *)
(* its own, and the script of one game, which broadcasts everything it     *)
(* sends to every subscribed connection and keeps nothing for the others.  *)
(* A connection delivers in order.  The game may be saved and loaded, or   *)
(* replaced by a new one, whenever the script is suspended.                *)
(***************************************************************************)
EXTENDS BridgeClient

CONSTANTS
    Clients,        \* client processes
    FirstName,      \* the company's name in a new game
    Refusals,       \* what the game may refuse: SetName in "test" mode, the "change"
    Budget          \* bound: how often each kind of event happens

Kinds ==
    {"synchronize", "verify", "command", "process", "timeout",
     "other", "save", "load", "new_game"}

ASSUME CompositionAssumption ==
    /\ FirstName \in Names /\ Refusals \subseteq {"test", "change"}
    /\ Budget \in [Kinds -> Nat]

VARIABLES
    game,       \* the running game, its script included
    saved,      \* the saved game
    inbox,      \* requests on their way to the script, in order
    link,       \* per client: whether it is connected, and the messages on the way
    client,     \* per client: its state
    requests,   \* history: how many requests were sent; numbers them
    captures,   \* history: how many captures were taken; numbers them
    log,        \* history: every change of the name by a command
    spent       \* bound: how often each kind of event has happened

vars == <<game, saved, inbox, link, client, requests, captures, log, spent>>

Init ==
    /\ game = Sent(NewGame(1, FirstName), Greeting)
    /\ saved = None
    /\ inbox = <<>>
    /\ link = [c \in Clients |-> [up |-> FALSE, queue |-> <<>>]]
    /\ client = [c \in Clients |-> NewClient]
    /\ requests = 0 /\ captures = 0
    /\ log = <<>>
    /\ spent = [kind \in Kinds |-> 0]

Spend(kind) ==
    /\ spent[kind] < Budget[kind]
    /\ spent' = [spent EXCEPT ![kind] = @ + 1]

--------------------------------------------------------------------------------
(* The script.  It handles one event at a time. *)

Awake == game.doing = None

(* The script sends the bodies, and is then the script of `after`. *)
Send(bodies, after) ==
    /\ game' = Sent(after, bodies)
    /\ link' = [c \in Clients |->
           IF link[c].up THEN [link[c] EXCEPT !.queue = @ \o Numbered(game, bodies)] ELSE link[c]]

Heartbeat ==
    /\ Awake /\ Spend("other")
    /\ Send(<<Body("heartbeat", 0)>>, game)
    /\ UNCHANGED <<saved, inbox, client, requests, captures, log>>

(* The next request is of this type, and is taken. *)
Takes(type) == Awake /\ inbox # <<>> /\ Head(inbox).type = type /\ inbox' = Tail(inbox)

HandleResync ==
    LET number == captures + 1
    IN  /\ Takes("resync_request")
        /\ captures' = number
        /\ Send(Handshake(game, Head(inbox).request, number), AfterHandshake(game, number))
        /\ UNCHANGED <<saved, client, requests, log, spent>>

SendWorld ==
    /\ SendingWorld(game)
    /\ Send(<<WorldMessage(game.doing)>>, AfterWorldMessage(game))
    /\ UNCHANGED <<saved, inbox, client, requests, captures, log, spent>>

(* A command that is known, or is refused before or by the test mode. *)
HandleCommand ==
    LET q == Head(inbox)
    IN  /\ Takes("command_request")
        /\ \/ /\ FindLedger(game, q.id) # {}
              /\ Send(Replay(game, q), game)
           \/ /\ FindLedger(game, q.id) = {}
              /\ Executable(game, q) => "test" \in Refusals
              /\ Send(<<Reject(q)>>, game)
        /\ UNCHANGED <<saved, client, requests, captures, log, spent>>

(* ExecuteSetCompanyName, up to the call of SetName, which suspends the    *)
(* script until the game has, or has not, changed the name.                *)
ExecuteSetCompanyName ==
    LET q == Head(inbox)
    IN  /\ Takes("command_request") /\ Executable(game, q)
        /\ \/ /\ Send(<<Accept(q)>>, Renaming(game, q, TRUE))
              /\ log' = Append(log,
                     [ id |-> q.id, name |-> q.name, at |-> captures, inst |-> game.inst,
                       decided |-> q.number, newest |-> game.number, home |-> q.home ])
           \/ /\ "change" \in Refusals
              /\ Send(<<Accept(q)>>, Renaming(game, q, FALSE))
              /\ UNCHANGED log
        /\ UNCHANGED <<saved, client, requests, captures, spent>>

(* The rest of it. *)
AnswerSetCompanyName ==
    /\ ChangingName(game)
    /\ IF Succeeded(game)
       THEN Send(<<Complete(game.doing.request)>>, Executed(game))
       ELSE Send(<<Fail(game.doing.request)>>, [game EXCEPT !.doing = None])
    /\ UNCHANGED <<saved, inbox, client, requests, captures, log, spent>>

--------------------------------------------------------------------------------
(* The game around the script. *)

Save ==
    /\ Spend("save")
    /\ saved' = game
    /\ UNCHANGED <<game, inbox, link, client, requests, captures, log>>

(* The script starts again; the requests it had not handled may be lost    *)
(* with its event queue.                                                   *)
Restart(g) ==
    /\ Send(Greeting, g)
    /\ inbox' \in {inbox, <<>>}
    /\ UNCHANGED <<saved, client, requests, captures, log>>

LoadGame == saved # None /\ Spend("load") /\ Restart(Load(saved))

StartNewGame == Spend("new_game") /\ Restart(NewGame(spent["new_game"] + 2, FirstName))

Rename ==
    /\ Spend("other")
    /\ \E name \in Names \ {game.name} : game' = [game EXCEPT !.name = name]
    /\ UNCHANGED <<saved, inbox, link, client, requests, captures, log>>

--------------------------------------------------------------------------------
(* The clients.  A method of a client sends a request, then receives until *)
(* it returns or raises.                                                   *)

Request(q) ==
    /\ requests' = requests + 1
    /\ inbox' = Append(inbox, q)

ResyncRequest == [type |-> "resync_request", request |-> requests + 1]

(* connect does nothing if there is a connection. *)
Begin(c, phase) ==
    /\ client[c].phase = "idle"
    /\ Request(ResyncRequest)
    /\ client' = [client EXCEPT ![c] =
           [Requesting(@, phase, requests + 1, captures) EXCEPT !.outcome = "none"]]
    /\ link' = [link EXCEPT ![c] = IF @.up THEN @ ELSE [up |-> TRUE, queue |-> <<>>]]
    /\ UNCHANGED <<game, saved, captures, log>>

Synchronize(c) == Spend("synchronize") /\ Begin(c, "syncing")

VerifyIdentity(c) == Spend("verify") /\ Begin(c, "probing")

(* The command names the snapshot the client has; the adapter's validation *)
(* refuses a name that snapshot already shows.                             *)
SendCommand(c) ==
    LET k == client[c]
    IN  /\ k.phase = "idle" /\ k.state = "synchronized" /\ link[c].up /\ Spend("command")
        /\ \E id \in CommandIds, name \in Names \ {k.snap.name} :
            /\ Request([ type |-> "command_request", request |-> requests + 1,
                         id |-> id, name |-> name, prior |-> k.snap.id,
                         number |-> k.snap.number,
                         home |-> IF k.rejecting THEN k.home ELSE 0 ])
            /\ client' = [client EXCEPT ![c] =
                   [k EXCEPT !.phase = "commanding", !.request = requests + 1,
                             !.command = [id |-> id, name |-> name],
                             !.accepted = FALSE, !.outcome = "none"]]
        /\ UNCHANGED <<game, saved, link, captures, log>>

(* The next message is received, and the client is then k. *)
Incoming(c) == Head(link[c].queue)

Receiver(c) == Received(client[c], Incoming(c))

Receiving(c) == client[c].phase # "idle" /\ link[c].queue # <<>>

Now(c, k) ==
    /\ link' = [link EXCEPT ![c].queue = Tail(@)]
    /\ client' = [client EXCEPT ![c] = k]
    /\ UNCHANGED <<game, saved, captures, log>>

ReceiveRefused(c) ==
    /\ Receiving(c) /\ Refused(client[c], Incoming(c))
    /\ Now(c, Raised(client[c]))
    /\ UNCHANGED <<inbox, requests, spent>>

Negotiate(c) ==
    LET k == Receiver(c)
        b == Incoming(c).body
        n == Negotiated(k, b)
    IN  /\ Receiving(c) /\ Baseline(client[c]) /\ ~Refused(client[c], Incoming(c))
        /\ Now(c, IF Misplaced(k, b) THEN Raised(k) ELSE IF Finished(n) THEN Returned(n) ELSE n)
        /\ UNCHANGED <<inbox, requests, spent>>

AwaitingAnswer(c) ==
    Receiving(c) /\ client[c].phase = "commanding" /\ ~Refused(client[c], Incoming(c))

ConsumeUnsolicited(c) ==
    LET k == Receiver(c)
        b == Incoming(c).body
    IN  /\ AwaitingAnswer(c) /\ Unsolicited(k, b)
        /\ Now(c, IF UnsolicitedRefused(k, b) THEN Raised(k) ELSE Consumed(k, b))
        /\ UNCHANGED <<inbox, requests, spent>>

(* Completion after acceptance leads to the synchronization that verifies  *)
(* it; anything else is a BridgeCommandError.                              *)
ReceiveAnswer(c) ==
    LET k == Receiver(c)
        completes == Incoming(c).body.type = "command_completed" /\ k.accepted
    IN  /\ AwaitingAnswer(c) /\ ~Unsolicited(k, Incoming(c).body)
        /\ \/ /\ Incoming(c).body.type = "command_accepted"
              /\ Now(c, [k EXCEPT !.accepted = TRUE])
              /\ UNCHANGED <<inbox, requests>>
           \/ /\ Incoming(c).body.type # "command_accepted" /\ ~completes
              /\ Now(c, [k EXCEPT !.phase = "idle", !.outcome = "refused"])
              /\ UNCHANGED <<inbox, requests>>
           \/ /\ completes
              /\ Request(ResyncRequest)
              /\ Now(c, Requesting(k, "verifying", requests + 1, captures))
        /\ UNCHANGED spent

(* Nothing arrived in time: nothing will, or it will be late. *)
Timeout(c) ==
    /\ client[c].phase # "idle" /\ link[c].queue = <<>>
    /\ client' = [client EXCEPT ![c] = Raised(@)]
    /\ \/ Awake /\ inbox = <<>> /\ UNCHANGED spent
       \/ ~(Awake /\ inbox = <<>>) /\ Spend("timeout")
    /\ UNCHANGED <<game, saved, inbox, link, requests, captures, log>>

(* A client that is not modelled asks for a snapshot, or for a change of   *)
(* the name that it decided on the newest; everybody hears the answers.    *)
OthersRequest ==
    /\ Spend("other")
    /\ \/ Request(ResyncRequest)
       \/ \E id \in CommandIds, name \in Names \ {game.name} :
            Request([ type |-> "command_request", request |-> requests + 1,
                      id |-> id, name |-> name, prior |-> game.lastSnap,
                      number |-> game.number, home |-> 0 ])
    /\ UNCHANGED <<game, saved, link, client, captures, log>>

(* collect_state waits for the admin port's own answers and passes over    *)
(* what the script has sent.                                               *)
CollectState(c) ==
    /\ client[c].phase = "idle" /\ link[c].queue # <<>>
    /\ link' = [link EXCEPT ![c].queue = <<>>]
    /\ UNCHANGED <<game, saved, inbox, client, requests, captures, log, spent>>

Disconnected(c) == link' = [link EXCEPT ![c] = [up |-> FALSE, queue |-> <<>>]]

Close(c) ==
    /\ client[c].phase = "idle" /\ link[c].up
    /\ client' = [client EXCEPT ![c].state = "disconnected"]
    /\ Disconnected(c)
    /\ UNCHANGED <<game, saved, inbox, requests, captures, log, spent>>

(* The process ends anywhere; the next one resumes the task that persisted *)
(* a synchronized health, or knows nothing.                                *)
NewProcess(c) ==
    /\ Spend("process")
    /\ \/ client' = [client EXCEPT ![c] = NewClient]
       \/ client[c].home # 0 /\ client' = [client EXCEPT ![c] = Resumed(@)]
    /\ Disconnected(c)
    /\ UNCHANGED <<game, saved, inbox, requests, captures, log>>

--------------------------------------------------------------------------------

ScriptStep ==
    \/ Heartbeat \/ HandleResync \/ SendWorld
    \/ HandleCommand \/ ExecuteSetCompanyName \/ AnswerSetCompanyName

GameStep == Save \/ LoadGame \/ StartNewGame \/ Rename

(* The steps of a method that is running. *)
ClientStep(c) ==
    ReceiveRefused(c) \/ Negotiate(c) \/ ConsumeUnsolicited(c) \/ ReceiveAnswer(c) \/ Timeout(c)

Next ==
    \/ ScriptStep \/ GameStep \/ OthersRequest
    \/ \E c \in Clients :
        \/ Synchronize(c) \/ VerifyIdentity(c) \/ SendCommand(c)
        \/ ClientStep(c) \/ CollectState(c) \/ Close(c) \/ NewProcess(c)

Spec == Init /\ [][Next]_vars

(***************************************************************************)
(* A client that synchronizes when it has to, in a process that lasts,     *)
(* while the game does as it likes.  Fairness: the game runs the script, a *)
(* running method goes on, and the user tries again.                       *)
(***************************************************************************)
Retry(c) == client[c].state # "synchronized" /\ Synchronize(c)

RetryingNext ==
    \/ ScriptStep \/ GameStep \/ OthersRequest
    \/ \E c \in Clients :
        \/ Retry(c) \/ VerifyIdentity(c) \/ SendCommand(c)
        \/ ClientStep(c) \/ CollectState(c)

RetryingSpec ==
    /\ Init /\ [][RetryingNext]_vars
    /\ WF_vars(HandleResync \/ SendWorld \/ HandleCommand
               \/ ExecuteSetCompanyName \/ AnswerSetCompanyName)
    /\ \A c \in Clients : WF_vars(ClientStep(c)) /\ WF_vars(Retry(c))

================================================================================
