------------------------------ MODULE BridgeScript ------------------------------
(***************************************************************************)
(* The in-game half of the OpenTTD bridge (openttd_gamescript/             *)
(* sim_pilot_bridge/main.nut): what the script keeps, what it answers to a *)
(* request, and what a saved game brings back.                             *)
(*                                                                         *)
(* A game is a record of the script's fields and the one part of the world *)
(* a command changes, the company's name; the script is saved and loaded   *)
(* with the world.  There is one company, which exists.  The operators are *)
(* functions of a game, because a saved game is one too.                   *)
(*                                                                         *)
(*   inst, seq    script_instance_id and sequence                          *)
(*   lastSnap     last_snapshot_id                                         *)
(*   ledger       command_ledger, oldest first: <<command ID, name>>       *)
(*   doing        the handler the game has suspended, if any: it is sending*)
(*                a world, or waits for SetName to take effect             *)
(*   name         the company's name                                       *)
(*   number       history: the number of the newest capture                *)
(*   completed    history: the commands completed in this timeline         *)
(***************************************************************************)
EXTENDS Integers, Sequences, FiniteSets

CONSTANTS
    Names,          \* company names
    CommandIds,     \* stable command IDs
    LedgerLimit,    \* ledger_limit
    Pages,          \* entities in a world capture, one per page
    None            \* null

ASSUME BridgeAssumption ==
    /\ LedgerLimit \in Nat \ {0} /\ Pages \in Nat
    /\ None \notin Names \cup CommandIds \cup (Nat \X Nat)     \* an ID is not null

--------------------------------------------------------------------------------
(* Messages.  A body is what the payload says; Send numbers it.  Message,  *)
(* snapshot and world IDs all are "<instance>:<sequence>".                 *)

MessageTypes ==
    {"hello", "capabilities", "heartbeat", "resync_response", "state_snapshot",
     "world_manifest", "world_collection_page", "world_snapshot_complete",
     "command_accepted", "command_rejected", "command_failed", "command_completed"}

Body(type, correlation) ==
    [ type |-> type, correlation |-> correlation, ref |-> None, index |-> 0,
      name |-> None, number |-> 0 ]

Id(instance, sequence) == <<instance, sequence>>

(* Send: the messages the bodies become, and the script after sending them. *)
Numbered(g, bodies) ==
    [i \in DOMAIN bodies |-> [inst |-> g.inst, seq |-> g.seq + i, body |-> bodies[i]]]

Sent(g, bodies) == [g EXCEPT !.seq = @ + Len(bodies)]

--------------------------------------------------------------------------------
(* A new game, the greeting of Start, and Load. *)

NewGame(instance, name) ==
    [ inst |-> instance, seq |-> 0, lastSnap |-> None, ledger |-> <<>>,
      doing |-> None, name |-> name, number |-> 0, completed |-> <<>> ]

Greeting == <<Body("hello", 0), Body("capabilities", 0)>>

Load_ForgetsLedger(g) == [g EXCEPT !.doing = None, !.ledger = <<>>]

(* Save and Load keep every field; the suspended handler is not resumed. *)
Load(g) == [g EXCEPT !.doing = None]

--------------------------------------------------------------------------------
(* resync_request: the greeting, the response and the summary; the world   *)
(* follows message by message, for the script is suspended while it sends. *)

CompanySnapshot(g, number) ==
    [Body("state_snapshot", 0) EXCEPT
        !.ref = Id(g.inst, g.seq + 4), !.name = g.name, !.number = number]

Handshake(g, request, number) ==
    << Body("hello", request), Body("capabilities", request),
       Body("resync_response", request), CompanySnapshot(g, number) >>

(* BuildWorldCollections: everything is collected before the first page is *)
(* sent; of what the entities say only the number of the capture is kept.  *)
Collections(g, number) ==
    [ handler |-> "world", next |-> 0, number |-> number, ref |-> Id(g.inst, g.seq + 5) ]

AfterHandshake(g, number) ==
    [g EXCEPT !.lastSnap = Id(g.inst, g.seq + 4), !.number = number,
              !.doing = Collections(g, number)]

SendingWorld(g) == g.doing # None /\ g.doing.handler = "world"

WorldMessage(capture) ==
    LET type == IF capture.next = 0 THEN "world_manifest"
                ELSE IF capture.next <= Pages THEN "world_collection_page"
                ELSE "world_snapshot_complete"
    IN  [Body(type, 0) EXCEPT
            !.ref = capture.ref, !.index = capture.next, !.number = capture.number]

AfterWorldMessage(g) ==
    [g EXCEPT !.doing = IF @.next > Pages THEN None ELSE [@ EXCEPT !.next = g.doing.next + 1]]

--------------------------------------------------------------------------------
(* command_request: set_company_name. *)

FindLedger(g, id) == {i \in DOMAIN g.ledger : g.ledger[i][1] = id}

(* The ledger keeps the newest entries. *)
Remember(ledger, entry) ==
    LET longer == Append(ledger, entry)
    IN  IF Len(longer) > LedgerLimit THEN Tail(longer) ELSE longer

Accept(q) == [Body("command_accepted", q.request) EXCEPT !.ref = q.id]

Complete(q) == [Body("command_completed", q.request) EXCEPT !.ref = q.id, !.name = q.name]

Fail(q) == [Body("command_failed", q.request) EXCEPT !.ref = q.id]

Reject(q) == [Body("command_rejected", q.request) EXCEPT !.ref = q.id]

(* A known command is answered from the ledger: replayed if its fingerprint *)
(* (the action and its parameters) is the same, refused if not.            *)
Replay(g, q) ==
    IF \E i \in FindLedger(g, q.id) : g.ledger[i][2] = q.name
    THEN <<Accept(q), Complete(q)>>
    ELSE <<Reject(q)>>

Executable_AnySnapshot(g, q) == FindLedger(g, q.id) = {}

(* A new command runs only on the snapshot it was decided on. *)
Executable(g, q) == FindLedger(g, q.id) = {} /\ q.prior = g.lastSnap

(* SetName has been called, and has or has not changed the name. *)
Renaming(g, q, success) ==
    [g EXCEPT !.name = IF success THEN q.name ELSE @,
              !.doing = [handler |-> "command", request |-> q, success |-> success]]

ChangingName(g) == g.doing # None /\ g.doing.handler = "command"

Succeeded(g) == g.doing.success /\ g.name = g.doing.request.name

Executed(g) ==
    [g EXCEPT !.doing = None, !.completed = Append(@, g.doing.request.id),
              !.ledger = Remember(@, <<g.doing.request.id, g.doing.request.name>>)]

================================================================================
