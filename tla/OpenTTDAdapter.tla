---------------------------- MODULE OpenTTDAdapter ----------------------------
(***************************************************************************)
(* The OpenTTD adapter (adapters/openttd/adapter.py) over one Admin        *)
(* Network connection, and the commands that use it (cli.py, "openttd"):   *)
(*   doctor   connects and says what it was welcomed with                  *)
(*   watch    observes so many times; once is "observe"                    *)
(*   rename   observes, validates, renames, observes, verifies             *)
(*   task     a session of the runtime: waits and renames, so many times   *)
(* with or without the GameScript bridge, here in its steps "synchronize"  *)
(* and "command" only (GameScriptBridge has them in full).                 *)
(*                                                                         *)
(* A state is [welcome, company, date]; a health is [number, company]: the *)
(* instance of the script and the company in its snapshot; an observation  *)
(* is [state, health].  No health is seen twice: the messages it counts    *)
(* tell it from every other.                                               *)
(***************************************************************************)
EXTENDS AdminClient

CONSTANTS
    StaleDays,      \* stale_observation_threshold_days
    MaxRounds,      \* --count of watch; how often a task decides
    MaxCommands     \* bound on the commands that are started

ASSUME AdapterAssumption == StaleDays \in Nat /\ MaxRounds \in Nat \ {0} /\ MaxCommands \in Nat

VARIABLES
    adapter,    \* [pending, last, pendingHealth, lastHealth]
    run         \* the command that runs

vars == <<adminVars, adapter, run>>

Action == [subject : Subjects, name : Names]

NewAdapter == [pending |-> None, last |-> None, pendingHealth |-> None, lastHealth |-> None]

Idle ==
    [ kind |-> None, bridged |-> FALSE, left |-> 0, at |-> "idle", doing |-> None,
      action |-> None, part |-> None, before |-> None, result |-> None,
      expired |-> FALSE, report |-> None, commands |-> 0 ]

Init == InitAdmin /\ adapter = NewAdapter /\ run = Idle

At(point) == run.at = point
To(point) == run' = [run EXCEPT !.at = point]

(* The command is over, whatever it says, once it has closed. *)
Ends(report) == run' = [run EXCEPT !.at = "shutdown", !.report = report]

--------------------------------------------------------------------------------
Commands ==
    { c \in [ kind : {"doctor", "watch", "rename", "task"}, bridged : BOOLEAN,
              action : {None} \cup Action, left : 0..MaxRounds ] :
        /\ c.kind = "doctor" => ~c.bridged /\ c.left = 0
        /\ c.kind \in {"watch", "task"} => c.left = MaxRounds
        /\ c.kind = "rename" <=> c.action # None
        /\ c.kind = "rename" => c.left = 1
        /\ c.action # None /\ c.action.subject = "company" => c.bridged }

Start ==
    /\ At("idle") /\ run.commands < MaxCommands
    /\ \E c \in Commands :
          run' = [ Idle EXCEPT !.kind = c.kind, !.bridged = c.bridged, !.left = c.left,
                               !.action = c.action, !.at = "connect",
                               !.doing = IF c.kind = "doctor" THEN "doctor" ELSE "initialize",
                               !.commands = run.commands + 1 ]
    /\ UNCHANGED <<adminVars, adapter>>

--------------------------------------------------------------------------------
(* connect *)

Connect ==
    /\ At("connect")
    /\ Connects
    /\ To("protocol")
    /\ UNCHANGED adapter

ReceiveProtocol ==
    /\ At("protocol") /\ Reads("protocol")
    /\ To("welcome")
    /\ UNCHANGED <<game, carried, late, client, adapter>>

(* The deadline of a rename starts when the client has reconnected. *)
ReceiveWelcome ==
    /\ At("welcome") /\ Reads("welcome")
    /\ client' = Head(wire.sent).value
    /\ IF run.doing = "doctor" THEN Ends("connected")
                               ELSE run' = [run EXCEPT !.at = "collect", !.expired = FALSE]
    /\ UNCHANGED <<game, carried, late, adapter>>

(* collect_state: one poll after the other, each sent when the one before   *)
(* was answered.                                                             *)
Following(type) ==
    LET i == CHOOSE i \in DOMAIN Polls : Polls[i] = type
    IN IF i = Len(Polls) THEN "collected" ELSE Polls[i + 1]

State(company, date) == [welcome |-> client, company |-> company, date |-> date]

Collect ==
    /\ At("collect")
    /\ Asks(Request(Polls[1], None))
    /\ run' = [run EXCEPT !.at = Polls[1], !.part = State(None, None)]
    /\ UNCHANGED <<game, carried, adapter>>

ReceiveAnswer ==
    \E i \in DOMAIN Polls :
        LET type == Polls[i]
            next == Following(type)
        IN  /\ At(type)
            /\ Arrived /\ Head(wire.sent).type = type
            /\ wire' = [wire EXCEPT !.sent = Tail(@),
                                    !.asked = IF next = "collected" THEN None
                                              ELSE Request(next, None)]
            /\ run' = [run EXCEPT !.at = next,
                          !.part.company = IF type = "info" THEN Head(wire.sent).value ELSE @,
                          !.part.date = IF type = "date" THEN Head(wire.sent).value ELSE @]
            /\ UNCHANGED <<game, carried, late, client, adapter>>

Awaited == {"protocol", "welcome", "rcon_end"} \cup {Polls[i] : i \in DOMAIN Polls}

Drop ==
    /\ run.at \in Awaited /\ Drops(run.at)
    /\ UNCHANGED <<adapter, run>>

--------------------------------------------------------------------------------
(* initialize, observe *)

Collected(doing) == At("collected") /\ run.doing = doing

Initialized ==
    /\ Collected("initialize")
    /\ adapter' = [adapter EXCEPT !.pending = run.part]
    /\ To(IF run.bridged THEN "synchronize" ELSE "observe")
    /\ UNCHANGED adminVars

(* What initialize, validate or execute collected last is shown instead of  *)
(* a fresh state, once.                                                      *)
Observe ==
    /\ At("observe")
    /\ run' = [run EXCEPT !.doing = "observe",
                          !.at = IF adapter.pending = None THEN "collect" ELSE "collected",
                          !.part = adapter.pending]
    /\ UNCHANGED <<adminVars, adapter>>

Observed ==
    /\ Collected("observe")
    /\ adapter' = [adapter EXCEPT !.pending = None, !.last = run.part,
                                  !.pendingHealth = None, !.lastHealth = adapter.pendingHealth]
    /\ To(IF run.bridged /\ adapter.pendingHealth = None THEN "synchronize" ELSE "seen")
    /\ UNCHANGED adminVars

Observation == [state |-> adapter.last, health |-> adapter.lastHealth]

--------------------------------------------------------------------------------
(* synchronize and refresh_snapshot of the bridge: they subscribe each time *)
(* and read on until the answer is there.                                   *)

Health == [number |-> game.number, company |-> game.names["company"]]

Synchronizes ==
    /\ At("synchronize") /\ game.up /\ wire # None /\ wire.alive
    /\ wire' = [wire EXCEPT !.heard = TRUE, !.sent = <<>>]
    /\ game' = [game EXCEPT !.newest = TRUE]
    /\ UNCHANGED <<carried, late, client>>

Synchronize ==
    /\ Synchronizes
    /\ \/ /\ run.doing = "initialize"
          /\ adapter' = [adapter EXCEPT !.pendingHealth = Health]
          /\ To("observe")
       \/ /\ run.doing = "observe"
          /\ adapter' = [adapter EXCEPT !.lastHealth = Health]
          /\ To("seen")

--------------------------------------------------------------------------------
(* What the command does with an observation.  The provider of a task may   *)
(* wait or ask for any rename the adapter offers.                            *)

Deciding == /\ At("seen") \/ At("decide")
            /\ run.result = None

Before == IF At("seen") THEN Observation ELSE run.before

(* With writes enabled; the company's name needs the GameScript. *)
Capable(subject) == subject = "company" => run.bridged

Offered == {a \in Action : Capable(a.subject)}

Stop ==
    /\ Deciding
    /\ run.kind = "task" \/ run.left = 0
    /\ Ends(IF run.report = None THEN "observed" ELSE run.report)
    /\ UNCHANGED <<adminVars, adapter>>

Wait ==
    /\ Deciding /\ run.left > 0 /\ run.kind \in {"watch", "task"}
    /\ run' = [run EXCEPT !.at = "observe", !.left = @ - 1, !.before = None]
    /\ UNCHANGED <<adminVars, adapter>>

Decide ==
    /\ Deciding /\ run.left > 0 /\ run.kind \in {"rename", "task"}
    /\ \E a \in Offered \cap (IF run.kind = "task" THEN Action ELSE {run.action}) :
             run' = [run EXCEPT !.at = IF a.subject = "server" THEN "collect" ELSE "synchronize",
                                !.doing = "validate", !.left = @ - 1, !.action = a,
                                !.before = Before, !.report = None]
    /\ UNCHANGED <<adminVars, adapter>>

--------------------------------------------------------------------------------
(* validate *)

Refused(stale) ==
    IF run.kind = "rename" THEN Ends("refused") ELSE To(IF stale THEN "observe" ELSE "decide")

Allowed == To("execute")

(* _drift_reason *)
Drifted(before, fresh) ==
    \/ before.welcome # fresh.welcome
    \/ fresh.date \notin before.date..(before.date + StaleDays)

ValidateServerName ==
    /\ Collected("validate")
    /\ adapter' = [adapter EXCEPT !.pending = run.part]
    /\ CASE Drifted(adapter.last, run.part) -> Refused(TRUE)
         [] ~Drifted(adapter.last, run.part)
              /\ run.part.welcome.server = run.action.name -> Refused(FALSE)
         [] OTHER -> Allowed
    /\ UNCHANGED adminVars

Judged(fresh) ==
    CASE adapter.lastHealth # fresh -> Refused(TRUE)
      [] adapter.lastHealth = fresh /\ fresh.company = run.action.name -> Refused(FALSE)
      [] OTHER -> Allowed

ValidateCompanyName ==
    /\ run.doing = "validate"
    /\ Synchronizes
    /\ adapter' = [adapter EXCEPT !.pendingHealth = Health]
    /\ Judged(Health)

--------------------------------------------------------------------------------
(* execute *)

Sends == carried' = Carry(game)

Results(success, changed) == [success |-> success, changed |-> changed]

SetServerName ==
    /\ At("execute") /\ run.action.subject = "server"
    /\ Asks(Request("rcon", run.action.name))
    /\ To("rcon_end")
    /\ Sends
    /\ UNCHANGED <<game, adapter>>

Reconnect_InPlace ==
    /\ At("rcon_end") /\ Reads("rcon_end")
    /\ client' = [client EXCEPT !.server = run.action.name]
    /\ run' = [run EXCEPT !.at = "collect", !.doing = "confirm"]
    /\ UNCHANGED <<game, carried, late, adapter>>

Reconnect ==
    /\ At("rcon_end") /\ Arrived /\ Head(wire.sent).type = "rcon_end"
    /\ Closes
    /\ run' = [run EXCEPT !.at = "connect", !.doing = "confirm"]
    /\ UNCHANGED adapter

DeadlinePasses ==
    /\ run.doing = "confirm" /\ ~run.expired
    /\ run' = [run EXCEPT !.expired = TRUE]
    /\ UNCHANGED <<adminVars, adapter>>

ConfirmServerName_NotKept ==
    /\ Collected("confirm")
    /\ LET shown == run.part.welcome.server = run.action.name
           done  == shown \/ run.expired
       IN  /\ UNCHANGED adapter
           /\ run' = [run EXCEPT
                 !.at = IF done THEN "observe" ELSE "collect",
                 !.result = IF ~done THEN None
                            ELSE Results(shown, shown
                                      /\ adapter.last.welcome.server # run.action.name)]
    /\ UNCHANGED adminVars

(* The name is polled for until it shows or the deadline has passed. *)
ConfirmServerName ==
    /\ Collected("confirm")
    /\ LET shown == run.part.welcome.server = run.action.name
           done  == shown \/ run.expired
       IN  /\ adapter' = IF done THEN [adapter EXCEPT !.pending = run.part] ELSE adapter
           /\ run' = [run EXCEPT
                 !.at = IF done THEN "observe" ELSE "collect",
                 !.result = IF ~done THEN None
                            ELSE Results(shown, shown
                                      /\ adapter.last.welcome.server # run.action.name)]
    /\ UNCHANGED adminVars

SetCompanyName ==
    /\ At("execute") /\ run.action.subject = "company"
    /\ run' = [run EXCEPT !.at = "command", !.doing = "execute"]
    /\ Sends
    /\ UNCHANGED <<game, wire, late, client, adapter>>

(* The script carries out what was decided on its newest snapshot; without  *)
(* a subscription its answer is not heard, and the client's await raises.   *)
CommandHandled ==
    /\ At("command") /\ game.up /\ wire.alive
    /\ \/ /\ game.newest /\ adapter.pendingHealth.number = game.number
          /\ Becomes([game EXCEPT !.names["company"] = run.action.name])
          /\ run' = [run EXCEPT !.at = IF wire.heard THEN "synchronize" ELSE "unheard"]
       \/ /\ run' = IF wire.heard THEN [run EXCEPT !.at = "observe",
                                                   !.result = Results(FALSE, FALSE)]
                    ELSE [run EXCEPT !.at = "unheard"]
          /\ UNCHANGED <<game, carried>>
    /\ UNCHANGED <<wire, late, client, adapter>>

ConfirmCompanyName ==
    /\ run.doing = "execute"
    /\ Synchronizes
    /\ LET shown == game.names["company"] = run.action.name
       IN  /\ adapter' = IF shown THEN [adapter EXCEPT !.pendingHealth = Health] ELSE adapter
           /\ run' = [run EXCEPT !.at = "observe", !.result = Results(shown, shown)]

--------------------------------------------------------------------------------
(* ActionVerifier.verify *)

Shown(observation, subject) ==
    IF subject = "server" THEN observation.state.welcome.server ELSE observation.state.company

Verified(before, after) ==
    LET changed == run.bridged \/ before # after
        s == run.action.subject
        n == run.action.name
    IN  /\ run.result.changed = changed
        /\ run.result.success => Shown(before, s) # n /\ Shown(after, s) = n

Verify ==
    /\ At("seen") /\ run.result # None
    /\ LET verified == Verified(run.before, Observation)
           report   == IF ~verified THEN "unverified"
                       ELSE IF run.result.success THEN "verified" ELSE "unchanged"
       IN IF run.kind = "task" /\ verified
          THEN run' = [run EXCEPT !.at = "decide", !.result = None, !.report = report,
                                  !.before = Observation]
          ELSE Ends(report)
    /\ UNCHANGED <<adminVars, adapter>>

--------------------------------------------------------------------------------
(* Any await may raise: nothing comes in time, the connection is lost, or   *)
(* what comes cannot be read.  Until the adapter is initialized there is    *)
(* nobody but initialize, or connect, to close the connection.              *)

Waiting == Awaited \cup {"connect", "synchronize", "command", "unheard"}

Raises_Open ==
    /\ run.at \in Waiting
    /\ IF run.doing = "initialize"
       THEN run' = [run EXCEPT !.at = "idle", !.report = "failed"]
       ELSE Ends("failed")
    /\ UNCHANGED <<adminVars, adapter>>

Raises ==
    /\ run.at \in Waiting
    /\ IF run.doing = "initialize"
       THEN /\ run' = [run EXCEPT !.at = "idle", !.report = "failed"]
            /\ adapter' = NewAdapter
            /\ Closes
       ELSE Ends("failed") /\ UNCHANGED <<adminVars, adapter>>

Shutdown ==
    /\ At("shutdown")
    /\ Closes
    /\ adapter' = NewAdapter
    /\ To("idle")

--------------------------------------------------------------------------------
World == /\ Play \/ Replace \/ Down \/ Up \/ LateWrite \/ Serve
         /\ UNCHANGED <<adapter, run>>

Step ==
    \/ Connect \/ ReceiveProtocol \/ ReceiveWelcome \/ Collect \/ ReceiveAnswer \/ Drop
    \/ Initialized \/ Observe \/ Observed \/ Synchronize
    \/ Stop \/ Wait \/ Decide
    \/ ValidateServerName \/ ValidateCompanyName
    \/ SetServerName \/ Reconnect \/ ConfirmServerName
    \/ SetCompanyName \/ CommandHandled \/ ConfirmCompanyName
    \/ Verify \/ Raises \/ Shutdown

Next == World \/ Start \/ Step \/ DeadlinePasses

(* The command is one asyncio task, every await of it is bounded by a       *)
(* timeout, and clocks go on.                                               *)
FairSpec == Init /\ [][Next]_vars /\ WF_vars(Step) /\ WF_vars(DeadlinePasses)

--------------------------------------------------------------------------------
(* Properties *)

(* A rename reported as verified took place: the game carried the name      *)
(* after the write was sent, whatever the server refused, whoever else gave *)
(* names and whichever game the client found when it reconnected.           *)
VerifiedNamesAreReal ==
    run.report = "verified" => <<run.action.subject, run.action.name>> \in carried

(* What is shown and acted on belongs to the connection there is: an        *)
(* observation never shows a state from before the reconnection, and a      *)
(* GameScript command is sent only over a connection that hears its answer, *)
(* to the instance the decision was about.                                  *)
ActsOverThisConnection ==
    /\ At("seen") => adapter.last.welcome = client
    /\ At("command") => /\ wire.heard
                        /\ adapter.pendingHealth = adapter.lastHealth

(* Every command ends, with its connection closed. *)
EndsDisconnected == ~At("idle") ~> At("idle") /\ wire = None

================================================================================
