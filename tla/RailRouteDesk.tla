------------------------------ MODULE RailRouteDesk -----------------------------
(***************************************************************************)
(* `set a route' in Rail Route's Test Yard (rail_route/ui/controller.py):  *)
(* observe, click the origin signal, observe, click the destination,       *)
(* observe.  Every observation is one of GameBridge; the clicks go through *)
(* the screen.  The founder plays the same game all the while.             *)
(*                                                                         *)
(* The yard has the route asked for ("ours"), a route of the same origin   *)
(* to another signal ("elsewhere") and one of another origin ("other").    *)
(* Between an observation and the click aimed with it the game goes on:    *)
(* the backend looks again only when its frame is two seconds old.         *)
(***************************************************************************)
EXTENDS GameBridge, FiniteSets

CONSTANT MaxTime        \* bound: the founder's changes to the game

ASSUME DeskAssumption == MaxTime \in Nat

VARIABLE desk   \* the command under way: its stage, what it observed first, what
                \* it told the founder at the end; and, histories, its clicks (the
                \* session of the game each was sent into, and whether it made a
                \* route) and whether somebody else changed the origin's routes

vars == <<bridgeVars, game, desk>>

NewGame(session, time) ==
    [session |-> session, time |-> time, ready |-> TRUE, routes |-> {},
     selected |-> "none", scene |-> "gameplay", view |-> 0]

NewDesk == [at |-> "idle", before |-> None, clicked |-> <<>>, others |-> FALSE,
            told |-> "nothing"]

Init ==
    /\ BridgeInit
    /\ game \in {[NewGame(1, 0) EXCEPT !.selected = s, !.routes = r] :
                    s \in {"none", "destination"}, r \in {{}, {"other"}}}
    /\ desk = NewDesk

-----------------------------------------------------------------------------
(* The game. *)

OfOrigin == {"ours", "elsewhere"}

Later(g) == [g EXCEPT !.time = @ + 1]

(* What a click on a signal does; over the construction panel, nothing. *)
Clicked(target) ==
    IF game.scene # "gameplay" THEN game
    ELSE IF target = "destination" /\ game.selected = "origin"
            /\ game.routes \cap OfOrigin = {}
    THEN [game EXCEPT !.routes = @ \cup {"ours"}, !.selected = "none"]
    ELSE [game EXCEPT !.selected = target]

(* The click lands where the frame showed the target, or is lost. *)
Click(target, frame) ==
    /\ front' = TRUE
    /\ game' \in {game} \cup IF game.view = frame.view THEN {Clicked(target)} ELSE {}

(* The founder, at the same game. *)
FounderPlays ==
    /\ game.time < MaxTime
    /\ \E g \in {[game EXCEPT !.ready = ~@],
                 [game EXCEPT !.view = 1 - @],
                 [game EXCEPT !.scene = IF @ = "gameplay" THEN "construction" ELSE "gameplay"]}
                \cup {[game EXCEPT !.selected = s] :
                          s \in {"none", "origin", "destination"} \ {game.selected}}
                \cup {[game EXCEPT !.routes = @ \cup {r}] :
                          r \in IF game.routes \cap OfOrigin = {}
                                THEN OfOrigin \cup {"other"} ELSE {"other"}}
                \cup {[game EXCEPT !.routes = @ \ {r}] : r \in game.routes} :
            /\ game' = Later(g)
            /\ desk' = [desk EXCEPT !.others = @ \/ (desk.at # "idle" /\
                                      g.routes \cap OfOrigin # game.routes \cap OfOrigin)]
    /\ UNCHANGED bridgeVars

(* A save is loaded: a session of its own. *)
Load ==
    /\ game.time < MaxTime
    /\ game' = NewGame(game.session + 1, game.time + 1)
    /\ UNCHANGED <<bridgeVars, desk>>

Quit ==
    /\ game.time < MaxTime
    /\ Restarts
    /\ game' = NewGame(game.session + 1, game.time + 1)
    /\ UNCHANGED desk

-----------------------------------------------------------------------------
(* The controller. *)

Shown(frame) == <<frame.routes, frame.selected, frame.scene, frame.view>>

(* The founder asks for an observation of Software Inc., or for the route. *)
Observe ==
    /\ provider = "pumped"
    /\ Open
    /\ UNCHANGED <<provider, front, bridge, game, desk>>

SetRoute ==
    /\ desk.at = "idle" /\ provider = "sampled"
    /\ look.at = "idle"
    /\ Open
    /\ desk' = [NewDesk EXCEPT !.at = "preflight"]
    /\ UNCHANGED <<provider, front, bridge, game>>

(* An observation serves the controller only in the paused Test Yard. *)
Usable == seen # Failed /\ seen.after.ready

Observed(stage) == desk.at = stage /\ look.at = "idle"

(* The command ends; what it observed is kept with a result alone. *)
Tell(what) ==
    /\ desk' = [IF what = "verified" THEN desk ELSE NewDesk EXCEPT !.at = "idle", !.told = what]
    /\ seen' = IF what = "verified" THEN seen ELSE None
    /\ UNCHANGED <<provider, front, bridge, wires, look, game>>

CanSetRoute == seen.frame.scene = "gameplay" /\ seen.after.routes = {}

(* Mutant: the game of the preview is not compared with that of the start. *)
SameGameAny(before, after) == TRUE

SameGame(before, after) ==
    /\ after.instance = before.instance
    /\ after.after.session = before.after.session

(* Something has changed on the screen, and the projection has not. *)
PreviewShows ==
    /\ seen.frame.scene = "gameplay"
    /\ seen.frame.view = desk.before.frame.view
    /\ Shown(seen.frame) # Shown(desk.before.frame)
    /\ SameGame(desk.before, seen)

(* Mutant: an origin without a route will do. *)
RouteShowsNothing ==
    /\ SameGame(desk.before, seen)
    /\ seen.after.routes \ OfOrigin = desk.before.after.routes

(* The origin has a route, and no other route has changed. *)
RouteShows ==
    /\ SameGame(desk.before, seen)
    /\ seen.after.routes \ OfOrigin = desk.before.after.routes
    /\ seen.after.routes \cap OfOrigin # {}

(* A click, and the observation after it. *)
ClickAndLook(target, next) ==
    /\ Click(target, seen.frame)
    /\ Open
    /\ desk' = [next EXCEPT !.clicked = Append(@, [ session |-> game.session,
                                                    made |-> game'.routes # game.routes ])]
    /\ UNCHANGED <<provider, bridge>>

Preflight ==
    /\ Observed("preflight")
    /\ IF Usable /\ CanSetRoute
       THEN \/ Tell("planned")        \* a dry run
            \/ ClickAndLook("origin", [desk EXCEPT !.at = "preview", !.before = seen])
       ELSE Tell("refused")

Preview ==
    /\ Observed("preview")
    /\ IF Usable /\ PreviewShows
       THEN ClickAndLook("destination", [desk EXCEPT !.at = "final"])
       ELSE Tell("unverified")

Final ==
    /\ Observed("final")
    /\ Tell(IF Usable /\ RouteShows THEN "verified" ELSE "unverified")

Next ==
    \/ Server /\ UNCHANGED desk
    \/ Client /\ UNCHANGED desk
    \/ BringForward /\ UNCHANGED desk
    \/ GoBehind /\ UNCHANGED desk
    \/ FounderPlays \/ Load \/ Quit
    \/ Observe \/ SetRoute \/ Preflight \/ Preview \/ Final

Spec == Init /\ [][Next]_vars

(* The bridge's threads run, reads and captures time out, and the event loop *)
(* of the client runs.                                                       *)
FairSpec == Spec /\ WF_vars(Server /\ UNCHANGED desk) /\ WF_vars(Client /\ UNCHANGED desk)

-----------------------------------------------------------------------------
(* The frame of an observation was taken between its two snapshots, in the  *)
(* game session that both show: what is on the screen and what the bridge   *)
(* says are of one game.                                                    *)
FrameIsBracketed ==
    seen \notin {None, Failed} =>
        /\ seen.before.session = seen.frame.session /\ seen.frame.session = seen.after.session
        /\ seen.before.time <= seen.frame.time /\ seen.frame.time <= seen.after.time

(* A click can go astray: into a game that was loaded or started after the  *)
(* observation it was aimed with.  Then it is the command's last, and the   *)
(* command does not report success: no second click goes into a game that   *)
(* is not the first one's (controller.py:82-119, 198).                      *)
AstrayClickIsTheLast ==
    \A i \in DOMAIN desk.clicked :
        i < Len(desk.clicked) \/ desk.told = "verified"
            => desk.clicked[i].session = desk.before.after.session

(* When the founder is told that the route is set, the command's own click  *)
(* on the destination set it, in the game the command began in; unless      *)
(* somebody else was at the routes of that origin in the meantime, for the  *)
(* code asks whether the origin has a route, and not which (:179-195).      *)
ReportedRouteWasMade ==
    desk.told = "verified" /\ ~desk.others =>
        /\ Len(desk.clicked) = 2 /\ desk.clicked[2].made
        /\ desk.clicked[2].session = desk.before.after.session

(* An observation comes to its end, whatever becomes of the bridge and the  *)
(* game meanwhile.                                                          *)
ObservationEnds == look.at # "idle" ~> look.at = "idle"

(* No connection keeps the bridge for ever: its owner leaves.               *)
OwnerLeaves == bridge.owner # 0 ~> bridge.owner = 0
================================================================================
