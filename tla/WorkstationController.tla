------------------------- MODULE WorkstationController -------------------------
(***************************************************************************)
(* The workstation controller (software_inc/ui/workstation*.py): it assigns *)
(* a room to a team and buys the furniture that is missing in it, all      *)
(* under one question asked before the first input that matters.           *)
(*                                                                         *)
(*   game.scene    play, window (closed by one key or click), menu (the    *)
(*                 pause menu), context, wrong_context, selector (of the   *)
(*                 room's teams), other_selector (of another room's),      *)
(*                 build, search or placing                                *)
(*   game.teams, game.parts   the teams and the furniture of the room      *)
(*   game.ticked   the teams chosen in a selector                          *)
(*   game.typed    the text of the search                                  *)
(*   game.holding  the part being placed, game.preview: where it would be  *)
(*   run.lines     the parts of the plan, run.left: those to be placed yet *)
(*   run.aimed     the pointer was moved to a place for the next of them   *)
(***************************************************************************)
EXTENDS FounderDesk

Bundle == <<"surface", "computer", "chair">>

Lines == <<"surface", "computer", "chair", "trashcan">>

PartsOf(lines) == {lines[i] : i \in DOMAIN lines}

Teams == {"ours", "another"}

StationInit ==
    /\ store = None
    /\ \E paused \in BOOLEAN, teams \in SUBSET Teams, cfg \in Configs,
          parts \in {{}, {"surface"}, PartsOf(Bundle)} :
         game = [ desk |-> "workstation", save |-> 1, paused |-> paused, scene |-> "play",
                  dialog |-> None, teams |-> teams, parts |-> parts, cfg |-> cfg,
                  ticked |-> {}, typed |-> "", focused |-> FALSE,
                  holding |-> None, preview |-> "none" ]
    /\ DeskInit

StationTerms(what, of, cfg, save) == [what |-> what, of |-> of, cfg |-> cfg, save |-> save]

AssignTerms(room, teams, save) == StationTerms("assign", room, teams, save)

OnStation(pc) == At("prepare", pc)

(* The teams of the room and of the plan may be kept, no other is added;    *)
(* and the plan's team is assigned again if the founder takes it away.     *)
AssignLicences == {AssignTerms("ours", teams \cup {"ours"}, run.save) : teams \in SUBSET run.teams}

(* _require_actionable, _continuity *)
StationUndisturbed == game.save = run.save /\ game.dialog = None

--------------------------------------------------------------------------------
(* build_workstation_plan.                                                 *)

HasWorkstation == PartsOf(Bundle) \subseteq game.parts

(* A computer needs a trashcan in its room. *)
RoomProblem == "computer" \in game.parts /\ "trashcan" \notin game.parts

(* The room of the team that has a workstation; or, without a problem, the  *)
(* room of the team or of nobody.                                          *)
RoomFound ==
    \/ "ours" \in game.teams /\ HasWorkstation
    \/ ~RoomProblem /\ ("ours" \in game.teams \/ game.teams = {})

(* _resume_bundle, _requires_trashcan_correction *)
Missing == (PartsOf(Bundle) \ game.parts) \cup (IF RoomProblem THEN {"trashcan"} ELSE {})

Prepared == "ours" \in game.teams /\ Missing = {}

StationStart ==
    /\ run = Idle /\ RoomFound
    /\ IF Prepared
       THEN told' = "prepared" /\ UNCHANGED <<run, licensed>>
       ELSE /\ run' = [ cmd |-> "prepare", pc |-> "preflight", save |-> game.save, price |-> None,
                        teams |-> {}, lines |-> {}, left |-> {}, aimed |-> FALSE,
                        marked |-> FALSE ]
            /\ told' = "nothing" /\ licensed' = Anew
    /\ UNCHANGED <<game, posted, store, wronged, spare>>

(* One gesture that the game takes back as easily. *)
StationGesture(pc, changed) ==
    /\ OnStation(pc) /\ posted = None /\ StationUndisturbed
    /\ game' = changed
    /\ UNCHANGED <<posted, store, licensed, wronged, told, spare>>

Closed == [game EXCEPT !.scene = "play"]

(* _prepare_for_workstation_plan: to the paused game, whatever is open. *)
Preflight ==
    /\ \/ game.scene # "play" /\ StationGesture("preflight", Closed)
       \/ game.scene = "play" /\ ~game.paused
            /\ StationGesture("preflight", [game EXCEPT !.paused = TRUE])
    /\ UNCHANGED run

(* The plan is made again, and the question asked. *)
StationAsk ==
    /\ OnStation("preflight") /\ StationUndisturbed /\ game.scene = "play" /\ game.paused
    /\ RoomFound
    /\ run' = [run EXCEPT !.pc = "ask", !.price = game.cfg, !.teams = game.teams,
                          !.lines = Missing, !.left = Missing]
    /\ UNCHANGED <<game, posted, store, licensed, wronged, told, spare>>

StationAnswered ==
    /\ OnStation("ask")
    /\ \/ /\ To("recheck") /\ UNCHANGED told
          /\ licensed' = licensed
               \cup {StationTerms("buy", part, run.price, run.save) : part \in run.lines}
               \cup AssignLicences
       \/ Ends("nothing") /\ UNCHANGED licensed
    /\ UNCHANGED <<game, posted, store, wronged, spare>>

(* require_valid_workstation_approval *)
StationStillApproved ==
    /\ StationUndisturbed /\ game.scene = "play" /\ game.paused
    /\ RoomFound /\ Missing = run.lines /\ game.teams = run.teams /\ game.cfg = run.price

StationRecheck ==
    /\ OnStation("recheck") /\ StationStillApproved
    /\ To("setup")
    /\ UNCHANGED <<game, posted, store, licensed, wronged, told, spare>>

--------------------------------------------------------------------------------
(* The gestures of an approved plan.                                       *)

Assigning == OnStation("setup") /\ "ours" \notin game.teams

(* The next line of the plan. *)
Line == Lines[CHOOSE i \in DOMAIN Lines :
                 Lines[i] \in run.left /\ \A j \in 1..(i - 1) : Lines[j] \notin run.left]

Placing == /\ OnStation("setup") /\ "ours" \in game.teams
           /\ game.teams \subseteq run.teams \cup {"ours"}
           /\ run.left # {} /\ Line \notin game.parts

EscapeScenes == IF Assigning THEN {"window", "wrong_context", "build", "search", "placing"}
                             ELSE {"window", "wrong_context", "context", "selector",
                                   "other_selector"}

StationCloses ==
    /\ Assigning \/ Placing
    /\ game.scene \in EscapeScenes
    /\ StationGesture("setup", Closed) /\ UNCHANGED run

StationPauses ==
    /\ Assigning \/ Placing
    /\ game.scene = "play" /\ ~game.paused
    /\ StationGesture("setup", [game EXCEPT !.paused = TRUE]) /\ UNCHANGED run

(* A right click on the room; what opens may be the menu of something else. *)
OpenRoomContext ==
    /\ Assigning /\ game.scene = "play" /\ game.paused
    /\ \E scene \in {"context", "wrong_context"} :
         StationGesture("setup", [game EXCEPT !.scene = scene])
    /\ UNCHANGED run

OpenSelector ==
    /\ Assigning /\ game.scene = "context"
    /\ StationGesture("setup", [game EXCEPT !.scene = "selector", !.ticked = game.teams])
    /\ UNCHANGED run

(* A selector of teams is not asked whose it is. *)
Selectors == {"selector", "other_selector"}

(* The teams that may be in the selector. *)
Unrelated_None == FALSE

Unrelated == ~(game.ticked \subseteq run.teams \cup {"ours"})

TickTeam ==
    /\ Assigning /\ game.scene \in Selectors /\ ~Unrelated /\ "ours" \notin game.ticked
    /\ StationGesture("setup", [game EXCEPT !.ticked = @ \cup {"ours"}])
    /\ UNCHANGED run

ApplyTeams ==
    /\ Assigning /\ StationUndisturbed
    /\ game.scene \in Selectors /\ ~Unrelated /\ "ours" \in game.ticked
    /\ Clicks([do |-> "assign"])
    /\ UNCHANGED <<game, store, run, licensed, wronged, told, spare>>

OpenBuild ==
    /\ Placing /\ game.scene = "play" /\ game.paused
    /\ StationGesture("setup", [game EXCEPT !.scene = "build"])
    /\ UNCHANGED run

Holds(part) == [game EXCEPT !.scene = "placing", !.holding = part, !.preview = "none"]

(* The palette, or the first result of the search. *)
SelectItem ==
    /\ Placing
    /\ game.scene = "build" \/ (game.scene = "search" /\ game.typed = Line)
    /\ StationGesture("setup", Holds(Line))
    /\ UNCHANGED run

(* The search is focused, its text selected, and the title typed over it. *)
SearchItem ==
    /\ Placing /\ game.scene = "search" /\ game.typed # Line
    /\ IF ~game.focused
       THEN StationGesture("setup", [game EXCEPT !.focused = TRUE]) /\ UNCHANGED run
       ELSE IF ~run.marked
            THEN StationGesture("setup", game) /\ run' = [run EXCEPT !.marked = TRUE]
            ELSE /\ StationGesture("setup", [game EXCEPT !.typed = Line])
                 /\ run' = [run EXCEPT !.marked = FALSE]

(* What is being placed is the item of the line, at its price. *)
Matches_Any == TRUE

Matches == game.holding = Line /\ game.cfg = run.price

(* The pointer is moved to a place in the room, until the preview is valid. *)
MovePreview ==
    /\ Placing /\ game.scene = "placing" /\ Matches
    /\ ~run.aimed \/ game.preview = "none"
    /\ \E preview \in {"none", "ours", "elsewhere"} :
         StationGesture("setup", [game EXCEPT !.preview = preview])
    /\ run' = [run EXCEPT !.aimed = TRUE]

PlaceItem ==
    /\ Placing /\ StationUndisturbed /\ game.scene = "placing" /\ Matches
    /\ run.aimed /\ game.preview = "ours"
    /\ Clicks([do |-> "place"]) /\ To("check")
    /\ UNCHANGED <<game, store, licensed, wronged, told, spare>>

(* The line is done when its item is there, bought by the click or not; and *)
(* no more of them are placed.                                             *)
LineIsDone ==
    /\ game' = IF game.scene = "placing" THEN Closed ELSE game
    /\ run' = [run EXCEPT !.pc = "setup", !.left = @ \ {Line}, !.aimed = FALSE, !.marked = FALSE]

(* A placement that is not seen is not retried. *)
PlaceCheck ==
    /\ OnStation("check") /\ Settles
    /\ IF StationUndisturbed /\ Line \in game.parts /\ posted = None
       THEN LineIsDone /\ UNCHANGED told
       ELSE Ends("nothing") /\ UNCHANGED game
    /\ UNCHANGED <<posted, store, licensed, wronged>>

LineFound ==
    /\ OnStation("setup") /\ posted = None /\ StationUndisturbed
    /\ "ours" \in game.teams /\ run.left # {} /\ Line \in game.parts
    /\ LineIsDone
    /\ UNCHANGED <<posted, store, licensed, wronged, told, spare>>

StationVerified_Placed == TRUE

(* verify_workstation_result *)
StationVerified == HasWorkstation /\ ("trashcan" \in run.lines => ~RoomProblem)

StationDone ==
    /\ OnStation("setup") /\ posted = None /\ StationUndisturbed
    /\ "ours" \in game.teams /\ game.teams \subseteq run.teams \cup {"ours"} /\ run.left = {}
    /\ Ends(IF StationVerified THEN "prepared" ELSE "nothing")
    /\ UNCHANGED <<game, posted, store, licensed, wronged, spare>>

StationRefused ==
    /\ \/ run # Idle /\ run.cmd = "prepare" /\ run.pc # "check" /\ run.pc # "ask"
            /\ ~StationUndisturbed
       \/ OnStation("preflight") /\ ~RoomFound
       \/ OnStation("recheck") /\ ~StationStillApproved
       \/ OnStation("setup") /\ "ours" \in game.teams
            /\ ~(game.teams \subseteq run.teams \cup {"ours"})
       \/ Assigning /\ game.scene \in Selectors /\ Unrelated
       \/ OnStation("setup") /\ game.scene = "menu"
       \/ Placing /\ game.scene = "placing" /\ (~Matches \/ game.preview = "elsewhere")
    /\ Ends("nothing")
    /\ UNCHANGED <<game, posted, store, licensed, wronged, spare>>

--------------------------------------------------------------------------------
(* The game. *)

LandAssign ==
    /\ Landed /\ posted.do = "assign"
    /\ game' = [game EXCEPT !.teams = IF game.scene = "selector" THEN game.ticked ELSE @,
                            !.scene = "play"]
    /\ Sets(AssignTerms(IF game.scene = "selector" THEN "ours" ELSE "another",
                        game.ticked, game.save))
    /\ UNCHANGED told

LandPlace ==
    /\ Landed /\ posted.do = "place"
    /\ game' = [game EXCEPT !.parts = @ \cup {game.holding}, !.preview = "none"]
    /\ Commits(StationTerms("buy", game.holding, game.cfg, game.save))
    /\ UNCHANGED told

(* The founder opens windows and menus, selects teams, and buys and sells   *)
(* furniture.                                                              *)
StationMeddling ==
    \/ Meddles([game EXCEPT !.paused = ~@])
    \/ \E scene \in {"play", "window", "menu", "context", "build"} \ {game.scene} :
         Meddles([game EXCEPT !.scene = scene])
    \/ Meddles([game EXCEPT !.scene = "search", !.typed = "another", !.focused = FALSE])
    \/ \E teams \in {game.teams, {"another"}} :
         Meddles([game EXCEPT !.scene = "other_selector", !.ticked = teams])
    \/ game.scene \in Selectors /\ \E ticked \in SUBSET Teams \ {game.ticked} :
                                     Meddles([game EXCEPT !.ticked = ticked])
    \/ \E teams \in SUBSET Teams \ {game.teams} : Meddles([game EXCEPT !.teams = teams])
    \/ \E part \in PartsOf(Lines) : Meddles(Holds(part))
    \/ game.scene = "placing" /\ Meddles([game EXCEPT !.preview = "elsewhere"])
    \/ \E part \in PartsOf(Lines) \ game.parts : Meddles([game EXCEPT !.parts = @ \cup {part}])
    \/ \E part \in game.parts : Meddles([game EXCEPT !.parts = @ \ {part}])
    \/ \E cfg \in Configs \ {game.cfg} : Meddles([game EXCEPT !.cfg = cfg])
    \/ Meddles([game EXCEPT !.dialog = IF @ = None THEN "notice" ELSE None])
    \/ game.save = 1 /\ Meddles([game EXCEPT !.save = 2])

StationNext ==
    \/ Stopped \/ Lost
    \/ StationStart \/ Preflight \/ StationAsk \/ StationAnswered \/ StationRecheck
    \/ StationCloses \/ StationPauses \/ OpenRoomContext \/ OpenSelector \/ TickTeam
    \/ ApplyTeams \/ OpenBuild \/ SelectItem \/ SearchItem \/ MovePreview \/ PlaceItem
    \/ PlaceCheck \/ LineFound \/ StationDone \/ StationRefused
    \/ LandAssign \/ LandPlace \/ StationMeddling

StationSpec == StationInit /\ [][StationNext]_vars

================================================================================
