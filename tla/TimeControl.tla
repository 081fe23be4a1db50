------------------------------ MODULE TimeControl ------------------------------
(***************************************************************************)
(* The UI commands of software_inc/ui/controller.py: pause, resume, and    *)
(* open Manage Teams.  Each click is sent once and never repeated; a state *)
(* that is there already needs none.                                       *)
(*                                                                         *)
(*   game.scene     play, teams (Manage Teams and what opens from it) or   *)
(*                  window                                                 *)
(*   run.wants      the state of the clock that was clicked for            *)
(***************************************************************************)
EXTENDS FounderDesk

ClockInit ==
    /\ store = None
    /\ \E paused \in BOOLEAN, scene \in {"play", "window"} :
         game = [desk |-> "clock", save |-> 1, paused |-> paused, scene |-> scene, dialog |-> None]
    /\ DeskInit

ClockCommands == {"pause", "resume", "teams"}

OnClock(pc) == run # Idle /\ run.cmd \in ClockCommands /\ run.pc = pc

(* What is told of a clock that was clicked; of one that was seen to be so  *)
(* without a click it is only told that it was.                            *)
Says(wants) == IF wants THEN "paused" ELSE "running"

ClockRun(cmd, pc, wants) == [cmd |-> cmd, pc |-> pc, save |-> game.save, wants |-> wants]

(* _execute_time_control, up to its click.                                 *)
ClickClock(cmd, wants) ==
    Clicks([do |-> Says(wants)]) /\ run' = ClockRun(cmd, "check", wants) /\ told' = "nothing"

(* execute_ui_action.                                                      *)
ClockStart(cmd) ==
    /\ run = Idle /\ game.dialog = None
    /\ CASE cmd \in {"pause", "resume"} /\ game.paused # (cmd = "pause") ->
              ClickClock(cmd, cmd = "pause")
         [] cmd = "teams" /\ game.scene # "teams" /\ ~game.paused -> ClickClock(cmd, TRUE)
         [] cmd = "teams" /\ game.scene # "teams" /\ game.paused ->
              /\ run' = ClockRun(cmd, "open", TRUE) /\ told' = "nothing" /\ UNCHANGED posted
         [] OTHER -> told' = "seen" /\ UNCHANGED <<run, posted>>
    /\ licensed' = Anew
    /\ UNCHANGED <<game, store, wronged, spare>>

(* The clock and what is on the screen, in the same game. *)
ClockVerified == game.paused = run.wants /\ game.scene = "play" /\ game.save = run.save

ClockCheck ==
    /\ OnClock("check") /\ Settles
    /\ IF ClockVerified
       THEN IF run.cmd = "teams" THEN To("open") /\ UNCHANGED told ELSE Ends(Says(run.wants))
       ELSE Ends("nothing")
    /\ UNCHANGED <<game, posted, store, licensed, wronged>>

(* The button of Manage Teams is on the screen of the game alone.          *)
OpenManageTeams ==
    /\ OnClock("open") /\ game.dialog = None /\ game.scene = "play"
    /\ Clicks([do |-> "teams"]) /\ run' = ClockRun("teams", "opened", game.paused)
    /\ UNCHANGED <<game, store, licensed, wronged, told, spare>>

OpenRefused ==
    /\ OnClock("open") /\ (game.dialog # None \/ game.scene # "play")
    /\ Ends("nothing")
    /\ UNCHANGED <<game, posted, store, licensed, wronged, spare>>

Opened_Clicked == game.paused = run.wants /\ game.save = run.save

(* The window is there and nothing else has changed.                       *)
Opened == game.scene = "teams" /\ game.paused = run.wants /\ game.save = run.save

OpenedCheck ==
    /\ OnClock("opened") /\ Settles
    /\ Ends(IF Opened THEN "opened" ELSE "nothing")
    /\ UNCHANGED <<game, posted, store, licensed, wronged>>

(* The buttons are not toggles; those of the clock are always there.       *)
LandTimeButton ==
    /\ Landed /\ posted.do \in {"paused", "running", "teams"}
    /\ game' = CASE posted.do = "paused"  -> [game EXCEPT !.paused = TRUE]
                 [] posted.do = "running" -> [game EXCEPT !.paused = FALSE]
                 [] posted.do = "teams"   ->
                      [game EXCEPT !.scene = IF @ = "play" THEN "teams" ELSE @]
    /\ UNCHANGED <<licensed, wronged, told>>

ClockMeddling ==
    \/ Meddles([game EXCEPT !.paused = ~@])
    \/ \E scene \in {"play", "teams", "window"} \ {game.scene} :
         Meddles([game EXCEPT !.scene = scene])
    \/ Meddles([game EXCEPT !.dialog = IF @ = None THEN "notice" ELSE None])
    \/ game.save = 1 /\ Meddles([game EXCEPT !.save = 2])

ClockNext ==
    \/ Stopped \/ Lost
    \/ \E cmd \in ClockCommands : ClockStart(cmd)
    \/ ClockCheck \/ OpenManageTeams \/ OpenRefused \/ OpenedCheck
    \/ LandTimeButton \/ ClockMeddling

ClockSpec == ClockInit /\ [][ClockNext]_vars

================================================================================
