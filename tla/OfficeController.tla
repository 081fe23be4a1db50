--------------------------- MODULE OfficeController ---------------------------
(***************************************************************************)
(* The office controller (software_inc/ui/office_controller.py, office.py): *)
(* it sets the working hours of one team, or gives one employee a role,    *)
(* as the founder's command names them; no further question is asked.      *)
(*                                                                         *)
(*   game.scene     play, teams (with the team that is selected), staff    *)
(*                  (with the employee that is) or roles (of that employee) *)
(*   game.fields    the two hours that stand as they were asked for, in    *)
(*                  the inputs of the selected team; focused: one of them  *)
(*   game.on        the toggle of the role                                 *)
(*   game.hours, game.role  the named team, the named employee has them    *)
(*   run.marked     the field whose text the command has selected          *)
(***************************************************************************)
EXTENDS FounderDesk

Named == {"named", "another"}

OfficeInit ==
    /\ store = None
    /\ \E paused, hours, role \in BOOLEAN :
         game = [ desk |-> "office", save |-> 1, paused |-> paused, scene |-> "play",
                  dialog |-> None, selected |-> None, fields |-> {}, focused |-> None,
                  on |-> FALSE, hours |-> hours, role |-> role ]
    /\ DeskInit

(* What the command asks for is its approval: for one team or one employee, *)
(* by name.                                                                *)
OfficeTerms(cmd, who, exact, save) == [what |-> cmd, of |-> who, exact |-> exact, save |-> save]

OnOffice(pc) == run # Idle /\ run.cmd \in {"hours", "role"} /\ run.pc = pc

(* _require_actionable, _continuity *)
Configurable == /\ game.save = run.save /\ game.dialog = None
                /\ game.paused \/ game.scene = "play"

HasIt(cmd) == IF cmd = "hours" THEN game.hours ELSE game.role

--------------------------------------------------------------------------------
(* execute_office_intent: nothing is sent for what is there already.        *)
OfficeStart(cmd) ==
    /\ run = Idle
    /\ IF HasIt(cmd)
       THEN told' = cmd /\ UNCHANGED <<run, licensed>>
       ELSE /\ run' = [cmd |-> cmd, pc |-> "setup", save |-> game.save, marked |-> None]
            /\ licensed' = Anew \cup {OfficeTerms(cmd, "named", TRUE, game.save)}
            /\ told' = "nothing"
    /\ UNCHANGED <<game, posted, store, wronged, spare>>

OfficeGesture(changed, marked) ==
    /\ OnOffice("setup") /\ posted = None /\ Configurable
    /\ game' = changed /\ run' = [run EXCEPT !.marked = marked]
    /\ UNCHANGED <<posted, store, licensed, wronged, told, spare>>

(* A team that is selected shows its own hours. *)
TeamShown(who, fields) == [game EXCEPT !.scene = "teams", !.selected = who, !.fields = fields,
                                       !.focused = None]

Hours == {"arrival", "departure"}

ShownFor(who) ==
    CASE who = "named" /\ game.hours  -> {Hours}
      [] who = "named" /\ ~game.hours -> {{}, {"arrival"}}
      [] who = "another"              -> {{}, {"arrival"}, Hours}

OfficeOpens ==
    /\ game.scene = "play"
    /\ \/ ~game.paused /\ OfficeGesture([game EXCEPT !.paused = TRUE], None)
       \/ game.paused /\ OfficeGesture(TeamShown(None, {}), None)

SelectTeam ==
    /\ game.scene = "teams" /\ game.selected # "named"
    /\ \E fields \in ShownFor("named") : OfficeGesture(TeamShown("named", fields), None)

NextField == IF "arrival" \in game.fields THEN "departure" ELSE "arrival"

(* A field is focused, its text selected, and the hour typed over it. *)
SetHour ==
    /\ game.scene = "teams" /\ game.selected = "named" /\ game.fields # Hours
    /\ OnOffice("setup") /\ run.cmd = "hours" /\ ~game.hours
    /\ IF game.focused # NextField
       THEN OfficeGesture([game EXCEPT !.focused = NextField], None)
       ELSE IF run.marked # NextField
            THEN OfficeGesture(game, NextField)
            ELSE OfficeGesture([game EXCEPT !.fields = @ \cup {NextField}], None)

OpenStaff ==
    /\ game.scene = "teams" /\ game.selected = "named" /\ OnOffice("setup") /\ run.cmd = "role"
    /\ OfficeGesture([game EXCEPT !.scene = "staff", !.selected = None], None)

SelectEmployee ==
    /\ game.scene = "staff" /\ game.selected # "named" /\ OnOffice("setup") /\ run.cmd = "role"
    /\ OfficeGesture([game EXCEPT !.selected = "named"], None)

OpenRoles ==
    /\ game.scene = "staff" /\ game.selected = "named" /\ OnOffice("setup") /\ run.cmd = "role"
    /\ OfficeGesture([game EXCEPT !.scene = "roles", !.on = game.role], None)

ToggleRole ==
    /\ game.scene = "roles" /\ ~game.on /\ OnOffice("setup") /\ run.cmd = "role"
    /\ OfficeGesture([game EXCEPT !.on = TRUE], None)

(* The hours are there before they are applied. *)
HoursSeen ==
    /\ OnOffice("setup") /\ Configurable /\ run.cmd = "hours"
    /\ game.scene = "teams" /\ game.selected = "named" /\ game.hours
    /\ Ends("hours")
    /\ UNCHANGED <<game, posted, store, licensed, wronged, spare>>

ReadyToApply_AnyTeam ==
    IF run.cmd = "hours" THEN game.scene = "teams" /\ game.fields = Hours
                         ELSE game.scene = "roles" /\ game.on

(* The team is looked at again.  A role window does not say whose it is.   *)
ReadyToApply ==
    IF run.cmd = "hours"
    THEN game.scene = "teams" /\ game.selected = "named" /\ ~game.hours /\ game.fields = Hours
    ELSE game.scene = "roles" /\ game.on

OfficeApply ==
    /\ OnOffice("setup") /\ Configurable /\ ReadyToApply
    /\ Clicks([do |-> run.cmd]) /\ To("check")
    /\ UNCHANGED <<game, store, licensed, wronged, told, spare>>

OfficeRefused ==
    /\ OnOffice("setup")
    /\ ~Configurable \/ (run.cmd = "hours" /\ game.scene \in {"staff", "roles"})
    /\ Ends("nothing")
    /\ UNCHANGED <<game, posted, store, licensed, wronged, spare>>

Applied_Clicked == game.save = run.save

(* verify_working_hours, verify_employee_role *)
Applied == game.save = run.save /\ HasIt(run.cmd)

OfficeCheck ==
    /\ OnOffice("check") /\ Settles
    /\ Ends(IF Applied THEN run.cmd ELSE "nothing")
    /\ UNCHANGED <<game, posted, store, licensed, wronged>>

--------------------------------------------------------------------------------
(* The game. *)

LandHours ==
    /\ Landed /\ posted.do = "hours"
    /\ game' = [game EXCEPT !.hours = IF game.selected = "named" THEN game.fields = Hours ELSE @]
    /\ Sets(OfficeTerms("hours", game.selected, game.fields = Hours, game.save))
    /\ UNCHANGED told

LandRole ==
    /\ Landed /\ posted.do = "role"
    /\ game' = [game EXCEPT !.role = IF game.selected = "named" THEN game.on ELSE @,
                            !.scene = "staff"]
    /\ Sets(OfficeTerms("role", game.selected, game.on, game.save))
    /\ UNCHANGED told

(* The founder also selects, types, toggles and applies. *)
OfficeMeddling ==
    \/ Meddles([game EXCEPT !.paused = ~@])
    \/ game.scene = "teams" /\ \E who \in Named : \E fields \in ShownFor(who) :
                                  Meddles(TeamShown(who, fields))
    \/ \E field \in game.fields : Meddles([game EXCEPT !.fields = @ \ {field}])
    \/ game.scene = "teams" /\ Meddles([game EXCEPT !.focused = "departure"])
    \/ game.scene = "staff" /\ \E who \in Named \ {game.selected} :
                                  Meddles([game EXCEPT !.selected = who])
    \/ game.scene = "roles" /\ Meddles([game EXCEPT !.on = ~@])
    \/ game.scene = "staff" /\ game.selected # None
         /\ Meddles([game EXCEPT !.scene = "roles",
                                 !.on = IF game.selected = "named" THEN game.role ELSE FALSE])
    \/ Meddles([game EXCEPT !.hours = ~@])
    \/ Meddles([game EXCEPT !.role = ~@])
    \/ game.scene # "play" /\ Meddles([game EXCEPT !.scene = "play", !.selected = None,
                                                   !.fields = {}, !.focused = None])
    \/ Meddles([game EXCEPT !.dialog = IF @ = None THEN "notice" ELSE None])
    \/ game.save = 1 /\ Meddles([game EXCEPT !.save = 2])

OfficeNext ==
    \/ Stopped \/ Lost
    \/ \E cmd \in {"hours", "role"} : OfficeStart(cmd)
    \/ OfficeOpens \/ SelectTeam \/ SetHour \/ OpenStaff \/ SelectEmployee \/ OpenRoles
    \/ ToggleRole \/ HoursSeen \/ OfficeApply \/ OfficeRefused \/ OfficeCheck
    \/ LandHours \/ LandRole \/ OfficeMeddling

OfficeSpec == OfficeInit /\ [][OfficeNext]_vars

================================================================================
