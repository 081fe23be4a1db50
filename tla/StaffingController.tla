-------------------------- MODULE StaffingController --------------------------
(***************************************************************************)
(* The staffing controller (software_inc/ui/staffing*.py): it creates one  *)
(* team, buys one applicant search, or hires one applicant, through the    *)
(* visible windows.  Its question and its plan are held in memory only.    *)
(*                                                                         *)
(*   game.scene    play, teams, form (of a new team, with the text typed), *)
(*                 hiring (a search) or applicants; chosen is what is set  *)
(*                 in these two, cfg what they offer and for how much      *)
(*   game.teams    the teams there are, by their names                     *)
(*   run.seq       the bridge sequence of its latest observation, from the *)
(*                 command's first                                         *)
(*   run.offer     the search or the applicant of the plan                 *)
(*   run.teams, run.hired  what there was when the commitment was clicked  *)
(***************************************************************************)
EXTENDS FounderDesk

StaffingInit ==
    /\ store = None
    /\ \E paused \in BOOLEAN, teams \in SUBSET {"asked", "another"}, cfg \in Configs :
         game = [ desk |-> "staffing", save |-> 1, paused |-> paused, scene |-> "play",
                  dialog |-> None, teams |-> teams, typed |-> "", focused |-> FALSE,
                  chosen |-> {}, cfg |-> cfg, hired |-> {} ]
    /\ DeskInit

(* A commitment to a team of this name, to this search or this applicant.  *)
StaffingTerms(what, of, save) == [what |-> what, of |-> of, save |-> save]

(* applicant_observations, hiring_search_observation: an offer carries the  *)
(* sequence of the observation it was read from.                           *)
Offer(seq) == [of |-> game.cfg, seq |-> seq]

StaffingCommands == {"team", "search", "hire"}

OnStaffing(pc) == run # Idle /\ run.cmd \in StaffingCommands /\ run.pc = pc

Undisturbed == game.save = run.save /\ game.dialog = None

--------------------------------------------------------------------------------
(* execute_staffing_intent: the team must be new, or must exist.           *)
StaffingStart(cmd) ==
    /\ run = Idle /\ game.dialog = None
    /\ (cmd = "team") # ("asked" \in game.teams)
    /\ run' = [ cmd |-> cmd, pc |-> "setup", what |-> cmd, save |-> game.save, seq |-> 0,
                offer |-> None, teams |-> {}, hired |-> {} ]
    /\ told' = "nothing" /\ licensed' = Anew
    /\ UNCHANGED <<game, posted, store, wronged, spare>>

(* One gesture, followed by an observation with a higher sequence.         *)
StaffingGesture(changed, offer) ==
    /\ OnStaffing("setup") /\ posted = None /\ Undisturbed
    /\ game' = changed
    /\ run' = [run EXCEPT !.seq = @ + 1, !.offer = offer]
    /\ UNCHANGED <<posted, store, licensed, wronged, told, spare>>

PauseForStaffing ==
    game.scene = "play" /\ ~game.paused /\ StaffingGesture([game EXCEPT !.paused = TRUE], None)

OpenTeams ==
    game.scene = "play" /\ game.paused /\ StaffingGesture([game EXCEPT !.scene = "teams"], None)

OpenTeamForm ==
    /\ game.scene = "teams" /\ OnStaffing("setup") /\ run.cmd = "team"
    /\ StaffingGesture([game EXCEPT !.scene = "form", !.typed = "", !.focused = FALSE], None)

(* Only an empty field is focused, and typed into. *)
TypeTeamName ==
    /\ game.scene = "form" /\ game.typed = "" /\ OnStaffing("setup") /\ run.cmd = "team"
    /\ IF game.focused THEN StaffingGesture([game EXCEPT !.typed = "asked"], None)
                       ELSE StaffingGesture([game EXCEPT !.focused = TRUE], None)

OpenHiring ==
    /\ game.scene \in {"teams", "form"} /\ OnStaffing("setup") /\ run.cmd # "team"
    /\ StaffingGesture([game EXCEPT !.scene = "hiring", !.chosen = {}], None)

(* The role first, then the wage bracket. *)
ConfigureSearch ==
    /\ game.scene = "hiring" /\ OnStaffing("setup") /\ run.cmd # "team"
    /\ game.chosen # {"role", "wage"}
    /\ StaffingGesture([game EXCEPT !.chosen = @ \cup {IF "role" \in @ THEN "wage" ELSE "role"}],
                       None)

(* The cheapest applicant in reach is selected once; then its team is      *)
(* chosen, and its row.                                                    *)
Selected == IF run.offer = None THEN Offer(run.seq) ELSE run.offer

ChooseApplicant ==
    /\ game.scene = "applicants" /\ OnStaffing("setup") /\ run.cmd # "team"
    /\ game.chosen # {"team", "row"}
    /\ StaffingGesture([game EXCEPT !.chosen = @ \cup {IF "team" \in @ THEN "row" ELSE "team"}],
                       Selected)

(* What there is to ask about. *)
Question ==
    CASE run.cmd = "team" /\ game.scene = "form" /\ game.typed = "asked"
           /\ "asked" \notin game.teams -> "team"
      [] run.cmd # "team" /\ game.scene = "hiring" /\ game.chosen = {"role", "wage"}
           /\ "asked" \in game.teams -> "search"
      [] run.cmd = "hire" /\ game.scene = "applicants" /\ game.chosen = {"team", "row"} -> "hire"
      [] OTHER -> "none"

(* build_staffing_plan, pending_approval *)
StaffingAsk ==
    /\ OnStaffing("setup") /\ Undisturbed /\ Question # "none"
    /\ run' = [run EXCEPT !.pc = "ask", !.what = Question,
                          !.offer = CASE Question = "team"   -> None
                                      [] Question = "search" -> Offer(run.seq)
                                      [] Question = "hire"   -> Selected]
    /\ UNCHANGED <<game, posted, store, licensed, wronged, told, spare>>

(* Another save, dialog or window, another text in the field, a team that  *)
(* has come or gone.                                                       *)
StaffingRefused ==
    /\ OnStaffing("setup")
    /\ \/ ~Undisturbed
       \/ run.cmd = "team" /\ (game.scene \in {"hiring", "applicants"}
                                \/ (game.scene = "form" /\ game.typed = "another"))
       \/ Question = "none"
            /\ \/ game.scene = "form" /\ game.typed = "asked" /\ run.cmd = "team"
               \/ game.scene = "hiring" /\ game.chosen = {"role", "wage"}
               \/ game.scene = "applicants" /\ game.chosen = {"team", "row"}
    /\ Ends("nothing")
    /\ UNCHANGED <<game, posted, store, licensed, wronged, spare>>

StaffingAnswered ==
    /\ OnStaffing("ask")
    /\ \/ /\ To("commit") /\ UNCHANGED told
          /\ SaysYes(StaffingTerms(run.what, IF run.what = "team" THEN "asked" ELSE run.offer.of,
                                   run.save))
       \/ Ends("nothing") /\ UNCHANGED licensed
    /\ UNCHANGED <<game, posted, store, wronged, spare>>

Window(what) == CASE what = "team"   -> "form"
                  [] what = "search" -> "hiring"
                  [] what = "hire"   -> "applicants"

(* A search or an applicant is compared whole with the one of the plan.    *)
SameOffer == Offer(run.seq + 1) = run.offer

(* require_valid_approval, on a fresh observation.  Of a new team only that *)
(* there is none of the name: what the form says now is not read.          *)
StillApproved ==
    /\ Undisturbed /\ game.scene = Window(run.what)
    /\ IF run.what = "team" THEN "asked" \notin game.teams ELSE SameOffer

StaffingCommit ==
    /\ OnStaffing("commit")
    /\ \/ /\ StillApproved
          /\ Clicks([do |-> run.what])
          /\ run' = [run EXCEPT !.pc = "check", !.seq = @ + 1, !.teams = game.teams,
                                !.hired = game.hired]
          /\ UNCHANGED told
       \/ /\ ~StillApproved
          /\ Ends(IF Undisturbed /\ game.scene = Window(run.what) /\ run.what # "team"
                  THEN "changed" ELSE "nothing")
          /\ UNCHANGED posted
    /\ UNCHANGED <<game, store, licensed, wronged, spare>>

(* verify_team_created, verify_applicant_search, verify_employee_hired:     *)
(* exactly what was approved has been added.  A hire goes on after its     *)
(* search.                                                                 *)
StaffingCheck ==
    /\ OnStaffing("check") /\ Settles
    /\ IF ~Undisturbed THEN Ends("nothing")
       ELSE CASE run.what = "team" ->
                   Ends(IF game.teams \ run.teams = {"asked"} THEN "team" ELSE "nothing")
              [] run.what = "search" ->
                   IF game.scene = "applicants" /\ run.cmd = "hire"
                   THEN run' = [run EXCEPT !.pc = "setup", !.offer = None] /\ UNCHANGED told
                   ELSE Ends("nothing")
              [] run.what = "hire" ->
                   Ends(IF game.hired \ run.hired = {run.offer.of} THEN "hired" ELSE "nothing")
    /\ UNCHANGED <<game, posted, store, licensed, wronged>>

--------------------------------------------------------------------------------
(* The game. *)

LandStaffing ==
    /\ Landed /\ posted.do \in StaffingCommands
    /\ game' = CASE posted.do = "team"   -> [game EXCEPT !.teams = @ \cup {game.typed},
                                                        !.scene = "teams"]
                 [] posted.do = "search" -> [game EXCEPT !.scene = "applicants", !.chosen = {}]
                 [] posted.do = "hire"   -> [game EXCEPT !.hired = @ \cup {game.cfg}]
    /\ Commits(StaffingTerms(posted.do, IF posted.do = "team" THEN game.typed ELSE game.cfg,
                             game.save))
    /\ UNCHANGED told

(* The pool of applicants changes with time, not under a click. *)
StaffingTime ==
    /\ game.scene \in {"hiring", "applicants"} /\ posted = None
    /\ \E cfg \in Configs \ {game.cfg} : Passes([game EXCEPT !.cfg = cfg])

(* The founder also types, creates teams, buys searches and hires. *)
StaffingMeddling ==
    \/ Meddles([game EXCEPT !.paused = ~@])
    \/ game.scene = "form" /\ \E text \in {"asked", "another"} \ {game.typed} :
                                 Meddles([game EXCEPT !.typed = text])
    \/ game.scene = "form" /\ game.typed # ""
         /\ Meddles([game EXCEPT !.teams = @ \cup {game.typed}, !.scene = "teams"])
    \/ game.scene = "hiring" /\ Meddles([game EXCEPT !.scene = "applicants", !.chosen = {}])
    \/ \E thing \in game.chosen : Meddles([game EXCEPT !.chosen = @ \ {thing}])
    \/ game.scene \in {"hiring", "applicants"}
         /\ \E cfg \in Configs \ {game.cfg} : Meddles([game EXCEPT !.cfg = cfg])
    \/ game.scene # "play" /\ Meddles([game EXCEPT !.scene = "play"])
    \/ Meddles([game EXCEPT !.dialog = IF @ = None THEN "notice" ELSE None])
    \/ game.save = 1 /\ Meddles([game EXCEPT !.save = 2])

StaffingNext ==
    \/ Stopped \/ Lost
    \/ \E cmd \in StaffingCommands : StaffingStart(cmd)
    \/ PauseForStaffing \/ OpenTeams \/ OpenTeamForm \/ TypeTeamName \/ OpenHiring
    \/ ConfigureSearch \/ ChooseApplicant
    \/ StaffingAsk \/ StaffingRefused \/ StaffingAnswered \/ StaffingCommit \/ StaffingCheck
    \/ LandStaffing \/ StaffingTime \/ StaffingMeddling

StaffingSpec == StaffingInit /\ [][StaffingNext]_vars

================================================================================
