----------------------------- MODULE FounderSession -----------------------------
(***************************************************************************)
(* One session of the founder with one of the operators and controllers of *)
(* Software Inc., and what is to be true of all of them.  They share the   *)
(* game and nothing else; a session is about one desk.                     *)
(***************************************************************************)
EXTENDS ContractOperator, ProductOperator, TrainingOperator,
        StaffingController, OfficeController, WorkstationController, TimeControl

Init == \/ ContractInit \/ ProductInit \/ TrainingInit
        \/ StaffingInit \/ OfficeInit \/ StationInit \/ ClockInit

Next ==
    \/ game.desk = "contracts" /\ ContractNext
    \/ game.desk = "products" /\ ProductNext
    \/ game.desk = "training" /\ TrainingNext
    \/ game.desk = "staffing" /\ StaffingNext
    \/ game.desk = "office" /\ OfficeNext
    \/ game.desk = "workstation" /\ StationNext
    \/ game.desk = "clock" /\ ClockNext

Spec == Init /\ [][Next]_vars

--------------------------------------------------------------------------------
(* The one part of their terms that the last look before these clicks does *)
(* not compare: whose role window it is (office_controller.py:450-498), the *)
(* name in the form of a new team (staffing.py:396), and whose selector of *)
(* teams it is (workstation_controller.py:258-304).                        *)
Unchecked == {"role", "team", "assign"}

(* Every commitment an input of the program made is one the founder had    *)
(* said yes to, and one yes makes one commitment: whatever the founder did *)
(* in the game while the question was on the screen, and however commands  *)
(* ended, clicks were lost or came late.  It is made in the terms of the   *)
(* yes, but for the employee, the name or the room above, of which the     *)
(* docs promise more than the code does (docs/032:47, docs/030:99,         *)
(* docs/033:122).  The rest of the terms holds even then: that role, one   *)
(* new team, those teams, in the save that was asked about.  A search or a *)
(* hire is never made: SameOffer refuses both.                             *)
CommitmentsApproved ==
    wronged # None =>
        /\ wronged.terms.what \in Unchecked
        /\ \E yes \in wronged.licensed : wronged.terms = [yes EXCEPT !.of = wronged.terms.of]

Rank(stage) == CASE stage = "available" -> 0 [] stage = "design" -> 1 [] stage = "alpha" -> 2
                 [] stage = "beta" -> 3 [] stage = "completed" -> 4

GameRank(c) == IF c \in game.results THEN 4 ELSE IF game.item = c THEN Rank(game.stage) ELSE 0

(* The record is never ahead of the game.  An input whose effect was not   *)
(* seen moves no stage of a contract, and only one with a result is         *)
(* recorded as completed.  What is recorded as spent on courses was spent:  *)
(* a question, a click or a repeated start never adds to it.  The record    *)
(* shows no more courses than levels gained, and a completed curriculum     *)
(* has them all.                                                            *)
RecordNeverAhead ==
    /\ game.desk = "contracts" =>
         \A c \in Contracts : store[c] # None =>
             /\ Rank(store[c].stage) <= GameRank(c)
             /\ store[c].status = "completed" => c \in game.results
    /\ game.desk = "training" /\ store # None =>
         /\ store.spent <= game.paid
         /\ store.completed <= game.level
         /\ store.status = "completed" => game.level = Courses

(* Work the program has taken on is found again: while the contract or the *)
(* product is in work the next command finds an open workflow for it,      *)
(* whatever was refused, interrupted or denied before.                     *)
WorkIsFound ==
    /\ game.desk = "contracts" /\ game.item # None /\ game.stage # "completed"
         /\ game.save = 1 => Current(store[game.item])
    /\ game.desk = "products" /\ game.stage \in {"design", "alpha"} /\ game.save = 1
         => ProductOpen(store)

(* The program creates the product at most once in a save: not again while *)
(* a creation it may have made is not seen, or its product was cancelled.  *)
OneAtlas == game.desk = "products" => game.made <= 1

(* What a command tells the founder is so, whatever was clicked in the     *)
(* meantime and whichever clicks were lost or late: an interval that ended *)
(* with the game paused has left it paused with no click to come; a        *)
(* started iteration has used its yes; the team is there, it has its       *)
(* hours, the employee the role, the room the team and a workstation; the  *)
(* clock runs; the window is open.                                         *)
ReportsAreReal ==
    /\ told = "paused" => game.paused /\ posted = None
    /\ told = "iterated" => \A terms \in licensed : terms.what # "iterate"
    /\ told = "team" => "asked" \in game.teams
    /\ told = "hours" => game.hours
    /\ told = "role" => game.role
    /\ told = "prepared" => "ours" \in game.teams /\ HasWorkstation
    /\ told = "running" => ~game.paused
    /\ told = "opened" => game.scene = "teams"

================================================================================
