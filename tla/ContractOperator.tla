---------------------------- MODULE ContractOperator ----------------------------
(***************************************************************************)
(* The contract operator (software_inc/contracts/): it accepts one offered *)
(* contract, gives it bounded intervals of time, and reviews, promotes and *)
(* releases its work item, each commitment after a question to the founder.*)
(*                                                                         *)
(*   game.scene    play, browser (with row and teams, what is configured   *)
(*                 in it) or setup (a review, with its configuration cfg)  *)
(*   game.dialog   the commitment a confirmation dialog is open for        *)
(*   game.item     the contract in work, with its stage; ready: promotion  *)
(*                 is possible, by progress or by a review's result;       *)
(*                 started, urgent: the deadline runs, and has five days   *)
(*                 or less; enabled: the project itself is not paused      *)
(*   game.review   the review work linked to it                            *)
(*   game.results  completed contracts                                     *)
(*   store[c]      the workflow of contract c, or None                     *)
(*   run.w         the workflow the command holds in memory; run.stage and *)
(*                 run.cfg: what it saw when it asked                      *)
(***************************************************************************)
EXTENDS FounderDesk

CONSTANTS
    Contracts,
    MaxContracts    \* bound: how many are carried to an end

ASSUME ContractAssumption == MaxContracts \in Nat

Later(stage) == CASE stage = "design" -> "alpha" [] stage = "alpha" -> "beta"

ContractInit ==
    /\ store = [c \in Contracts |-> None]
    /\ \E paused \in BOOLEAN, cfg \in Configs :
         game = [ desk |-> "contracts", save |-> 1, paused |-> paused, scene |-> "play",
                  row |-> None, teams |-> FALSE, dialog |-> None, offered |-> Contracts,
                  item |-> None, stage |-> "design", ready |-> FALSE, started |-> FALSE,
                  urgent |-> FALSE, enabled |-> FALSE, review |-> "none", cfg |-> cfg,
                  results |-> {} ]
    /\ DeskInit

--------------------------------------------------------------------------------
(* workflow.py and store.py. *)

Commitment(what, c, of, save) == [what |-> what, c |-> c, of |-> of, save |-> save]

(* approval_for: the question names the stage a promotion starts from and   *)
(* the configuration, with its cost, of a review.                          *)
ApprovalFor(w, what, cfg) ==
    [ terms |-> Commitment(what, w.c, CASE what = "promote" -> w.stage
                                        [] what = "review"  -> cfg
                                        [] OTHER            -> "", w.save),
      answer |-> "open" ]

NewWorkflow(c) ==
    LET w == [ c |-> c, save |-> game.save, status |-> "waiting", stage |-> "available",
               item |-> FALSE, approval |-> None ]
    IN  [w EXCEPT !.approval = ApprovalFor(w, "accept", None)]

Asking(w, what, cfg) == [w EXCEPT !.status = "waiting", !.approval = ApprovalFor(w, what, cfg)]

Resolved(w, yes) == [w EXCEPT !.status = IF yes THEN "active" ELSE "blocked",
                              !.approval.answer = IF yes THEN "yes" ELSE "no"]

(* What a snapshot shows: the work of a contract and its result, the review *)
(* linked to the work, and the configuration with its cost in the window.  *)
InWork(w) == game.item = w.c
HasResult(w) == w.c \in game.results
Reviewed == game.review # "none"
ReviewOver == game.review = "finished"
ReviewTerms == game.cfg

Synchronized(w) ==
    IF ~InWork(w) THEN w
    ELSE [w EXCEPT !.stage = game.stage, !.item = TRUE,
                   !.status = IF game.stage = "completed" THEN "completed" ELSE @]

Open_Asked(w) == w # None /\ w.status \notin {"completed", "failed", "blocked"}

Open(w) == w # None /\ w.status \notin {"completed", "failed"}

(* save: one open workflow for a session and a save. *)
MaySave(w) == Open(w) => \A c \in Contracts \ {w.c} : ~Open(store[c])

Keep(w) == store' = [store EXCEPT ![w.c] = w]

(* current: the open workflow of the loaded save. *)
Current(w) == \E c \in Contracts : w = store[c] /\ Open(w) /\ w.save = game.save

--------------------------------------------------------------------------------
(* Every observation after the first must come from the same save. *)
SameSave == game.save = run.w.save

Actionable == game.dialog = None

Command(cmd, pc, w) == run' = [ cmd |-> cmd, pc |-> pc, w |-> w, stage |-> game.stage,
                                cfg |-> game.cfg ]

(* The founder answers; the answer is saved before it is acted on. *)
Answered ==
    /\ run # Idle /\ run.pc = "ask"
    /\ \E yes \in BOOLEAN :
         LET w == Resolved(run.w, yes) IN
         /\ Keep(w)
         /\ IF yes THEN GoTo("commit", w) /\ SaysYes(w.approval.terms) /\ UNCHANGED told
                   ELSE Ends("nothing") /\ UNCHANGED licensed
    /\ UNCHANGED <<game, posted, wronged, spare>>

--------------------------------------------------------------------------------
(* accept: browse_contracts, recommend_contracts, accept_recommended_contract. *)

(* assess_contract: not while the team has work.  What it also asks, roles, *)
(* workspace, time and money, does not change here; nor does their order   *)
(* say which of the eligible contracts is recommended.                     *)
Eligible(c) == c \in game.offered /\ game.item = None

Recommended == {c \in Contracts : Eligible(c)}

(* A persisted workflow is resumed if it is this plan's, in this save, and *)
(* nothing but the acceptance can have been missed.                        *)
Resumable(w) == w.save = game.save /\ (w.item \/ w.stage = "available")

(* The market is opened and a recommendation made.  Its workflow is the    *)
(* persisted one, or a new one.                                            *)
AcceptStart(c) ==
    /\ run = Idle /\ posted = None /\ Actionable /\ game.scene \in {"play", "browser"}
    /\ Cardinality(game.results) < MaxContracts
    /\ LET w == IF store[c] = None THEN NewWorkflow(c) ELSE store[c] IN
       /\ Resumable(w) /\ MaySave(w)
       /\ Keep(w) /\ Command("accept", "setup", w)
    /\ game' = [game EXCEPT !.paused = game.paused \/ game.scene = "play", !.scene = "browser"]
    /\ UNCHANGED <<posted, licensed, wronged, told, spare>>

Configured(w) == /\ game.paused /\ game.scene = "browser"
                 /\ game.row = w.c /\ game.teams /\ w.c \in game.offered

(* One reversible gesture of the configuration, in the code's order. *)
AcceptGesture ==
    /\ At("accept", "setup") /\ posted = None /\ SameSave /\ Actionable
    /\ ~InWork(run.w) /\ ~Configured(run.w)
    /\ \/ ~game.paused /\ game' = [game EXCEPT !.paused = TRUE]
       \/ game.paused /\ game.scene = "play" /\ game' = [game EXCEPT !.scene = "browser"]
       \/ /\ game.paused /\ game.scene = "browser" /\ run.w.c \in game.offered
          /\ IF game.row # run.w.c THEN game' = [game EXCEPT !.row = run.w.c]
                                   ELSE game' = [game EXCEPT !.teams = TRUE]
    /\ UNCHANGED <<posted, store, run, licensed, wronged, told, spare>>

(* Any other window, save or offer ends the command. *)
AcceptRefused ==
    /\ At("accept", "setup")
    /\ \/ ~SameSave \/ ~Actionable
       \/ ~InWork(run.w) /\ game.paused /\ game.scene \notin {"play", "browser"}
       \/ ~InWork(run.w) /\ game.paused /\ game.scene = "browser" /\ run.w.c \notin game.offered
    /\ Ends("nothing")
    /\ UNCHANGED <<game, posted, store, licensed, wronged, spare>>

(* An earlier yes to the same plan is used again; otherwise it is asked. *)
AcceptAsk ==
    /\ At("accept", "setup") /\ SameSave /\ Actionable /\ ~InWork(run.w) /\ Configured(run.w)
    /\ LET a == run.w.approval IN
       IF a # None /\ a.terms.what = "accept" /\ a.answer = "yes"
       THEN GoTo("commit", run.w) /\ UNCHANGED store
       ELSE LET w == Asking(run.w, "accept", None) IN GoTo("ask", w) /\ Keep(w)
    /\ UNCHANGED <<game, posted, licensed, wronged, told, spare>>

AcceptCommit_Unchecked ==
    /\ At("accept", "commit")
    /\ IF SameSave /\ Actionable /\ game.paused /\ game.scene = "browser"
       THEN Clicks([do |-> "accept"]) /\ GoTo("check", run.w) /\ UNCHANGED told
       ELSE Ends("nothing") /\ UNCHANGED posted
    /\ UNCHANGED <<game, store, licensed, wronged, spare>>

(* _require_acceptance_commitment_current, then the click that commits. *)
AcceptCommit ==
    /\ At("accept", "commit")
    /\ IF SameSave /\ Actionable /\ Configured(run.w)
       THEN Clicks([do |-> "accept"]) /\ GoTo("check", run.w) /\ UNCHANGED told
       ELSE Ends("nothing") /\ UNCHANGED posted
    /\ UNCHANGED <<game, store, licensed, wronged, spare>>

(* No work item: the input is not tried again. *)
AcceptCheck ==
    /\ At("accept", "check") /\ Settles
    /\ IF SameSave /\ InWork(run.w)
       THEN Keep(run.w) /\ GoTo("setup", run.w) /\ UNCHANGED told
       ELSE Ends("nothing") /\ UNCHANGED store
    /\ UNCHANGED <<game, posted, licensed, wronged>>

(* The next cycle finds the work item and records it. *)
AcceptAdopt ==
    /\ At("accept", "setup") /\ SameSave /\ Actionable /\ InWork(run.w)
    /\ Keep([run.w EXCEPT !.status = "active", !.stage = game.stage, !.item = TRUE])
    /\ Ends("nothing")
    /\ UNCHANGED <<game, posted, licensed, wronged, spare>>

--------------------------------------------------------------------------------
(* promote and release: _commit_work_item_action. *)

CommitStart(what) ==
    /\ run = Idle /\ Actionable /\ game.paused
    /\ \E w \in {store[c] : c \in Contracts} :
         /\ Current(w) /\ InWork(w) /\ (what = "promote" => game.ready)
         /\ LET asked == Asking(Synchronized(w), what, None) IN
            Keep(asked) /\ Command(what, "ask", asked)
    /\ UNCHANGED <<game, posted, licensed, wronged, told, spare>>

(* The work is gone and its result is there: an interrupted release is      *)
(* recorded without an input (_reconcile_completed_release).               *)
Reconcile ==
    /\ run = Idle /\ Actionable /\ game.paused
    /\ \E w \in {store[c] : c \in Contracts} :
         /\ Current(w) /\ ~InWork(w) /\ HasResult(w)
         /\ Keep([w EXCEPT !.status = "completed", !.stage = "completed", !.approval = None])
    /\ UNCHANGED <<game, posted, run, licensed, wronged, told, spare>>

Unchanged == SameSave /\ Actionable /\ InWork(run.w) /\ game.stage = run.stage

(* What the work item's controls offer at its stage. *)
Offers(what) == IF what = "promote" THEN game.ready /\ game.stage \in {"design", "alpha"}
                                    ELSE game.stage = "beta"

CommitClick ==
    /\ run # Idle /\ run.cmd \in {"promote", "release"} /\ run.pc = "commit"
    /\ IF Unchanged /\ game.paused /\ Offers(run.cmd)
       THEN /\ Clicks([do |-> run.cmd])
            /\ GoTo("check", Synchronized(run.w)) /\ UNCHANGED told
       ELSE Ends("nothing") /\ UNCHANGED posted
    /\ UNCHANGED <<game, store, licensed, wronged, spare>>

(* The game may ask again; the same commitment is confirmed. *)
CommitConfirm ==
    /\ run # Idle /\ run.cmd \in {"promote", "release"} /\ run.pc = "check" /\ ~Actionable
    /\ IF SameSave /\ InWork(run.w) /\ game.stage = run.stage
       THEN Clicks([do |-> "confirm"]) /\ GoTo("confirmed", run.w) /\ UNCHANGED told
       ELSE Ends("nothing") /\ UNCHANGED posted
    /\ UNCHANGED <<game, store, licensed, wronged, spare>>

Verified_ByInput == SameSave

Verified == SameSave /\ IF run.cmd = "release" THEN HasResult(run.w)
                                            ELSE Synchronized(run.w).stage # run.stage

(* The stage has changed; the result of the release is there. *)
CommitCheck ==
    /\ run # Idle /\ run.cmd \in {"promote", "release"}
    /\ (run.pc = "check" /\ Actionable) \/ run.pc = "confirmed"
    /\ Settles
    /\ LET w == Synchronized(run.w) IN
       IF Verified
       THEN Keep(IF run.cmd = "release" THEN [w EXCEPT !.status = "completed"] ELSE w)
       ELSE UNCHANGED store
    /\ Ends("nothing")
    /\ UNCHANGED <<game, posted, licensed, wronged>>

--------------------------------------------------------------------------------
(* review_contract *)

ReviewStart ==
    /\ run = Idle /\ posted = None /\ Actionable /\ game.paused
    /\ game.scene \in {"play", "setup"} /\ game.stage \in {"alpha", "beta"}
    /\ \E w \in {store[c] : c \in Contracts} :
         /\ Current(w) /\ InWork(w)
         /\ LET asked == Asking(Synchronized(w), "review", ReviewTerms) IN
            Keep(asked) /\ Command("review", "ask", asked)
    /\ game' = [game EXCEPT !.scene = "setup"]
    /\ UNCHANGED <<posted, licensed, wronged, told, spare>>

(* Cost and configuration are read again; the clock is not. *)
ReviewClick ==
    /\ At("review", "commit")
    /\ IF Unchanged /\ game.scene = "setup" /\ ReviewTerms = run.cfg
       THEN Clicks([do |-> "review"]) /\ GoTo("check", Synchronized(run.w)) /\ UNCHANGED told
       ELSE Ends("nothing") /\ UNCHANGED posted
    /\ UNCHANGED <<game, store, licensed, wronged, spare>>

ReviewCheck ==
    /\ At("review", "check") /\ Settles
    /\ IF SameSave /\ InWork(run.w) /\ Reviewed
       THEN Keep(Synchronized(run.w)) ELSE UNCHANGED store
    /\ Ends("nothing")
    /\ UNCHANGED <<game, posted, licensed, wronged>>

--------------------------------------------------------------------------------
(* advance_contract *)

Risky == ~game.started \/ game.urgent

(* The work item is activated when it has not started and is paused; then  *)
(* the clock is resumed.                                                   *)
Proceed(w) == IF ~game.started /\ ~game.enabled
              THEN Clicks([do |-> "enable"]) /\ GoTo("enabled", w)
              ELSE Clicks([do |-> "resume"]) /\ GoTo("resumed", w)

(* Reversible windows are closed first.  A finished review is concluded and *)
(* no time passes; a deadline at risk is asked about.                      *)
AdvanceStart ==
    /\ run = Idle /\ posted = None /\ Actionable /\ game.paused /\ game.scene # "setup"
    /\ \E w \in {store[c] : c \in Contracts} :
         /\ Current(w) /\ InWork(w)
         /\ LET now == Synchronized(w)
                asked == Asking(now, "risk", None) IN
            \/ /\ ReviewOver
               /\ Clicks([do |-> "finish"]) /\ Command("advance", "finished", now)
               /\ UNCHANGED store
            \/ /\ ~ReviewOver /\ Risky
               /\ Keep(asked) /\ Command("advance", "ask", asked) /\ UNCHANGED posted
            \/ /\ ~ReviewOver /\ ~Risky
               /\ Clicks([do |-> "resume"]) /\ Command("advance", "resumed", now)
               /\ UNCHANGED store
    /\ game' = [game EXCEPT !.scene = "play"]
    /\ UNCHANGED <<licensed, wronged, told, spare>>

ReviewFinished ==
    /\ At("advance", "finished") /\ Settles
    /\ IF SameSave /\ ~Reviewed THEN Keep(Synchronized(run.w)) ELSE UNCHANGED store
    /\ Ends("nothing")
    /\ UNCHANGED <<game, posted, licensed, wronged>>

RiskAccepted ==
    /\ At("advance", "commit")
    /\ IF SameSave /\ Actionable /\ game.paused /\ InWork(run.w)
       THEN Proceed(Synchronized(run.w)) /\ UNCHANGED told
       ELSE Ends("nothing") /\ UNCHANGED posted
    /\ UNCHANGED <<game, store, licensed, wronged, spare>>

WorkEnabled ==
    /\ At("advance", "enabled") /\ posted = None
    /\ LET w == Synchronized(run.w) IN
       IF SameSave /\ Actionable /\ InWork(w) /\ game.enabled
       THEN Keep(w) /\ Clicks([do |-> "resume"]) /\ GoTo("resumed", w) /\ UNCHANGED told
       ELSE Ends("nothing") /\ UNCHANGED <<store, posted>>
    /\ UNCHANGED <<game, licensed, wronged, spare>>

(* That the clock runs is recorded but not required. *)
Resumed ==
    /\ At("advance", "resumed") /\ Settles
    /\ LET w == Synchronized(run.w) IN
       IF SameSave THEN Keep(w) /\ GoTo("running", w) /\ UNCHANGED told
                   ELSE Ends("nothing") /\ UNCHANGED store
    /\ UNCHANGED <<game, posted, licensed, wronged>>

(* After the interval: one click, if the clock is seen running. *)
IntervalOver ==
    /\ At("advance", "running")
    /\ IF game.paused THEN GoTo("ending", run.w) /\ UNCHANGED <<posted, told>>
       ELSE IF Actionable THEN Clicks([do |-> "pause"]) /\ GoTo("pausing", run.w)
                               /\ UNCHANGED told
            ELSE Ends("nothing") /\ UNCHANGED posted
    /\ UNCHANGED <<game, store, licensed, wronged, spare>>

Pausing ==
    /\ At("advance", "pausing") /\ Settles
    /\ IF SameSave THEN GoTo("ending", Synchronized(run.w)) /\ UNCHANGED told
                   ELSE Ends("nothing")
    /\ UNCHANGED <<game, posted, store, licensed, wronged>>

(* The work must still be there; whether the pause was seen is not asked.  *)
IntervalVerified ==
    /\ At("advance", "ending")
    /\ IF SameSave /\ InWork(run.w) THEN Keep(Synchronized(run.w)) ELSE UNCHANGED store
    /\ Ends(IF SameSave /\ InWork(run.w) THEN "interval" ELSE "nothing")
    /\ UNCHANGED <<game, posted, licensed, wronged, spare>>

--------------------------------------------------------------------------------
(* The game: what a click does when it lands. *)

Sold(g) == [g EXCEPT !.results = @ \cup {g.item}]

Effects(what) ==
    IF what = "promote" THEN {[game EXCEPT !.stage = Later(@), !.ready = FALSE,
                                           !.review = "none", !.dialog = None]}
    ELSE {[Sold(game) EXCEPT !.item = None, !.review = "none", !.dialog = None],
          [Sold(game) EXCEPT !.stage = "completed", !.review = "none", !.dialog = None]}

CommitmentHere(what) ==
    Commitment(what, game.item, IF what = "promote" THEN game.stage ELSE "", game.save)

LandAccept ==
    /\ Landed /\ posted.do = "accept" /\ game.scene = "browser"
    /\ game.row \in game.offered /\ game.item = None
    /\ \E enabled \in BOOLEAN :
         game' = [game EXCEPT !.item = game.row, !.offered = @ \ {game.row}, !.row = None,
                              !.stage = "design", !.ready = FALSE, !.started = FALSE,
                              !.urgent = FALSE, !.enabled = enabled]
    /\ Commits(Commitment("accept", game.row, IF game.teams THEN "" ELSE "teams", game.save))
    /\ UNCHANGED told

LandCommit(what) ==
    /\ Landed /\ posted.do = what /\ game.item # None /\ Offers(what)
    /\ \/ game' = [game EXCEPT !.dialog = what] /\ UNCHANGED <<licensed, wronged>>
       \/ game' \in Effects(what) /\ Commits(CommitmentHere(what))
    /\ UNCHANGED told

LandConfirm ==
    /\ Landed /\ posted.do = "confirm" /\ game.dialog # None /\ game.item # None
    /\ game' \in Effects(game.dialog)
    /\ Commits(CommitmentHere(game.dialog))
    /\ UNCHANGED told

LandReview ==
    /\ Landed /\ posted.do = "review" /\ game.scene = "setup" /\ game.item # None
    /\ game' = [game EXCEPT !.review = "running", !.scene = "play"]
    /\ Commits(Commitment("review", game.item, game.cfg, game.save))
    /\ UNCHANGED told

LandResume ==
    /\ Landed /\ posted.do = "resume"
    /\ game' = [game EXCEPT !.paused = FALSE]
    /\ IF game.item # None /\ Risky /\ game.paused
       THEN Commits(Commitment("risk", game.item, "", game.save))
       ELSE UNCHANGED <<licensed, wronged>>
    /\ UNCHANGED told

LandReversible ==
    /\ Landed
    /\ \/ posted.do = "pause" /\ game' = [game EXCEPT !.paused = TRUE]
       \/ posted.do = "enable" /\ game' = [game EXCEPT !.enabled = TRUE]
       \/ posted.do = "finish" /\ game' = [game EXCEPT !.review = "none"]
    /\ UNCHANGED <<licensed, wronged, told>>

(* Nothing is under the click any more. *)
LandNowhere ==
    /\ Landed
    /\ CASE posted.do = "accept"  -> ~(game.scene = "browser" /\ game.row \in game.offered
                                        /\ game.item = None)
         [] posted.do \in {"promote", "release"} -> ~(game.item # None /\ Offers(posted.do))
         [] posted.do = "confirm" -> game.dialog = None \/ game.item = None
         [] posted.do = "review"  -> game.scene # "setup" \/ game.item = None
         [] OTHER -> FALSE
    /\ UNCHANGED <<game, licensed, wronged, told>>

(* While the clock runs: work, the deadline, the market. *)
ContractTime ==
    \/ game.item # None /\ game.enabled /\ game.stage # "completed"
         /\ Passes([game EXCEPT !.started = TRUE, !.ready = TRUE])
    \/ game.item # None /\ game.started /\ Passes([game EXCEPT !.urgent = TRUE])
    \/ game.item # None /\ game.urgent
         /\ Passes([Sold(game) EXCEPT !.item = None, !.review = "none", !.dialog = None])
    \/ game.review = "running" /\ Passes([game EXCEPT !.review = "finished"])
    \/ \E c \in game.offered : Passes([game EXCEPT !.offered = @ \ {c}])

(* The founder's own hands. *)
ContractMeddling ==
    \/ Meddles([game EXCEPT !.paused = ~@])
    \/ game.scene = "browser" /\ \E c \in game.offered : Meddles([game EXCEPT !.row = c])
    \/ game.scene = "browser" /\ Meddles([game EXCEPT !.teams = ~@])
    \/ \E cfg \in Configs : game.scene = "setup" /\ Meddles([game EXCEPT !.cfg = cfg])
    \/ game.scene # "play" /\ Meddles([game EXCEPT !.scene = "play"])
    \/ game.item # None /\ Offers("promote") /\ \E g \in Effects("promote") : Meddles(g)
    \/ game.dialog # None /\ Meddles([game EXCEPT !.dialog = None])
    \/ game.save = 1 /\ Meddles([game EXCEPT !.save = 2])

ContractNext ==
    \/ Stopped \/ Lost \/ Answered
    \/ \E c \in Recommended : AcceptStart(c)
    \/ AcceptGesture \/ AcceptRefused \/ AcceptAsk \/ AcceptCommit \/ AcceptCheck
    \/ AcceptAdopt
    \/ \E what \in {"promote", "release"} : CommitStart(what) \/ LandCommit(what)
    \/ Reconcile \/ CommitClick \/ CommitConfirm \/ CommitCheck
    \/ ReviewStart \/ ReviewClick \/ ReviewCheck
    \/ AdvanceStart \/ ReviewFinished \/ RiskAccepted \/ WorkEnabled \/ Resumed
    \/ IntervalOver \/ Pausing \/ IntervalVerified
    \/ LandAccept \/ LandConfirm \/ LandReview \/ LandResume \/ LandReversible \/ LandNowhere
    \/ ContractTime \/ ContractMeddling

ContractSpec == ContractInit /\ [][ContractNext]_vars
================================================================================
