---------------------------- MODULE ProductOperator ----------------------------
(***************************************************************************)
(* The product operator (software_inc/products/): it configures and        *)
(* creates the product Atlas, and holds, advances, reviews, iterates and   *)
(* promotes it until it is in beta.                                        *)
(*                                                                         *)
(*   game.scene    play, config (the design window: fixed are the fields   *)
(*                 that have the value of the bounded configuration, cfg   *)
(*                 is what the market and the team decide), setup (a       *)
(*                 review, with its cost cfg) or result (of a review)      *)
(*   game.stage    none, design, alpha or beta; held, iteration, review    *)
(*   game.dialog   promote (it asks once more), or the notice of an event  *)
(*   game.made     how many times an input of the program created it       *)
(*   store         the last workflow of the first save, or None: after     *)
(*                 the founder has loaded another, no command starts       *)
(*   run.seen      the iteration of the record the command was given       *)
(***************************************************************************)
EXTENDS FounderDesk

CONSTANT MaxIterations  \* bound: iterations of the product

ASSUME ProductAssumption == MaxIterations \in Nat

ProductInit ==
    /\ store = None
    /\ \E paused \in BOOLEAN, cfg \in Configs :
         game = [ desk |-> "products", save |-> 1, paused |-> paused, scene |-> "play",
                  dialog |-> None, cfg |-> cfg, fixed |-> {}, stage |-> "none",
                  held |-> FALSE, iteration |-> 0, review |-> "none", made |-> 0 ]
    /\ DeskInit

--------------------------------------------------------------------------------
(* workflow.py and store.py. *)

ProductTerms(what, of, save) == [what |-> what, of |-> of, save |-> save]

(* approval_for *)
ProductAsking(w, what, of) ==
    [w EXCEPT !.status = "waiting",
              !.pending = [terms |-> ProductTerms(what, of, w.save), answer |-> "open"]]

(* create_workflow *)
NewProduct ==
    ProductAsking([ save |-> game.save, stage |-> "configuration", status |-> "waiting",
                    held |-> FALSE, iteration |-> 0, pending |-> None ], "create", game.cfg)

(* synchronize_workflow: what the work item shows overrides the record.     *)
Observed(w) ==
    IF game.stage = "none" THEN w
    ELSE [w EXCEPT !.stage = game.stage, !.held = game.held, !.iteration = game.iteration,
                   !.status = IF game.stage = "beta" THEN "beta_reached"
                              ELSE IF game.held THEN "held" ELSE "active"]

ProductOpen(w) == w # None /\ w.status \notin {"beta_reached", "failed"}

(* A workflow of the loaded save: an open one, or for advance and promote  *)
(* the last one.                                                           *)
ProductFound(what) == /\ store # None /\ store.save = game.save
                      /\ ProductOpen(store) \/ what \in {"advance", "promote"}

SafelyUncommitted(w) ==
    w.pending # None /\ w.pending.terms.what = "create" /\ w.pending.answer \in {"open", "no"}

--------------------------------------------------------------------------------
ProductCommands == {"create", "promote", "review", "iterate", "hold", "advance"}

OnProduct(pc) == run # Idle /\ run.cmd \in ProductCommands /\ run.pc = pc

NoDialog == game.dialog = None

ProductCommand(cmd, pc, w) ==
    run' = [ cmd |-> cmd, pc |-> pc, w |-> w, save |-> game.save, cfg |-> game.cfg,
             held |-> FALSE, seen |-> IF store = None THEN 0 ELSE store.iteration ]

(* _require_continuity *)
Continues == game.save = run.save

(* The answer is saved before it is acted on; a denied creation is closed. *)
ProductAnswered ==
    /\ OnProduct("ask")
    /\ \E yes \in BOOLEAN :
         LET w == [run.w EXCEPT !.pending.answer = IF yes THEN "yes" ELSE "no",
                                !.status = IF yes THEN "active"
                                           ELSE IF run.cmd = "create" THEN "failed"
                                           ELSE "blocked"] IN
         /\ store' = w
         /\ IF yes THEN GoTo("commit", w) /\ SaysYes(w.pending.terms) /\ UNCHANGED told
                   ELSE Ends("nothing") /\ UNCHANGED licensed
    /\ UNCHANGED <<game, posted, wronged, spare>>

--------------------------------------------------------------------------------
(* start_atlas *)

AtlasStart_Forgetful ==
    /\ run = Idle /\ NoDialog /\ game.paused /\ game.stage = "none" /\ game.save = 1
    /\ store' = IF ProductOpen(store) THEN [store EXCEPT !.status = "failed"] ELSE store
    /\ ProductCommand("create", "setup", None)
    /\ told' = "nothing" /\ UNCHANGED <<game, posted, licensed, wronged, spare>>

(* An Atlas in work is never created again.  A workflow whose creation was *)
(* approved and is not seen is ambiguous: nothing is tried again.          *)
AtlasStart ==
    /\ run = Idle /\ NoDialog /\ game.paused /\ game.stage = "none" /\ game.save = 1
    /\ IF ProductOpen(store) /\ store.save = game.save
       THEN SafelyUncommitted(store) /\ store' = [store EXCEPT !.status = "failed"]
       ELSE UNCHANGED store
    /\ ProductCommand("create", "setup", None)
    /\ told' = "nothing" /\ UNCHANGED <<game, posted, licensed, wronged, spare>>

(* The reversible gestures, each observed before the next.  The window keeps *)
(* what it showed last; the first field that is not as it should be, in the *)
(* order of the source, is set.                                            *)
Fields == <<"type", "name", "price", "teams", "features", "systems">>

AsBounded == game.scene = "config" /\ \A n \in DOMAIN Fields : Fields[n] \in game.fixed

OpenDesign ==
    /\ At("create", "setup") /\ posted = None /\ Continues
    /\ game.scene = "play" /\ game.paused
    /\ \E fields \in {{}, {"type"}} : game' = [game EXCEPT !.scene = "config", !.fixed = fields]
    /\ UNCHANGED <<posted, store, run, licensed, wronged, told, spare>>

SetField(n) ==
    /\ At("create", "setup") /\ posted = None /\ Continues /\ game.scene = "config"
    /\ Fields[n] \notin game.fixed /\ \A k \in 1..n - 1 : Fields[k] \in game.fixed
    /\ game' = [game EXCEPT !.fixed = @ \cup {Fields[n]}]
    /\ UNCHANGED <<posted, store, run, licensed, wronged, told, spare>>

SetType == SetField(1)
SetName == SetField(2)
SetPrice == SetField(3)
SetTeams == SetField(4)
SetFeatures == SetField(5)
SetSystems == SetField(6)

(* Another window, or a configuration that is not recommended. *)
AtlasRefused ==
    /\ At("create", "setup")
    /\ \/ ~Continues \/ game.scene \in {"setup", "result"}
       \/ game.scene = "play" /\ ~game.paused
       \/ AsBounded
    /\ Ends("nothing")
    /\ UNCHANGED <<game, posted, store, licensed, wronged, spare>>

AtlasAsk ==
    /\ At("create", "setup") /\ Continues /\ AsBounded
    /\ store' = NewProduct
    /\ run' = [run EXCEPT !.pc = "ask", !.w = NewProduct, !.cfg = game.cfg]
    /\ UNCHANGED <<game, posted, licensed, wronged, told, spare>>

(* The recommendation is made again and must be the same. *)
AtlasCommit ==
    /\ At("create", "commit")
    /\ IF Continues /\ NoDialog /\ AsBounded /\ game.cfg = run.cfg
       THEN Clicks([do |-> "create"]) /\ GoTo("check", run.w) /\ UNCHANGED told
       ELSE Ends("nothing") /\ UNCHANGED posted
    /\ UNCHANGED <<game, store, licensed, wronged, spare>>

(* One work item in design; the input is not sent again. *)
AtlasCheck ==
    /\ At("create", "check") /\ Settles
    /\ IF Continues /\ NoDialog /\ game.stage = "design"
       THEN store' = Observed(run.w) /\ Ends("created")
       ELSE Ends("nothing") /\ UNCHANGED store
    /\ UNCHANGED <<game, posted, licensed, wronged>>

(* close_product_configuration *)
CloseConfiguration ==
    /\ run = Idle /\ posted = None /\ NoDialog /\ game.scene = "config"
    /\ game' = [game EXCEPT !.scene = "play", !.fixed = {}] /\ told' = "nothing"
    /\ UNCHANGED <<posted, store, run, licensed, wronged, spare>>

--------------------------------------------------------------------------------
(* set_product_hold *)

HoldStart(held) ==
    /\ run = Idle /\ NoDialog /\ game.paused /\ ProductFound("hold")
    /\ LET w == Observed(store) IN
       IF w.held = held THEN store' = w /\ UNCHANGED <<run, posted>>
       ELSE /\ game.stage # "none"
            /\ Clicks([do |-> "toggle"]) /\ UNCHANGED store
            /\ run' = [ cmd |-> "hold", pc |-> "check", w |-> w, save |-> game.save,
                        cfg |-> game.cfg, held |-> held, seen |-> store.iteration ]
    /\ told' = "nothing" /\ UNCHANGED <<game, licensed, wronged, spare>>

HoldCheck ==
    /\ At("hold", "check") /\ Settles
    /\ IF Continues /\ Observed(run.w).held = run.held
       THEN store' = Observed(run.w) ELSE UNCHANGED store
    /\ Ends("nothing")
    /\ UNCHANGED <<game, posted, licensed, wronged>>

--------------------------------------------------------------------------------
(* advance_product *)

(* In beta nothing is advanced; a completed review is opened, and the      *)
(* command ends there; a held project is resumed first.                    *)
ProductAdvance ==
    /\ run = Idle /\ posted = None /\ NoDialog /\ game.paused /\ ProductFound("advance")
    /\ LET w == Observed(store) IN
       \/ /\ w.stage = "beta"
          /\ store' = w /\ UNCHANGED <<game, posted, run>>
       \/ /\ w.stage # "beta" /\ game.review = "finished"
          /\ Clicks([do |-> "finish"]) /\ UNCHANGED <<game, store, run>>
       \/ /\ w.stage # "beta" /\ game.review # "finished" /\ w.held /\ game.stage # "none"
          /\ Clicks([do |-> "toggle"]) /\ ProductCommand("advance", "unheld", w)
          /\ UNCHANGED <<game, store>>
       \/ /\ w.stage # "beta" /\ game.review # "finished" /\ ~w.held
          /\ game' = [game EXCEPT !.scene = "play"]
          /\ Clicks([do |-> "resume"]) /\ ProductCommand("advance", "resumed", w)
          /\ UNCHANGED store
    /\ told' = "nothing" /\ UNCHANGED <<licensed, wronged, spare>>

ProductUnheld ==
    /\ At("advance", "unheld") /\ posted = None
    /\ LET w == Observed(run.w) IN
       IF Continues /\ ~w.held /\ game.paused
       THEN /\ store' = w /\ game' = [game EXCEPT !.scene = "play"]
            /\ Clicks([do |-> "resume"]) /\ GoTo("resumed", w) /\ UNCHANGED told
       ELSE Ends("nothing") /\ UNCHANGED <<game, store, posted>>
    /\ UNCHANGED <<licensed, wronged, spare>>

(* A clock that is not seen running ends the command, before the cleanup   *)
(* is in force.                                                            *)
ProductResumed ==
    /\ At("advance", "resumed") /\ Settles
    /\ IF Continues /\ ~game.paused THEN GoTo("running", run.w) /\ UNCHANGED told
                                    ELSE Ends("nothing")
    /\ UNCHANGED <<game, posted, store, licensed, wronged>>

(* _pause_after_interval, when the interval is over or interrupted: a clock  *)
(* seen running gets one click.                                            *)
ProductPause ==
    /\ At("advance", "running") /\ ~game.paused
    /\ \/ ~NoDialog /\ Ends("nothing") /\ UNCHANGED posted
       \/ NoDialog /\ Clicks([do |-> "pause"]) /\ GoTo("pausing", run.w) /\ UNCHANGED told
    /\ UNCHANGED <<game, store, licensed, wronged, spare>>

ProductAdvanced_Assumed ==
    /\ At("advance", "pausing") /\ Settles
    /\ IF Continues THEN store' = Observed(run.w) /\ Ends("paused")
                    ELSE Ends("nothing") /\ UNCHANGED store
    /\ UNCHANGED <<game, posted, licensed, wronged>>

(* The frame that shows the pause is recorded. *)
ProductAdvanced ==
    /\ \/ At("advance", "running") /\ game.paused /\ NoDialog /\ UNCHANGED spare
       \/ At("advance", "pausing") /\ Settles
    /\ IF Continues /\ game.paused
       THEN store' = Observed(run.w) /\ Ends("paused")
       ELSE Ends("nothing") /\ UNCHANGED store
    /\ UNCHANGED <<game, posted, licensed, wronged>>

--------------------------------------------------------------------------------
(* promote_product, review_product and iterate_product: the commitment is  *)
(* saved with its question, and asked.                                     *)

ProductAsks(what, w, of) ==
    LET asked == ProductAsking(w, what, of) IN
    store' = asked /\ ProductCommand(what, "ask", asked)

PromoteStart ==
    /\ run = Idle /\ NoDialog /\ game.paused /\ ProductFound("promote")
    /\ Observed(store).stage # "beta"
    /\ ProductAsks("promote", Observed(store), Observed(store).stage)
    /\ told' = "nothing" /\ UNCHANGED <<game, posted, licensed, wronged, spare>>

ProductReviewStart ==
    /\ run = Idle /\ posted = None /\ NoDialog /\ game.paused /\ ProductFound("review")
    /\ game.stage # "none" /\ game.review = "none" /\ game.scene \in {"play", "setup"}
    /\ ProductAsks("review", Observed(store), game.cfg)
    /\ game' = [game EXCEPT !.scene = "setup"]
    /\ told' = "nothing" /\ UNCHANGED <<posted, licensed, wronged, spare>>

IterateStart ==
    /\ run = Idle /\ NoDialog /\ game.paused /\ ProductFound("iterate")
    /\ game.scene = "result" /\ game.iteration < MaxIterations
    /\ ProductAsks("iterate", Observed(store), "")
    /\ told' = "nothing" /\ UNCHANGED <<game, posted, licensed, wronged, spare>>

(* Asked again on a fresh observation: stage, cost, window, and always the *)
(* save; the clock is not.                                                 *)
ProductUnchanged ==
    /\ Continues /\ game.stage # "none"
    /\ CASE run.cmd = "promote" -> NoDialog /\ game.stage = run.w.pending.terms.of
         [] run.cmd = "review"  -> game.scene = "setup" /\ game.cfg = run.w.pending.terms.of
         [] run.cmd = "iterate" -> game.scene = "result"

ProductCommit ==
    /\ OnProduct("commit") /\ run.cmd # "create"
    /\ IF ProductUnchanged
       THEN /\ Clicks([do |-> run.cmd]) /\ UNCHANGED told
            /\ GoTo("check", IF run.cmd = "promote" THEN Observed(run.w) ELSE run.w)
       ELSE Ends("nothing") /\ UNCHANGED posted
    /\ UNCHANGED <<game, store, licensed, wronged, spare>>

(* A dialog is confirmed, whichever it is. *)
PromoteConfirm ==
    /\ At("promote", "check") /\ ~NoDialog
    /\ IF Continues THEN Clicks([do |-> "confirm"]) /\ GoTo("confirmed", run.w) /\ UNCHANGED told
                    ELSE Ends("nothing") /\ UNCHANGED posted
    /\ UNCHANGED <<game, store, licensed, wronged, spare>>

After(stage) == IF stage = "design" THEN "alpha" ELSE "beta"

Effected_NotBelow ==
    CASE run.cmd = "promote" -> Observed(run.w).stage = After(run.w.pending.terms.of)
      [] run.cmd = "review"  -> game.review # "none"
      [] run.cmd = "iterate" -> Observed(run.w).iteration >= run.seen

(* The effect is seen: the next stage, the linked review, or an iteration  *)
(* above the one of the record the command was given.                      *)
Effected ==
    CASE run.cmd = "promote" -> Observed(run.w).stage = After(run.w.pending.terms.of)
      [] run.cmd = "review"  -> game.review # "none"
      [] run.cmd = "iterate" -> Observed(run.w).iteration > run.seen

ProductCheck ==
    /\ run # Idle /\ run.cmd \in {"promote", "review", "iterate"}
    /\ \/ run.pc = "confirmed"
       \/ run.pc = "check" /\ (run.cmd = "promote" => NoDialog)
    /\ Settles
    /\ IF Continues /\ Effected
       THEN store' = Observed(run.w)
            /\ Ends(IF run.cmd = "iterate" THEN "iterated" ELSE "committed")
       ELSE Ends("nothing") /\ UNCHANGED store
    /\ UNCHANGED <<game, posted, licensed, wronged>>

--------------------------------------------------------------------------------
(* The game: what a click does when it lands. *)

LandCreate ==
    /\ Landed /\ posted.do = "create" /\ game.scene = "config"
    /\ game' = [game EXCEPT !.scene = "play", !.fixed = {}, !.stage = "design",
                            !.held = FALSE, !.iteration = 0, !.review = "none", !.made = @ + 1]
    /\ Commits(ProductTerms("create", IF AsBounded THEN game.cfg ELSE "other", game.save))
    /\ UNCHANGED told

CanPromote == game.stage \in {"design", "alpha"}

Promoted == [game EXCEPT !.stage = After(@), !.dialog = None, !.scene = "play",
                         !.review = "none"]

LandPromote ==
    /\ Landed /\ posted.do = "promote" /\ CanPromote /\ NoDialog
    /\ \/ game' = [game EXCEPT !.dialog = "promote"] /\ UNCHANGED <<licensed, wronged>>
       \/ game' = Promoted /\ Commits(ProductTerms("promote", game.stage, game.save))
    /\ UNCHANGED told

LandPromoteConfirm ==
    /\ Landed /\ posted.do = "confirm" /\ game.dialog = "promote" /\ CanPromote
    /\ game' = Promoted /\ Commits(ProductTerms("promote", game.stage, game.save))
    /\ UNCHANGED told

LandProductReview ==
    /\ Landed /\ posted.do = "review" /\ game.scene = "setup" /\ NoDialog
    /\ game' = [game EXCEPT !.review = "running", !.scene = "play"]
    /\ Commits(ProductTerms("review", game.cfg, game.save))
    /\ UNCHANGED told

LandIterate ==
    /\ Landed /\ posted.do = "iterate" /\ game.scene = "result"
    /\ game' = [game EXCEPT !.iteration = @ + 1, !.review = "none", !.scene = "play"]
    /\ Commits(ProductTerms("iterate", "", game.save))
    /\ UNCHANGED told

ProductReversible ==
    /\ Landed
    /\ \/ posted.do = "toggle" /\ game' = [game EXCEPT !.held = ~@]
       \/ posted.do = "resume" /\ game' = [game EXCEPT !.paused = FALSE]
       \/ posted.do = "pause" /\ game' = [game EXCEPT !.paused = TRUE]
       \/ posted.do = "finish" /\ game' = [game EXCEPT !.scene = "result"]
       \/ posted.do = "confirm" /\ game.dialog = "notice"
            /\ game' = [game EXCEPT !.dialog = None]
    /\ UNCHANGED <<licensed, wronged, told>>

ProductNowhere ==
    /\ Landed
    /\ CASE posted.do = "create"  -> game.scene # "config"
         [] posted.do = "promote" -> ~CanPromote \/ ~NoDialog
         [] posted.do = "confirm" -> NoDialog \/ (game.dialog = "promote" /\ ~CanPromote)
         [] posted.do = "review"  -> game.scene # "setup" \/ ~NoDialog
         [] posted.do = "iterate" -> game.scene # "result"
         [] OTHER -> FALSE
    /\ UNCHANGED <<game, licensed, wronged, told>>

(* The market moves by the month and an event opens its dialog, not between *)
(* a frame and the click aimed with it.                                    *)
ProductTime ==
    \/ game.review = "running" /\ Passes([game EXCEPT !.review = "finished"])
    \/ NoDialog /\ posted = None /\ Passes([game EXCEPT !.dialog = "notice"])
    \/ /\ game.scene = "config" /\ posted = None
       /\ \E cfg \in Configs \ {game.cfg} : Passes([game EXCEPT !.cfg = cfg])

ProductMeddling ==
    \/ Meddles([game EXCEPT !.paused = ~@])
    \/ game.scene \in {"config", "setup"}
         /\ \E cfg \in Configs \ {game.cfg} : Meddles([game EXCEPT !.cfg = cfg])
    \/ game.scene = "config" /\ \E field \in game.fixed : Meddles([game EXCEPT !.fixed = @ \ {field}])
    \/ game.scene # "play" /\ Meddles([game EXCEPT !.scene = "play", !.fixed = {}])
    \/ CanPromote /\ NoDialog /\ Meddles(Promoted)
    \/ ~NoDialog /\ Meddles([game EXCEPT !.dialog = None])
    \/ CanPromote /\ Meddles([game EXCEPT !.held = ~@])
    \/ CanPromote /\ Meddles([game EXCEPT !.stage = "none", !.dialog = None, !.review = "none",
                                          !.scene = "play"])
    \/ game.save = 1 /\ Meddles([game EXCEPT !.save = 2])

ProductNext ==
    \/ Stopped \/ Lost \/ ProductAnswered
    \/ AtlasStart \/ OpenDesign \/ SetType \/ SetName \/ SetPrice \/ SetTeams \/ SetFeatures
    \/ SetSystems \/ AtlasRefused \/ AtlasAsk \/ AtlasCommit \/ AtlasCheck
    \/ CloseConfiguration
    \/ \E held \in BOOLEAN : HoldStart(held)
    \/ HoldCheck
    \/ ProductAdvance \/ ProductUnheld \/ ProductResumed \/ ProductPause
    \/ ProductAdvanced
    \/ PromoteStart \/ ProductReviewStart \/ IterateStart
    \/ ProductCommit \/ PromoteConfirm \/ ProductCheck
    \/ LandCreate \/ LandPromote \/ LandPromoteConfirm \/ LandProductReview \/ LandIterate
    \/ ProductReversible \/ ProductNowhere
    \/ ProductTime \/ ProductMeddling

ProductSpec == ProductInit /\ [][ProductNext]_vars

================================================================================
