---------------------------- MODULE TrainingOperator ----------------------------
(***************************************************************************)
(* The education operator (software_inc/training/): one employee takes     *)
(* three courses in a row, each bought after a question of its own, and    *)
(* time is given in bounded intervals until a course is over.              *)
(*                                                                         *)
(*   game.scene    play or education (with chosen: the employee, the role  *)
(*                 and the specialization are the ones of the plan)        *)
(*   game.level    the specialization level; course: one is being taken    *)
(*   game.paid     courses paid for, by anybody's input                    *)
(*   store         the last workflow of the first save, or None            *)
(*   run.paid      the courses paid for when the commitment was clicked    *)
(***************************************************************************)
EXTENDS FounderDesk

(* TrainingWorkflow.requested_months, _COURSE_COST_BY_LEVEL: the window     *)
(* shows the price of the course at the level the employee has now.        *)
Courses == 3

Price(level) == CASE level = 0 -> 600 [] level = 1 -> 2000 [] level = 2 -> 5000 [] OTHER -> 0

TrainingInit ==
    /\ store = None
    /\ \E paused \in BOOLEAN :
         game = [ desk |-> "training", save |-> 1, paused |-> paused, scene |-> "play",
                  chosen |-> FALSE, dialog |-> None, level |-> 0,
                  course |-> FALSE, paid |-> 0 ]
    /\ DeskInit

--------------------------------------------------------------------------------
(* workflow.py and store.py. *)

CourseTerms(level, save) ==
    [what |-> "course", level |-> level, cost |-> Price(level), save |-> save]

(* create_training_workflow, _next_stage_approval *)
NextCourse(w) ==
    [w EXCEPT !.status = "waiting",
              !.pending = [terms |-> CourseTerms(game.level, w.save),
                           answer |-> "open"]]

NewCurriculum == NextCourse([ save |-> game.save, status |-> "waiting", completed |-> 0,
                              level |-> game.level, spent |-> 0, pending |-> None ])

TrainingOpen(w) == w # None /\ w.status \notin {"completed", "blocked"}

OneGain_Assumed(w) == TRUE

(* A course that was active and is gone has raised the level by one. *)
OneGain(w) == w.status = "active" /\ ~game.course => game.level = w.completed + 1

(* synchronize_training, of a workflow that has one gain at most. *)
Trained(w) ==
    LET seen == [w EXCEPT !.level = game.level]
        over == [seen EXCEPT !.completed = @ + 1] IN
    IF game.course THEN [seen EXCEPT !.status = "active"]
    ELSE IF w.status # "active" THEN seen
    ELSE IF game.level >= Courses THEN [over EXCEPT !.status = "completed", !.pending = None]
    ELSE NextCourse(over)

--------------------------------------------------------------------------------
SameTrainingSave == game.save = run.w.save

NoModal == game.dialog = None

TrainingCommand(cmd, pc, w) ==
    run' = [cmd |-> cmd, pc |-> pc, w |-> w, paid |-> game.paid] /\ told' = "nothing"

(* recommend_training: not in a course, and three more are not too many.    *)
Trainable == ~game.course /\ game.level + 3 <= Courses

(* start_training, as the command line calls it: an open workflow must be  *)
(* waiting for its next course, at the level and the price of its          *)
(* question; without one an employee is recommended.                       *)
TrainingStart ==
    /\ run = Idle /\ NoModal /\ game.save = 1 /\ ~game.course
    /\ IF TrainingOpen(store)
       THEN /\ store.status = "waiting" /\ store.pending # None
            /\ store.pending.terms = CourseTerms(game.level, game.save)
            /\ TrainingCommand("educate", "setup", store) /\ UNCHANGED store
       ELSE /\ Trainable
            /\ store' = NewCurriculum /\ TrainingCommand("educate", "setup", NewCurriculum)
    /\ UNCHANGED <<game, posted, licensed, wronged, spare>>

(* The reversible gestures: pause, open the window, choose. *)
EducationGesture ==
    /\ At("educate", "setup") /\ posted = None /\ SameTrainingSave /\ NoModal
    /\ \/ game.scene = "play" /\ ~game.paused /\ game' = [game EXCEPT !.paused = TRUE]
       \/ game.scene = "play" /\ game.paused
            /\ game' = [game EXCEPT !.scene = "education", !.chosen = FALSE]
       \/ game.scene = "education" /\ ~game.chosen /\ game' = [game EXCEPT !.chosen = TRUE]
    /\ UNCHANGED <<posted, store, run, licensed, wronged, told, spare>>

EducationRefused ==
    /\ At("educate", "setup")
    /\ \/ ~SameTrainingSave \/ ~NoModal
       \/ game.scene = "education" /\ game.chosen /\ Price(game.level) # run.w.pending.terms.cost
    /\ Ends("nothing")
    /\ UNCHANGED <<game, posted, store, licensed, wronged, spare>>

ChosenCourse == /\ game.scene = "education" /\ game.chosen
                /\ Price(game.level) = run.w.pending.terms.cost

EducationAsk ==
    /\ At("educate", "setup") /\ SameTrainingSave /\ NoModal /\ ChosenCourse
    /\ GoTo("ask", run.w)
    /\ UNCHANGED <<game, posted, store, licensed, wronged, told, spare>>

(* resolve_training_approval *)
EducationAnswered ==
    /\ At("educate", "ask")
    /\ \E yes \in BOOLEAN :
         LET w == [run.w EXCEPT !.pending.answer = IF yes THEN "yes" ELSE "no",
                                !.status = IF yes THEN "planned" ELSE "blocked"] IN
         /\ store' = w
         /\ IF yes THEN GoTo("commit", w) /\ SaysYes(w.pending.terms) /\ UNCHANGED told
                   ELSE Ends("nothing") /\ UNCHANGED licensed
    /\ UNCHANGED <<game, posted, wronged, spare>>

(* Employee, role, specialization and price are read again. *)
EducationCommit ==
    /\ At("educate", "commit")
    /\ IF SameTrainingSave /\ NoModal /\ ChosenCourse
       THEN /\ Clicks([do |-> "educate"]) /\ UNCHANGED told
            /\ run' = [run EXCEPT !.pc = "check", !.paid = game.paid]
       ELSE Ends("nothing") /\ UNCHANGED posted
    /\ UNCHANGED <<game, store, licensed, wronged, spare>>

EducationCheck_Charged ==
    /\ At("educate", "check") /\ Settles
    /\ IF SameTrainingSave
       THEN store' = Trained([run.w EXCEPT !.spent = @ + 1]) ELSE UNCHANGED store
    /\ Ends("nothing")
    /\ UNCHANGED <<game, posted, licensed, wronged>>

(* The course is active and the cash has gone down by its price. *)
EducationCheck ==
    /\ At("educate", "check") /\ Settles
    /\ IF SameTrainingSave /\ game.course /\ game.paid = run.paid + 1
       THEN store' = Trained([run.w EXCEPT !.spent = @ + 1]) ELSE UNCHANGED store
    /\ Ends("nothing")
    /\ UNCHANGED <<game, posted, licensed, wronged>>

--------------------------------------------------------------------------------
(* advance_training *)

(* A course that is over suspends the curriculum for the next question, or *)
(* completes it, without time; else time is given to the active course.    *)
TrainingAdvance ==
    /\ run = Idle /\ NoModal /\ TrainingOpen(store) /\ store.save = game.save /\ OneGain(store)
    /\ LET w == Trained(store) IN
       \/ /\ w.status \in {"completed", "waiting"}
          /\ store' = w /\ told' = "nothing" /\ UNCHANGED <<game, posted, run>>
       \/ /\ w.status \notin {"completed", "waiting"} /\ game.course /\ game.paused
          /\ game' = [game EXCEPT !.scene = "play"] /\ UNCHANGED store
          /\ Clicks([do |-> "resume"]) /\ TrainingCommand("train", "resumed", w)
    /\ UNCHANGED <<licensed, wronged, spare>>

(* As for products: a clock not seen running ends the command. *)
TrainingResumed ==
    /\ At("train", "resumed") /\ Settles
    /\ IF SameTrainingSave /\ ~game.paused THEN GoTo("running", run.w) /\ UNCHANGED told
                                           ELSE Ends("nothing")
    /\ UNCHANGED <<game, posted, store, licensed, wronged>>

(* _pause_after_bounded_interval *)
TrainingPause ==
    /\ At("train", "running") /\ ~game.paused
    /\ \/ ~NoModal /\ Ends("nothing") /\ UNCHANGED posted
       \/ NoModal /\ Clicks([do |-> "pause"]) /\ GoTo("pausing", run.w) /\ UNCHANGED told
    /\ UNCHANGED <<game, store, licensed, wronged, spare>>

TrainingAdvanced ==
    /\ \/ At("train", "running") /\ game.paused /\ NoModal /\ UNCHANGED spare
       \/ At("train", "pausing") /\ Settles
    /\ IF SameTrainingSave /\ game.paused /\ OneGain(run.w)
       THEN store' = Trained(run.w) /\ Ends("paused")
       ELSE Ends("nothing") /\ UNCHANGED store
    /\ UNCHANGED <<game, posted, licensed, wronged>>

--------------------------------------------------------------------------------
(* The game. *)

LandCourse ==
    /\ Landed /\ posted.do = "educate" /\ game.scene = "education" /\ game.chosen
    /\ ~game.course /\ game.level < Courses
    /\ game' = [game EXCEPT !.course = TRUE, !.paid = @ + 1, !.scene = "play"]
    /\ Commits(CourseTerms(game.level, game.save))
    /\ UNCHANGED told

LandClock ==
    /\ Landed /\ posted.do \in {"pause", "resume"}
    /\ game' = [game EXCEPT !.paused = posted.do = "pause"]
    /\ UNCHANGED <<licensed, wronged, told>>

CourseNowhere ==
    /\ Landed /\ posted.do = "educate"
    /\ game.scene # "education" \/ ~game.chosen \/ game.course \/ game.level = Courses
    /\ UNCHANGED <<game, licensed, wronged, told>>

(* A course ends with the month, not between a frame and the click aimed    *)
(* with it.                                                                *)
TrainingTime ==
    /\ game.course /\ posted # [do |-> "educate"]
    /\ Passes([game EXCEPT !.course = FALSE, !.level = @ + 1])

(* The founder also buys and cancels courses, and dismisses dialogs. *)
TrainingMeddling ==
    \/ Meddles([game EXCEPT !.paused = ~@])
    \/ game.scene = "education" /\ Meddles([game EXCEPT !.scene = "play"])
    \/ game.scene = "education" /\ Meddles([game EXCEPT !.chosen = ~@])
    \/ game.level < Courses /\ ~game.course
         /\ Meddles([game EXCEPT !.course = TRUE, !.paid = @ + 1, !.scene = "play"])
    \/ game.course /\ Meddles([game EXCEPT !.course = FALSE])
    \/ Meddles([game EXCEPT !.dialog = IF @ = None THEN "notice" ELSE None])
    \/ game.save = 1 /\ Meddles([game EXCEPT !.save = 2])

TrainingNext ==
    \/ Stopped \/ Lost
    \/ TrainingStart \/ EducationGesture \/ EducationRefused \/ EducationAsk
    \/ EducationAnswered \/ EducationCommit \/ EducationCheck
    \/ TrainingAdvance \/ TrainingResumed \/ TrainingPause \/ TrainingAdvanced
    \/ LandCourse \/ LandClock \/ CourseNowhere \/ TrainingTime \/ TrainingMeddling

TrainingSpec == TrainingInit /\ [][TrainingNext]_vars

================================================================================
