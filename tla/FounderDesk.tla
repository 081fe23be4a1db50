------------------------------- MODULE FounderDesk -------------------------------
(***************************************************************************)
(* What the Software Inc. commands share.  One command of the program at a *)
(* time works on a visible game through clicks, with a founder at the same *)
(* keyboard.  A command is a process that can end between any two steps,   *)
(* because it raises or is killed; the tables it writes stay.              *)
(*                                                                         *)
(*   game      the game: its clock (paused), the save that is loaded, the  *)
(*             window that is open and the project the desk is about       *)
(*   posted    a click handed to CoreGraphics and not yet seen by the game *)
(*   store     the workflow tables                                         *)
(*   run       the running command and what it holds in memory             *)
(*   licensed  history: commitments the founder said yes to and that no    *)
(*             input of the program has made yet                           *)
(*   wronged   history: the latest commitment an input of the program made *)
(*             without a yes to it, and what there was a yes to then       *)
(*   told      what the last command that finished told the founder        *)
(*   spare     how many disturbances are still to come                     *)
(***************************************************************************)
EXTENDS Integers, FiniteSets

CONSTANTS
    None,
    Configs,        \* what a window shows that a commitment's terms depend on
    Disturbances    \* bound, for each desk: commands that end in the middle,
                    \* clicks that are lost or late, what the founder does

Desks == {"contracts", "products", "training", "staffing", "office", "workstation", "clock"}

ASSUME DeskAssumption == Disturbances \in [Desks -> Nat]

VARIABLES game, posted, store, run, licensed, wronged, told, spare

vars == <<game, posted, store, run, licensed, wronged, told, spare>>

Idle == [cmd |-> "none"]

(* The history half of Init. *)
DeskInit ==
    /\ posted = None /\ run = Idle /\ licensed = {} /\ wronged = None /\ told = "nothing"
    /\ spare = Disturbances[game.desk]

--------------------------------------------------------------------------------
(* The steps a command is made of.  Each operator's action is one or two of *)
(* them under the conditions of its source.                                *)

At(cmd, pc) == run.cmd = cmd /\ run.pc = pc

GoTo(pc, w) == run' = [run EXCEPT !.pc = pc, !.w = w]

To(pc) == run' = [run EXCEPT !.pc = pc]

Ends(say) == run' = Idle /\ told' = say

(* backend.execute: the event is posted and the call returns.  The frame it *)
(* is aimed with was captured by the observation that resolved the target, *)
(* and is compared with a new one when it is older than two seconds: the   *)
(* observation and the click are one step.                                 *)
Clicks(click) == posted = None /\ posted' = click

(* typer.confirm, asked with the terms of one commitment. *)
SaysYes(terms) == licensed' = licensed \cup {terms}

(* A plan and its answer that are held in memory end with their command:   *)
(* no later command uses them.                                             *)
Anew == IF posted = None THEN {} ELSE licensed

Wrong(terms) == [terms |-> terms, licensed |-> licensed]

(* An input of the program makes the commitment terms, which uses the yes   *)
(* to it; or, where there is none, whatever yes it was sent for.           *)
Commits(terms) ==
    IF terms \in licensed
    THEN licensed' = licensed \ {terms} /\ UNCHANGED wronged
    ELSE licensed' = {} /\ wronged' = Wrong(terms)

(* A commitment to a state of the game: made twice it is made once.         *)
Sets(terms) ==
    /\ wronged' = IF terms \in licensed THEN wronged ELSE Wrong(terms)
    /\ UNCHANGED licensed

--------------------------------------------------------------------------------
(* The disturbances. *)

Disturbed == spare > 0 /\ spare' = spare - 1

(* The command raises, is interrupted or is killed. *)
Stopped ==
    /\ run # Idle /\ Disturbed
    /\ Ends("nothing")
    /\ UNCHANGED <<game, posted, store, licensed, wronged>>

(* A posted click that never reaches the game. *)
Lost ==
    /\ posted # None /\ Disturbed
    /\ posted' = None
    /\ UNCHANGED <<game, store, run, licensed, wronged, told>>

(* The observation after a click is usually made after the game has seen   *)
(* it (_POST_GESTURE_SETTLE_SECONDS); a late click is seen after it.       *)
Settles ==
    \/ posted = None /\ UNCHANGED spare
    \/ posted # None /\ Disturbed

(* Input is handled in order: what the founder does comes after every click *)
(* that has been posted before.                                            *)
Meddles(changed) ==
    /\ posted = None /\ Disturbed
    /\ game' = changed /\ told' = "nothing"
    /\ UNCHANGED <<posted, store, run, licensed, wronged>>

(* The clock is not at rest: the game goes on by itself. *)
Passes(changed) ==
    /\ ~game.paused
    /\ game' = changed /\ told' = "nothing"
    /\ UNCHANGED <<posted, store, run, licensed, wronged, spare>>

(* The game sees the posted click, which does what is under it now. *)
Landed == posted # None /\ posted' = None /\ UNCHANGED <<store, run, spare>>

================================================================================
