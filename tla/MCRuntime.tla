------------------------------- MODULE MCRuntime -------------------------------
(***************************************************************************)
(* Instances of the runtime for TLC.  A simulation state is the level of   *)
(* the resource the task is to raise to 2; level 3 is a lost simulation.   *)
(*   build   one level up                                                  *)
(*   loan    two levels up; needs approval                                 *)
(*   raze    back to 0; the task's constraints forbid it                   *)
(***************************************************************************)
EXTENDS RuntimeInvariants, TLC

CONSTANTS r1, r2, o1, o2, build, loan, raze

(* Processes of a kind are interchangeable. *)
Processes == Permutations({r1, r2}) \cup Permutations({o1, o2})

Levels == 0..3

ReferenceEffect ==
    [a \in {build, loan, raze} |->
        [s \in Levels |->
            IF s = 3 THEN 3
            ELSE CASE a = build -> s + 1
                   [] a = loan  -> IF s = 0 THEN 2 ELSE 3
                   [] a = raze  -> 0]]

ReferenceCost == build :> 2 @@ loan :> 1 @@ raze :> 0

(* An in-memory simulation is judged as a whole. *)
WholeLevel == [a \in {build, loan, raze} |-> [s \in Levels |-> s]]

AllButRaze == {build, loan} \X Levels

(***************************************************************************)
(* An external game: its state is a setting (a name) and a date that       *)
(* passes by itself.  Actions change only the setting and are judged by    *)
(* it; they are free, as OpenTTD's are.                                    *)
(***************************************************************************)
CONSTANTS old, new

Games == {<<old, 1>>, <<new, 1>>, <<new, 2>>}

GameEffect == [a \in {build} |->
    [g \in Games |-> IF g[1] = old THEN <<new, 1>> ELSE g]]

Setting == [a \in {build} |-> [g \in Games |-> g[1]]]

Free == [a \in {build} |-> 0]

AnyAction == {build} \X Games
FirstGame == <<old, 1>>
RenamedLater == {<<new, 2>>}

================================================================================
