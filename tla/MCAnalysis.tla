------------------------------ MODULE MCAnalysis ------------------------------
(* Two processes over one directory and one game, for TLC. *)
EXTENDS AnalysisDesk, TLC

CONSTANTS p1, p2

MCAsk == [ kind |-> "ask", fresh |-> FALSE, follow |-> FALSE, codex |-> FALSE,
           explain |-> FALSE ]

(* One asks about what was shown before and has Codex explain, or has      *)
(* Codex read the question; the other analyses directly, or inspects what  *)
(* was shown before in a fresh snapshot.                                   *)
MCOptions ==
    p1 :> { [MCAsk EXCEPT !.follow = TRUE, !.explain = TRUE],
            [MCAsk EXCEPT !.codex = TRUE] }
    @@ p2 :> { [MCAsk EXCEPT !.kind = "direct"],
               [MCAsk EXCEPT !.kind = "inspect", !.fresh = TRUE] }

================================================================================
