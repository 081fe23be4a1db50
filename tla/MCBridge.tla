-------------------------------- MODULE MCBridge --------------------------------
(* Instances of the bridge for TLC. *)
EXTENDS BridgeProperties, TLC

CONSTANTS c1, cmd1, cmd2

(* Command ids are interchangeable. *)
Ids == Permutations({cmd1, cmd2})

Never == [kind \in Kinds |-> 0]

(* One client of a game that is saved and loaded, which synchronizes       *)
(* again whenever it has to.                                               *)
SavesBudget ==
    "synchronize" :> 4 @@ "verify" :> 1 @@ "command" :> 2
    @@ "save" :> 1 @@ "load" :> 1 @@ Never

(* A game with other clients, which may be replaced; answers may be late,  *)
(* and the process may end and resume its task.                            *)
SharedBudget ==
    "synchronize" :> 2 @@ "command" :> 2 @@ "timeout" :> 1 @@ "other" :> 1
    @@ "process" :> 1 @@ "new_game" :> 1 @@ Never

================================================================================
