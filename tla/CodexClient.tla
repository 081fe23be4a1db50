------------------------------ MODULE CodexClient ------------------------------
(***************************************************************************)
(* One request to the local Codex CLI (provider_support/codex_cli/         *)
(* client.py): an empty directory of its own, a child process with a       *)
(* prompt on its standard input, bounded output, a timeout, and an answer  *)
(* accepted only if the events and the output file agree on it.            *)
(*                                                                         *)
(* A caller has one call at a time.  What a call keeps:                    *)
(*   pc      where execute is                                              *)
(*   child   "none", "running", or "exited" and not yet reaped             *)
(*   dir     whether the directory exists                                  *)
(*   answer  what was accepted; None until then, and after an error        *)
(*   told    whether that error says that something was left behind        *)
(***************************************************************************)
CONSTANTS
    Callers,
    None,
    Answers     \* "sound" or "useless", for the caller to judge

VARIABLE calls

NoCall == [ pc |-> "none", child |-> "none", dir |-> FALSE, answer |-> None,
            told |-> FALSE ]

InitCalls == calls = [c \in Callers |-> NoCall]

At(c, pc) == calls[c].pc = pc
Becomes(c, call) == calls' = [calls EXCEPT ![c] = call]

(* A new request; what an earlier one left behind is not this one's.       *)
NewCall == [NoCall EXCEPT !.pc = "directory"]

(* What an exited child has left: its exit code and stderr, the events     *)
(* (complete or not, with a final message) and the output file.            *)
Outputs ==
    [ failed : BOOLEAN, completed : BOOLEAN,
      file : Answers \cup {None}, message : Answers \cup {None} ]

(* _raise_terminal_failure and the checks after it. *)
Accepted(o) ==
    /\ ~o.failed /\ o.completed
    /\ o.file # None
    /\ o.message = o.file

--------------------------------------------------------------------------------
(* The directory and the schema in it. *)
PrepareCall(c) ==
    LET call == calls[c] IN
    /\ At(c, "directory")
    /\ \/ Becomes(c, [call EXCEPT !.pc = "spawn", !.dir = TRUE])
       \/ Becomes(c, [call EXCEPT !.pc = "cleanup", !.dir = TRUE])
       \/ Becomes(c, [call EXCEPT !.pc = "returned"])

Spawn(c) ==
    LET call == calls[c] IN
    /\ At(c, "spawn")
    /\ \/ Becomes(c, [call EXCEPT !.pc = "wait", !.child = "running"])
       \/ Becomes(c, [call EXCEPT !.pc = "cleanup"])

(* The child ends by itself, or because it was told to.  It need not. *)
ChildExits(c) ==
    /\ calls[c].child = "running"
    /\ calls' = [calls EXCEPT ![c].child = "exited"]

Finished(c) ==
    LET call == calls[c] IN
    /\ At(c, "wait") /\ call.child = "exited"
    /\ \E o \in Outputs :
          Becomes(c, [call EXCEPT !.pc = "cleanup", !.child = "none",
                          !.answer = IF Accepted(o) THEN o.file ELSE None])

(* The timeout passes, or the child has written too much. *)
Abandon_Never(c) == FALSE /\ UNCHANGED calls

Abandon(c) ==
    /\ At(c, "wait")
    /\ Becomes(c, [calls[c] EXCEPT !.pc = "terminate"])

(* _terminate: nothing to do for a child that has ended; else SIGTERM, two *)
(* seconds, SIGKILL, two seconds, and CodexCLIProcessTerminationError.     *)
Reaped(call) == [call EXCEPT !.pc = "cleanup", !.child = "none"]

Terminate(c) ==
    LET call == calls[c] IN
    /\ At(c, "terminate")
    /\ Becomes(c, IF call.child = "exited" THEN Reaped(call)
                                           ELSE [call EXCEPT !.pc = "terminated"])

Stopped(c) ==
    /\ calls[c].pc \in {"terminated", "killed"} /\ calls[c].child = "exited"
    /\ Becomes(c, Reaped(calls[c]))

Kill(c) ==
    /\ At(c, "terminated") /\ calls[c].child = "running"
    /\ Becomes(c, [calls[c] EXCEPT !.pc = "killed"])

GiveUp_Quietly(c) ==
    /\ At(c, "killed") /\ calls[c].child = "running"
    /\ Becomes(c, [calls[c] EXCEPT !.pc = "cleanup"])

GiveUp(c) ==
    /\ At(c, "killed") /\ calls[c].child = "running"
    /\ Becomes(c, [calls[c] EXCEPT !.pc = "cleanup", !.told = TRUE])

(* rmtree.  A failure of it is raised, or noted on the error under way. *)
Cleanup(c) ==
    LET call == calls[c] IN
    /\ At(c, "cleanup")
    /\ \/ Becomes(c, [call EXCEPT !.pc = "returned", !.dir = FALSE])
       \/ Becomes(c, [call EXCEPT !.pc = "returned", !.answer = None,
                          !.told = TRUE])

CallStep(c) ==
    \/ PrepareCall(c) \/ Spawn(c) \/ Finished(c) \/ Abandon(c) \/ Terminate(c)
    \/ Stopped(c) \/ Kill(c) \/ GiveUp(c) \/ Cleanup(c)

--------------------------------------------------------------------------------
(* A call that has returned leaves no process and no directory, unless its *)
(* error says so ("could not be terminated", "could not remove").          *)
NothingLeft ==
    \A c \in Callers :
        At(c, "returned") /\ ~calls[c].told
            => calls[c].child = "none" /\ ~calls[c].dir

================================================================================
