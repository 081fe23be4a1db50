---------------------------- MODULE BridgeProperties ----------------------------
(***************************************************************************)
(* What the OpenTTD bridge promises.                                       *)
(***************************************************************************)
EXTENDS GameScriptBridge

--------------------------------------------------------------------------------
(* Commands. *)

(* The step changes the name by a command, for which it logs an entry. *)
Executes == Len(log') > Len(log)
NewEntry == log'[Len(log')]

Newest(s, n) == {s[i] : i \in {j \in DOMAIN s : j > Len(s) - n}}

(* A command that this timeline of the game has completed is not carried   *)
(* out again under its ID while the ledger can hold it, whatever saves and *)
(* loads come between: the ledger is saved and loaded with the world it    *)
(* changed (HandleCommand, Save, Load).                                    *)
CompletedCommandsRunOnce ==
    [][Executes => NewEntry.id \notin Newest(game.completed, LedgerLimit)]_vars

(* A client that was told of success has a change of the name to show for  *)
(* it, made under its command's ID and before the snapshot that verified   *)
(* it was taken, although every client hears the answers to all            *)
(* (execute_set_company_name).                                             *)
SuccessIsReal ==
    \A c \in Clients : client[c].outcome = "success" =>
        \E i \in DOMAIN log :
            /\ log[i].id = client[c].command.id /\ log[i].name = client[c].command.name
            /\ log[i].at < client[c].snap.number

(* A command changes the name only if it was decided on the newest capture *)
(* of the game it changes (prior_snapshot_id).  A saved game that is       *)
(* loaded brings sequence numbers and the script's idea of its last        *)
(* snapshot back; a client that is alone with the game is stopped by the   *)
(* gap before an older decision of its can be taken for a new one.         *)
DecidedOnTheNewestCapture ==
    \A i \in DOMAIN log : log[i].decided = log[i].newest

(* A process that resumed a task changes only the game the task was        *)
(* started on (reject_instance_change).                                    *)
ResumedInTheSameGame ==
    \A i \in DOMAIN log : log[i].home \in {0, log[i].inst}

--------------------------------------------------------------------------------
(* Synchronization. *)

(* A synchronized client has a snapshot and a whole world of one capture,  *)
(* both taken after it asked, although handshakes of other requests and    *)
(* the remains of interrupted ones are on the same connection              *)
(* (synchronize).                                                          *)
Rested(k) == k.phase = "idle" /\ k.state = "synchronized"

TakenAfterAsking(k) == k.snap.number > k.since /\ \A n \in k.world : n > k.since

SynchronizedIsFresh ==
    \A c \in Clients : Rested(client[c]) =>
        TakenAfterAsking(client[c]) /\ Cardinality(client[c].world) = 1

(* Once the game is left alone, a client that retries is synchronized and  *)
(* stays so: what a load or a new game left behind cannot make every later *)
(* synchronization fail (_seen_message_ids.clear).                         *)
EventuallySynchronized == \A c \in Clients : <>[](client[c].state = "synchronized")

================================================================================
