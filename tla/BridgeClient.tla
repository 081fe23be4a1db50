------------------------------ MODULE BridgeClient ------------------------------
(***************************************************************************)
(* The Sim Pilot half of the OpenTTD bridge (openttd/gamescript/client.py):*)
(* what GameScriptBridgeClient keeps, and what each received message does  *)
(* to it.  A client is a record:                                           *)
(*                                                                         *)
(*   phase      the method that is running: idle, syncing (synchronize),   *)
(*              probing (verify_identity), commanding (the wait in         *)
(*              execute_set_company_name), verifying (its last refresh)    *)
(*   state      health.synchronization_state                               *)
(*   inst, last health.script_instance_id (0: none) and last_sequence      *)
(*   snap       health.snapshot                                            *)
(*   world      health.world_snapshot: the captures its parts are from     *)
(*   seen       _seen_message_ids                                          *)
(*   manifest, pages   _world_manifest, _world_pages                       *)
(*   request, got      request_id and the got_ flags of a synchronization  *)
(*   command, accepted, outcome   the command, and how it ended            *)
(*   rejecting  reject_instance_change                                     *)
(*   home       history: the instance of the last complete synchronization *)
(*   since      history: captures taken when the synchronization began     *)
(***************************************************************************)
EXTENDS BridgeScript

Summary == {"hello", "capabilities", "resync_response", "state_snapshot"}

NewClient ==
    [ phase |-> "idle", state |-> "disconnected", inst |-> 0, last |-> 0,
      snap |-> None, world |-> {}, seen |-> {}, manifest |-> None, pages |-> {},
      request |-> 0, got |-> {}, command |-> None, accepted |-> FALSE,
      outcome |-> "none", rejecting |-> FALSE, home |-> 0, since |-> 0 ]

(* A process that resumes a task starts from the health the task persisted *)
(* and is tied to its script instance; the rest of that health is replaced *)
(* by the synchronization it must begin with.                              *)
Resumed(k) == [NewClient EXCEPT !.inst = k.home, !.home = k.home, !.rejecting = TRUE]

Requesting_KeepsSeen(k, phase, request, captures) ==
    [k EXCEPT !.phase = phase, !.state = "resynchronizing", !.got = {},
              !.request = request, !.since = captures]

(* synchronize and verify_identity begin: a resync_request is sent, and a  *)
(* new window for detecting duplicates opens.                              *)
Requesting(k, phase, request, captures) ==
    [k EXCEPT !.phase = phase, !.state = "resynchronizing", !.seen = {}, !.got = {},
              !.request = request, !.since = captures]

--------------------------------------------------------------------------------
(* _receive: what may be received at all. *)

MessageId(m) == Id(m.inst, m.seq)

Changes(k, m) == k.inst # 0 /\ m.inst # k.inst

Baseline(k) == k.phase \in {"syncing", "probing", "verifying"}

Refused_AnyInstance(k, m) ==
    \/ MessageId(m) \in k.seen
    \/ Changes(k, m) /\ ~Baseline(k)
    \/ ~Baseline(k) /\ k.inst = m.inst /\ m.seq # k.last + 1

(* BridgeSequenceError: a duplicate; another script instance; a gap outside *)
(* a synchronization.                                                       *)
Refused(k, m) ==
    \/ MessageId(m) \in k.seen
    \/ Changes(k, m) /\ (k.rejecting \/ ~Baseline(k))
    \/ ~Baseline(k) /\ k.inst = m.inst /\ m.seq # k.last + 1

Received(k, m) ==
    [k EXCEPT !.inst = m.inst, !.last = m.seq,
              !.seen = (IF Changes(k, m) THEN {} ELSE @) \cup {MessageId(m)}]

--------------------------------------------------------------------------------
(* The _accept_ methods. *)

WithSnapshot(k, b) == [k EXCEPT !.snap = [id |-> b.ref, name |-> b.name, number |-> b.number]]

WithManifest(k, b) ==
    [k EXCEPT !.manifest = [ref |-> b.ref, number |-> b.number], !.pages = {}]

OfManifest(k, b) == k.manifest # None /\ b.ref = k.manifest.ref

PageFits(k, b) == OfManifest(k, b) /\ \A p \in k.pages : p.index # b.index

WithPage(k, b) == [k EXCEPT !.pages = @ \cup {[index |-> b.index, number |-> b.number]}]

WorldFits(k, b) == OfManifest(k, b) /\ {p.index : p \in k.pages} = 1..Pages

WithWorld(k, b) ==
    [k EXCEPT !.world = {p.number : p \in k.pages} \cup {k.manifest.number, b.number}]

--------------------------------------------------------------------------------
(* The loop of synchronize and of verify_identity.  World messages count   *)
(* only once this synchronization's own handshake is complete.             *)

Shaken(k) == Summary \subseteq k.got

Assembling(k) == Shaken(k) /\ k.manifest # None

(* A message that is out of place in the assembly of a world. *)
Misplaced(k, b) ==
    /\ Assembling(k)
    /\ \/ b.type = "world_collection_page" /\ ~PageFits(k, b)
       \/ b.type = "world_snapshot_complete" /\ ~WorldFits(k, b)

Got(k, type) == [k EXCEPT !.got = @ \cup {type}]

OwnResponse_Any(k, b) == TRUE

OwnResponse(k, b) == b.correlation = k.request

Negotiated(k, b) ==
    CASE b.type \in {"hello", "capabilities"} -> Got(k, b.type)
      [] b.type = "resync_response" /\ OwnResponse(k, b) -> Got(k, b.type)
      [] b.type = "state_snapshot" -> Got(WithSnapshot(k, b), b.type)
      [] b.type = "world_manifest" /\ Shaken(k) -> WithManifest(k, b)
      [] b.type = "world_collection_page" /\ Assembling(k) -> WithPage(k, b)
      [] b.type = "world_snapshot_complete" /\ Assembling(k) -> Got(WithWorld(k, b), b.type)
      [] OTHER -> k

Finished(k) ==
    Shaken(k) /\ (k.phase = "probing" \/ "world_snapshot_complete" \in k.got)

Synchronized(k) == [k EXCEPT !.phase = "idle", !.state = "synchronized",
              !.home = IF k.rejecting THEN @ ELSE k.inst]

(* A method returns: the synchronization, or the command it was part of,   *)
(* which has succeeded only if the fresh snapshot shows its name.          *)
Returned(k) ==
    CASE k.phase = "probing"   -> [k EXCEPT !.phase = "idle", !.state = "identity_verified"]
      [] k.phase = "syncing"   -> Synchronized(k)
      [] k.phase = "verifying" -> [Synchronized(k) EXCEPT
             !.outcome = IF k.snap.name = k.command.name THEN "success" ELSE "refused"]

(* A method raises.  Only the synchronizing ones record the failure. *)
Raised(k) ==
    [k EXCEPT !.phase = "idle",
              !.state = IF Baseline(k) THEN "failed" ELSE @,
              !.outcome = IF k.phase \in {"commanding", "verifying"} THEN "raised" ELSE @]

--------------------------------------------------------------------------------
(* execute_set_company_name: messages of other requests are unsolicited. *)

Unsolicited_Answers(k, b) == FALSE

Unsolicited(k, b) == b.correlation # k.request

UnsolicitedRefused(k, b) ==
    \/ b.type = "world_collection_page" /\ ~PageFits(k, b)
    \/ b.type = "world_snapshot_complete" /\ ~WorldFits(k, b)

Consumed(k, b) ==
    CASE b.type = "state_snapshot" -> WithSnapshot(k, b)
      [] b.type = "world_manifest" -> WithManifest(k, b)
      [] b.type = "world_collection_page" -> WithPage(k, b)
      [] b.type = "world_snapshot_complete" -> WithWorld(k, b)
      [] OTHER -> k

================================================================================
