----------------------------- MODULE AnalysisDesk -----------------------------
(***************************************************************************)
(* Read-only questions about a running OpenTTD game: "ask", the direct     *)
(* analyses, and "analysis inspect" (cli.py), each a process of its own.   *)
(* They share a directory: the snapshot cache behind a lock                *)
(* (analysis/freshness.py), the analyses saved so far and the file         *)
(* "latest" that names the newest (analysis/session.py), written by        *)
(* private_files.py.  Meanwhile the game is saved, replaced, and played.   *)
(*                                                                         *)
(* A snapshot is [id, at, fleet]: the identity of the game (world, save    *)
(* generation, company, capabilities), the time, and the vehicles in it.   *)
(* Vehicles stand for everything an answer may be about.  An analysis is   *)
(* the snapshot and the vehicle its first finding is about.                *)
(*                                                                         *)
(* A file is [path, temp, data]: the inode under its name, the inode under *)
(* the name of its temporary file (0 if there is none) and what each inode *)
(* holds.                                                                  *)
(***************************************************************************)
EXTENDS Integers, Sequences, FiniteSets, CodexClient

CONSTANTS
    Identities,
    Vehicles,
    Options,        \* what each process may be asked: see Option
    FirstGame,      \* the identity of the game at first
    MaxAge,         \* the age a cached snapshot may have (--max-snapshot-age, ttl),
                    \* in ticks: at 0, it is good until the next
    MaxEvents,      \* bound on what the clock and the game do, together
    Disturbances    \* a subset of {"crash", "disk", "bridge"}

Option ==
    [ kind : {"ask", "direct", "inspect"},
      fresh : BOOLEAN,      \* --fresh or --live
      follow : BOOLEAN,     \* the question says "that vehicle"
      codex : BOOLEAN,      \* the compiler is Codex
      explain : BOOLEAN ]   \* the explanation provider is Codex

ASSUME AnalysisAssumption ==
    /\ Options \in [Callers -> SUBSET Option]
    /\ \A p \in Callers : \A o \in Options[p] : o.kind = "inspect" => o.fresh
    /\ FirstGame \in Identities
    /\ MaxAge \in Nat /\ MaxEvents \in Nat

VARIABLES
    game,       \* [id, fleet, changes]
    now,
    lock,       \* who holds snapshot-cache.json.lock
    disk,       \* the files "cache" and "latest"
    analyses,   \* the records saved, by number
    command     \* what each process is doing

vars == <<game, now, lock, disk, analyses, command, calls>>

Inodes == 1..(Cardinality(Callers) + 2)

Snapshot == [id : Identities, at : 0..MaxEvents, fleet : SUBSET Vehicles]

Analysis == [snap : Snapshot, about : Vehicles \cup {None}]

File(content) ==
    [ path |-> IF content = None THEN 0 ELSE 1, temp |-> 0,
      data |-> [i \in Inodes |-> IF i = 1 THEN content ELSE None] ]

Read(f) == IF disk[f].path = 0 THEN None ELSE disk[f].data[disk[f].path]

Idle ==
    [ pc |-> "idle", opts |-> None, began |-> 0, lived |-> {}, snap |-> None,
      probed |-> None, record |-> None, subject |-> None, about |-> None,
      file |-> None, fd |-> 0, failing |-> FALSE ]

(* An earlier analysis may be there, with the cache it came from. *)
Init ==
    /\ game = [id |-> FirstGame, fleet |-> Vehicles, changes |-> 0]
    /\ now = 0
    /\ lock = None
    /\ \/ /\ analyses = <<>>
          /\ disk = [f \in {"cache", "latest"} |-> File(None)]
       \/ \E a \in Analysis :
             /\ a.snap.at = 0 /\ a.about \in a.snap.fleet
             /\ analyses = <<a>>
             /\ disk = [f \in {"cache", "latest"} |->
                            File(IF f = "cache" THEN a.snap ELSE 1)]
    /\ command = [p \in Callers |-> Idle]
    /\ InitCalls

--------------------------------------------------------------------------------
(* The game and the clock go on. *)

GameChanges ==
    /\ now + game.changes < MaxEvents
    /\ \/ \E i \in Identities \ {game.id}, fleet \in SUBSET Vehicles :
             /\ game' = [id |-> i, fleet |-> fleet, changes |-> game.changes + 1]
             /\ command' = [p \in Callers |->
                               [command[p] EXCEPT !.lived = IF @ = {} THEN @ ELSE @ \cup {i}]]
       \/ /\ \E fleet \in SUBSET Vehicles \ {game.fleet} :
                game' = [game EXCEPT !.fleet = fleet, !.changes = @ + 1]
          /\ UNCHANGED command
    /\ UNCHANGED <<now, lock, disk, analyses, calls>>

Tick ==
    /\ now + game.changes < MaxEvents
    /\ now' = now + 1
    /\ UNCHANGED <<game, lock, disk, analyses, command, calls>>

--------------------------------------------------------------------------------
On(p, pc) == command[p].pc = pc
Set(p, c) == command' = [command EXCEPT ![p] = c]
Goto(p, pc) == command' = [command EXCEPT ![p].pc = pc]

(* The end of a process, with an answer or without. *)
Answer(p) == Set(p, [Idle EXCEPT !.pc = "answered"])
Fail(p) == Set(p, [Idle EXCEPT !.pc = "ended"])

Unlock(p) == lock' = IF lock = p THEN None ELSE lock
Fails(p) == Fail(p) /\ Unlock(p)

(* inspect loads the analysis and finds out what to look at before it asks *)
(* the game: one vehicle, which the snapshot shows.                        *)
Inspectable(a) == a.about \in a.snap.fleet

Start(p) ==
    /\ On(p, "idle")
    /\ \E o \in Options[p] :
          LET begun == [Idle EXCEPT !.opts = o, !.began = now, !.lived = {game.id},
                                    !.pc = "lock"]
          IN IF o.kind # "inspect"
             THEN Set(p, begun)
             ELSE \E r \in DOMAIN analyses :
                     IF Inspectable(analyses[r]) THEN Set(p, [begun EXCEPT !.record = r])
                                                 ELSE Fail(p)
    /\ UNCHANGED <<game, now, lock, disk, analyses, calls>>

(* The cache has something that is young enough.  A file that is not a     *)
(* whole record fails the strict validation of _read.                      *)
Usable(s) == s # None /\ now - s.at <= MaxAge

Candidate(p) == ~command[p].opts.fresh /\ Usable(Read("cache"))

(* exclusive: flock waits.  With the lock, the cache is looked at. *)
Free_NotAsked == TRUE

Free == lock = None

Acquire(p) ==
    /\ On(p, "lock") /\ Free
    /\ lock' = p
    /\ Goto(p, IF Candidate(p) THEN "probe" ELSE "collect")
    /\ UNCHANGED <<game, now, disk, analyses, calls>>

(* _probe_openttd_snapshot_identity, then load with what it found. *)
Probe(p) ==
    /\ On(p, "probe")
    /\ \/ /\ Set(p, [command[p] EXCEPT !.pc = "load", !.probed = game.id])
          /\ UNCHANGED lock
       \/ "bridge" \in Disturbances /\ Fails(p)
    /\ UNCHANGED <<game, now, disk, analyses, calls>>

Hit_AnyGame(p) == Usable(Read("cache"))

Hit(p) == Usable(Read("cache")) /\ Read("cache").id = command[p].probed

(* Where a command goes with its snapshot. *)
Acquired(p) == CASE command[p].opts.kind = "ask"     -> "context"
                 [] command[p].opts.kind = "direct"  -> "analyze"
                 [] command[p].opts.kind = "inspect" -> "inspect"

Load(p) ==
    /\ On(p, "load")
    /\ IF Hit(p)
       THEN /\ Set(p, [command[p] EXCEPT !.pc = Acquired(p), !.snap = Read("cache"),
                                         !.probed = None])
            /\ Unlock(p)
       ELSE Set(p, [command[p] EXCEPT !.pc = "collect", !.probed = None]) /\ UNCHANGED lock
    /\ UNCHANGED <<game, now, disk, analyses, calls>>

(* _collect_analysis_snapshot: one whole world of one game, or an error. *)
Observed == [id |-> game.id, at |-> now, fleet |-> game.fleet]

Collect(p) ==
    /\ On(p, "collect")
    /\ \/ /\ Set(p, [command[p] EXCEPT !.pc = "open", !.snap = Observed,
                                       !.file = "cache"])
          /\ UNCHANGED lock
       \/ "bridge" \in Disturbances /\ Fails(p)
    /\ UNCHANGED <<game, now, disk, analyses, calls>>

--------------------------------------------------------------------------------
(* atomic_write_private_text: write the temporary file, rename it, and     *)
(* remove what is left under its name.  Every writer of a file uses the    *)
(* same temporary name.                                                    *)

Held(q) == command[q].fd

(* Inodes nobody can reach hold nothing. *)
Swept(f, held) ==
    [f EXCEPT !.data = [i \in Inodes |->
        IF i \in {f.path, f.temp} \cup held THEN f.data[i] ELSE None]]

Others(p) == {Held(q) : q \in Callers \ {p}}

Unused(f, p) ==
    CHOOSE i \in Inodes : i \notin {f.path, f.temp} \cup Others(p)

Open(p) ==
    LET f == disk[command[p].file]
        i == IF f.temp # 0 THEN f.temp ELSE Unused(f, p)
    IN
    /\ On(p, "open")
    /\ disk' = [disk EXCEPT ![command[p].file] =
                    [f EXCEPT !.temp = i, !.data[i] = None]]
    /\ Set(p, [command[p] EXCEPT !.pc = "write", !.fd = i])
    /\ UNCHANGED <<game, now, lock, analyses, calls>>

Content(p) == IF command[p].file = "cache" THEN command[p].snap ELSE command[p].record

Write(p) ==
    /\ On(p, "write")
    /\ \/ /\ disk' = [disk EXCEPT ![command[p].file] =
                         Swept([@ EXCEPT !.data[Held(p)] = Content(p)], Others(p))]
          /\ Set(p, [command[p] EXCEPT !.pc = "publish", !.fd = 0])
       \/ /\ "disk" \in Disturbances
          /\ disk' = [disk EXCEPT ![command[p].file] = Swept(@, Others(p))]
          /\ Set(p, [command[p] EXCEPT !.pc = "tidy", !.fd = 0, !.failing = TRUE])
    /\ UNCHANGED <<game, now, lock, analyses, calls>>

(* chmod and replace raise when another writer has taken the file away. *)
Publish(p) ==
    LET f == disk[command[p].file] IN
    /\ On(p, "publish")
    /\ IF f.temp # 0
       THEN /\ disk' = [disk EXCEPT ![command[p].file] =
                            Swept([f EXCEPT !.path = f.temp, !.temp = 0], Others(p))]
            /\ Goto(p, "tidy")
       ELSE Set(p, [command[p] EXCEPT !.pc = "tidy", !.failing = TRUE]) /\ UNCHANGED disk
    /\ UNCHANGED <<game, now, lock, analyses, calls>>

Tidy(p) ==
    LET c == command[p] IN
    /\ On(p, "tidy")
    /\ disk' = [disk EXCEPT ![c.file] = Swept([@ EXCEPT !.temp = 0], Others(p))]
    /\ IF c.failing THEN Fail(p)
       ELSE IF c.file = "cache" THEN Set(p, [c EXCEPT !.pc = Acquired(p), !.file = None])
       ELSE Answer(p)
    /\ Unlock(p)
    /\ UNCHANGED <<game, now, analyses, calls>>

--------------------------------------------------------------------------------
(* From a snapshot to an answer. *)

(* The analysis a follow-up may refer to: the latest, if it is of this     *)
(* game.                                                                   *)
Prior(p) ==
    LET r == Read("latest") IN
    IF r # None /\ analyses[r].snap.id = command[p].snap.id THEN r ELSE None

(* The provider's constructor probes the CLI and may raise; then the       *)
(* context is read.                                                        *)
Context(p) ==
    /\ On(p, "context")
    /\ \/ Set(p, [command[p] EXCEPT !.pc = "compile", !.record = Prior(p)])
       \/ command[p].opts.codex /\ Fail(p)
    /\ UNCHANGED <<game, now, lock, disk, analyses, calls>>

Request(p, prior, subject) ==
    Set(p, [command[p] EXCEPT !.pc = "analyze", !.record = prior, !.subject = subject])

(* Of what was shown before, what is still there. *)
Focus(c) == IF c.record = None THEN {} ELSE {analyses[c.record].about} \cap c.snap.fleet

(* DeterministicAnalysisCompiler: a reference to what was shown before     *)
(* must mean one thing; other questions are in the catalog or not.  What   *)
(* cannot be compiled is asked back, and the command ends.                 *)
Compile(p) ==
    LET c == command[p] IN
    /\ On(p, "compile") /\ ~c.opts.codex
    /\ \/ /\ c.opts.follow
          /\ IF Cardinality(Focus(c)) = 1 THEN \E v \in Focus(c) : Request(p, c.record, v)
                                         ELSE Fail(p)
       \/ ~c.opts.follow /\ (Request(p, None, None) \/ Fail(p))
    /\ UNCHANGED <<game, now, lock, disk, analyses, calls>>

AskCodex(p, pc) ==
    /\ Goto(p, pc)
    /\ calls' = [calls EXCEPT ![p] = NewCall]

CompileWithCodex(p) ==
    /\ On(p, "compile") /\ command[p].opts.codex
    /\ AskCodex(p, "compiling")
    /\ UNCHANGED <<game, now, lock, disk, analyses>>

(* normalize_provider_compilation.  Nothing ties what the provider says a  *)
(* question is about to the context it was given.                          *)
Compiled(p) ==
    LET answer == calls[p].answer IN
    /\ On(p, "compiling") /\ At(p, "returned")
    /\ IF answer = "sound" THEN \E v \in Vehicles \cup {None} : Request(p, None, v)
                           ELSE Fail(p)
    /\ calls' = [calls EXCEPT ![p] = NoCall]
    /\ UNCHANGED <<game, now, lock, disk, analyses>>

(* AnalysisService.analyze over the one snapshot.  The explanation's       *)
(* constructor comes first; the gate leaves most answers unexplained.      *)
Analyze(p) ==
    LET c == command[p]
        about == IF c.subject # None THEN {c.subject} \cap c.snap.fleet
                                     ELSE c.snap.fleet
    IN
    /\ On(p, "analyze")
    /\ \E v \in about \cup {None} :
          \/ /\ Set(p, [c EXCEPT !.pc = "save", !.about = v])
             /\ UNCHANGED calls
          \/ /\ c.opts.explain /\ v # None
             /\ Set(p, [c EXCEPT !.pc = "explaining", !.about = v])
             /\ calls' = [calls EXCEPT ![p] = NewCall]
          \/ Fail(p) /\ UNCHANGED calls
    /\ UNCHANGED <<game, now, lock, disk, analyses>>

(* Whatever comes back, the deterministic answer is kept. *)
Explained(p) ==
    /\ On(p, "explaining") /\ At(p, "returned")
    /\ Goto(p, "save")
    /\ calls' = [calls EXCEPT ![p] = NoCall]
    /\ UNCHANGED <<game, now, lock, disk, analyses>>

(* The record has a name of its own; then "latest" is written. *)
Save(p) ==
    LET c == command[p] IN
    /\ On(p, "save")
    /\ \/ /\ analyses' = Append(analyses, [snap |-> c.snap, about |-> c.about])
          /\ Set(p, [c EXCEPT !.pc = "open", !.file = "latest", !.record = Len(analyses) + 1])
       \/ "disk" \in Disturbances /\ Fail(p) /\ UNCHANGED analyses
    /\ UNCHANGED <<game, now, lock, disk, calls>>

(* evaluate_unsupported_inspection. *)
SameReference(a, s) == a.snap.id = s.id /\ a.about \in s.fleet

Inspect(p) ==
    LET c == command[p] IN
    /\ On(p, "inspect")
    /\ IF SameReference(analyses[c.record], c.snap) THEN Answer(p) ELSE Fail(p)
    /\ UNCHANGED <<game, now, lock, disk, analyses, calls>>

--------------------------------------------------------------------------------
Ended == {"idle", "answered", "ended"}

(* The process is killed.  The system takes back the lock; the files stay, *)
(* and so do a child and its directory, which nobody looks after any more. *)
Crash(p) ==
    /\ "crash" \in Disturbances
    /\ command[p].pc \notin Ended
    /\ Fail(p)
    /\ Unlock(p)
    /\ disk' = [f \in DOMAIN disk |-> Swept(disk[f], Others(p))]
    /\ calls' = [calls EXCEPT ![p] = NoCall]
    /\ UNCHANGED <<game, now, analyses>>

Calling(p) ==
    /\ command[p].pc \in {"compiling", "explaining"}
    /\ CallStep(p)
    /\ UNCHANGED <<game, now, lock, disk, analyses, command>>

Child(p) == ChildExits(p) /\ UNCHANGED <<game, now, lock, disk, analyses, command>>

Step(p) ==
    \/ Acquire(p) \/ Probe(p) \/ Load(p) \/ Collect(p)
    \/ Open(p) \/ Write(p) \/ Publish(p) \/ Tidy(p)
    \/ Context(p) \/ Compile(p) \/ CompileWithCodex(p) \/ Compiled(p)
    \/ Analyze(p) \/ Explained(p) \/ Save(p) \/ Inspect(p)
    \/ Calling(p)

Next ==
    \/ GameChanges \/ Tick
    \/ \E p \in Callers : Start(p) \/ Step(p) \/ Child(p) \/ Crash(p)

Spec == Init /\ [][Next]_vars

(* A process that can go on does; the timeouts of a call are steps of it.  *)
FairSpec == Spec /\ \A p \in Callers : WF_vars(Step(p))

--------------------------------------------------------------------------------
(* An answer is about the game that was running while it was asked for,    *)
(* from a snapshot no older than the founder allows ("--fresh": taken      *)
(* since), and what a follow-up or an inspection refers to is a vehicle of *)
(* that game which the snapshot shows.                                     *)
AnswersThisGame ==
    [][\A p \in Callers :
        LET c == command[p] IN
        command'[p].pc = "answered" /\ c.pc # "answered" =>
            /\ c.snap.id \in c.lived
            /\ c.snap.at >= IF c.opts.fresh THEN c.began ELSE c.began - MaxAge
            /\ c.opts.kind = "inspect" => SameReference(analyses[c.record], c.snap)
            /\ c.opts.follow /\ ~c.opts.codex =>
                  /\ c.subject \in c.snap.fleet
                  /\ \E r \in DOMAIN analyses :
                        analyses[r].snap.id = c.snap.id /\ analyses[r].about = c.subject]_vars

(* The cache is read, refreshed and replaced by one process at a time:     *)
(* once there is a snapshot in it there always is, and never an older one. *)
CacheNeverGoesBack ==
    [][Read("cache") # None =>
          Read("cache")' # None /\ Read("cache")'.at >= Read("cache").at]_vars

(* Whatever the other processes, the game and the provider do, a command   *)
(* comes to its end; nobody waits for the lock of a process that is gone.  *)
CommandsEnd == \A p \in Callers : command[p].pc \notin Ended ~> command[p].pc \in Ended

================================================================================
