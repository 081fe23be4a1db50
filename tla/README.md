# Sim Pilot: formal models

Sim Pilot is a local Python program that plays simulation games for its user,
and helps a founder play one. A task for OpenTTD ("raise cash to 300 000, spend
at most 10 000, ask me before any loan") is compiled from text, persisted, and
executed by a runtime that asks a decision provider for one action at a time,
checks it, carries it out through a game adapter, verifies the outcome and
commits everything to a durable store. Questions about a running OpenTTD game
are answered from cached snapshots. In Rail Route and Software Inc. the program
looks at the visible game, through a plug-in that tells what is in it, and
clicks; every commitment is asked for first, and the founder plays the same game
all the while.

What has to be right in such a program is what no unit test reaches: a crash
between the write-ahead record and the game's answer, a second process on the
same task, a decision taken on a store, a screen or a snapshot read earlier, an
answer that another client hears, a saved game that brings sequence numbers
back, a click that comes late, a file that is half written. This directory
models the parts where such things happen, and checks and proves what they
promise. The source lines each definition stands for are in `PROJECT.json` under
`map`; what is hard about the code, at the line where it bites, is under
`hazards`.

Paths are relative to the repository; `runtime/` stands for
`src/sim_pilot/runtime/`, and so on for the other packages.

Contents: 1 inventory; 2 the task runtime; 3 the OpenTTD bridge; 4 the OpenTTD
adapter; 5 analysis; 6 the game bridge and Rail Route; 7 the founder's desks of
Software Inc.; 8 the installers; 9 runs, bounds, fairness; 10 disagreements
between code and documents; 11 proofs; 12 what is not modelled; 13 plan.

## 1. Inventory

| Component | State it keeps | Operations | What makes it correct |
|---|---|---|---|
| Task lifecycle (`runtime/lifecycle.py`, `engine_support.py`) | status of a task | transitions, forced failure | only listed transitions; a terminal status is final |
| Action-attempt journal (`runtime/action_attempts.py`) | none of its own: derived from events | derive attempts, find the unresolved one | a write-ahead ledger: one open attempt, started before it takes effect |
| Iteration commit and repositories (`runtime/persistence.py`, `persistence/`) | task row, events, approvals, checkpoints | one transaction per commit; create, load | a refused commit changes nothing; an accepted one keeps the four records consistent |
| Reconstruction (`runtime/reconstruction.py`) | none | load and cross-check everything | whatever a crash leaves behind can be loaded |
| Session execution (`runtime/execution.py`, `iteration.py`, `action_execution.py`) | locals of one `run_runtime` call | open, initialise, refresh, iterate, execute, fail, shut down | at most one execution per attempt, authorised, journalled before and after; every session ends |
| Engine and operator commands (`runtime/engine.py`, `recovery.py`) | none | resume, run, approve, deny, cancel, resolve recovery | one approval is one execution; recovery never re-executes and charges once |
| Policy, evaluator, verifier (`runtime/policy.py`, `evaluator.py`, `verification.py`) | none | pure judgements | completion only on evidence; no spend over the budget |
| Decision context and validation (`runtime/decision_*.py`) | none | projection, trimming, schema checks | the prompt fits and is what was observed |
| Reconciliation (`reconciliation/`) | none | compare a checkpoint with what the game shows now | the resolution offered agrees with the evidence |
| Reference adapter and simulation | the simulation, in process memory | initialise, observe, validate, execute, restore | restored exactly from the checkpoint |
| OpenTTD adapter (`adapters/openttd`) | pending and last state, pending and last health | initialise, observe, validate, two renames, verify | what is acted on belongs to the connection there is; a verified rename happened |
| OpenTTD admin client (`openttd/client.py`, `protocol.py`) | socket, buffer, subscriptions | connect, poll, remote console, reconnect, close | one question at a time, bounded waits, always closed |
| GameScript bridge (`openttd/gamescript/`, `openttd_gamescript/`) | client: health, seen message ids, page assembly; script: sequence, ledger, last snapshot | synchronise, verify identity, execute, save, load | a command takes effect at most once, against the snapshot it names; a world is one capture |
| World model (`openttd/world_*.py`, `route_inference.py`) | none | pure translations | the diff of equal worlds is empty |
| Analysis cache, sessions (`analysis/freshness.py`, `session.py`, `private_files.py`) | snapshot cache behind a lock, saved analyses, `latest` | probe, load, collect, store, save | an answer is about the running game and as fresh as asked; the cache only gets newer |
| Analyzers, intent compiler, providers (`analysis/`, `intent_compiler/`, `decision_provider/`) | none durable | one call each, validated | failures are reported, not guessed |
| Codex CLI client (`provider_support/codex_cli`) | child process, private directory | execute, terminate, clean up | nothing left behind unsaid; it ends |
| Game bridge server (`rail_route_bridge/`, `software_inc_bridge/`) and client (`game_bridge/`) | one owner, request and sequence numbers | accept, hello, snapshot, heartbeat; connect, request, close | one owner at a time who leaves; answers match requests |
| Observation (`rail_route/ui/observer.py`, `software_inc/ui/observer.py`) | none | snapshot, screenshot, snapshot | the frame belongs to what the snapshots say |
| Rail Route desk (`rail_route/ui/controller.py`) | none | set a route | both clicks in one game; a reported route is there |
| Software Inc. operators (`software_inc/contracts`, `products`, `training`) | workflow tables | accept, create, advance, review, iterate, promote, release, train | no commitment without its yes; the record is never ahead of the game |
| Software Inc. controllers (`software_inc/ui`: staffing, office, workstation, time) | a plan in memory | hire, search, create a team, hours, roles, furniture, pause | the same, and what is reported is so |
| Computer control (`computer_control/`) | last capture | capture, click, type | act only on the window that was verified |
| Installers (`rail_route/bridge`, `software_inc/bridge`, `software_inc/probe`) | files in the game, a manifest outside it | install, upgrade, enable, disable, uninstall | a report is true; what is not ours stays |
| Recognition, guidance, discovery, evaluation, configuration, command line, scripts | none durable | I/O and projections | |

How they interact. The CLI builds what one command needs and exits afterwards.
`task run` and `task resume` open one *session*: an asyncio task that reads the
store, builds an adapter, iterates and shuts the adapter down. Everything a
session knows of the past comes from the store and, for an external game, from
observing it. Processes share nothing but the store (SQLite, optimistic locking
by task sequence), the analysis directory (a file lock and atomic replacement)
and the game. A Rail Route or Software Inc. command connects to the plug-in for
each observation and closes again; its clicks go through the operating system,
which queues them behind the founder's own input.

Where concurrency, failure and ordering are hard: processes on one store
(sections 2, 9), a broadcasting script under save and load (3), reconnection in
the middle of an action (4), a lock, replaced files and a child process (5), a
server thread per connection with one owner (6), a second pair of hands on the
game (6, 7), and a process that dies between two changes of the disk (8).

## 2. The task runtime

    ActionLedger       abstract specification: a write-ahead ledger of attempts
    Lifecycle          statuses of a task and of an action attempt
    DurableStore       one task's records; commit; reconstruction
    RuntimeEngine      runner sessions, operator commands, environment
    RuntimeProperties  what the runtime promises, the refinement of ActionLedger
    RuntimeInvariants  the inductive invariants
    RuntimeTyping      proof: type correctness
    RuntimeProofs      proof: at-most-once execution
    RuntimeLedger      proof: the runtime implements ActionLedger
    RuntimeFinality    proof: a terminal status is final, completion is earned
    RuntimeAuthority   proof: only authorized actions, each grant used once
    RuntimeRecords     proof: the spend is the journal's, a restart loads, no late effect
    MCRuntime          instances for TLC (one cfg per run)

`Lifecycle` holds the two state machines. A task's status is stored; the status
of an attempt is not: `AttemptStatus` folds the append-only journal exactly as
`action_attempts` does, and the malformed journals it rejects are
what `AttemptsWellFormed` excludes. Attempt and approval ids, uuid5 values of a
journal position in the code, are that position here.

`DurableStore` is one task. A store is a record *task, journal, approvals,
checkpoint*; `IterationCommit` builds what `IterationCommit` and
`event_factory` build; `Accepts` is the conjunction of every check the
repositories make inside the transaction (sequence compare-and-swap, contiguous
events, approval keys, pending duplicates, checkpoint present when the status
is terminal, ...); `Stored` is its effect; `Reconstructs` is `RuntimeReconstructor.load`.
These are operators on a store, not on the variable, because processes hold
stores they read earlier.

`RuntimeEngine` has five variables:

| Variable | Code |
|---|---|
| `store` | the database rows of the task |
| `proc[r]` | the locals of runner r's session: `rec`/`obs` are `current`/`observation` in `run_iterations`, `outer`/`outerObs` the same names in `run_runtime`, which are stale while the loop runs and which the shutdown path reads; `sim` the in-process simulation; `act`, `att`, `auth`, `success` the attempt in flight; `pc` where it is |
| `command[o]` | operator o's command: its name, the store it read, the approval named on its command line |
| `world` | the external game |
| `effects` | history: what adapters carried out, in order; read by properties only |

One action is what happens between two points where another process or a crash
can be seen: at most one transaction and at most one outside effect.

| Action | Code |
|---|---|
| `Resume`, `Gate`, `Reopen`, `Enter` | `RuntimeEngine.resume`, `gate_recovery`, the reload and adapter restore after it, `run` |
| `StartPending`, `StartWaiting`, `Refresh`, `InitializationFailure` | the opening of `run_runtime` |
| `Yield`, `CancelSeen`, `IterationLimit`, `Evaluated`, `ProviderStops`, `FalseCompletion`, `Wait`, `RepeatedAction`, `RejectAction`, `RequestApproval` | one iteration of `run_iterations` that commits without executing, in the order of its guards |
| `Prepare`, `StartExecution`, `Execute`, `Confirm` | `execute_action_transaction`: write-ahead record, start record, the adapter call, the confirming commit with its checkpoint |
| `AdapterRaises`, `Error`, `Shutdown` | the `except` and `finally` of `run_runtime` |
| `Crash` | the process dies (also `KeyboardInterrupt` and cancellation) |
| `Read`, `Approve`, `Deny`, `Cancel`, `Resolve` | operator commands: load, then commit against what was loaded |
| `Drift` | the external game changes by itself |

Two kinds of adapter are one constant, `External`: FALSE is the reference
adapter, whose simulation lives in the session's memory and is restored from
the checkpoint; TRUE is OpenTTD, whose state survives the process and whose
answer may be late, refused, wrong or missing. `Environment` names the failures
a run admits: `crash`, `transaction` (a transaction may fail, or take effect
and be reported failed), `adapter` (calls may raise), `shutdown` (may raise),
`drift`, `cancel_check` (the caller's cancellation callback), `slice` (the
iteration budget of a call may run out). `SingleActive` says whether one
process runs at a time, which is what `docs/known-limitations.md:33-34` and
ADR-004 assume; the runs that check what protects against a second process
switch it off.

*Abstract specification.* `ActionLedger` has five sets of attempts: entered,
started, closed, void and carried out. One attempt is open at a time; it is
started only while it is open, carried out at most once and only after it was
started; void, which is what recovery calls never started, is possible only
before. `RuntimeProperties` maps the sets to the journal's events and to
`effects`, and `LedgerKept` says that the runtime implements it. An attempt that was closed
may still take effect afterwards if it was started, because an operator of a
second process may resolve it while the first is about to call the adapter; with
one process at a time it may not, which is `NoEffectAfterResolution`.

Abstracted:

- A decision is any action of `Acts`; a provider may decide anything, claim
  completion, stop or raise. Policy answers are the constants `Permitted`,
  `ApprovalActs`, `Cost` and `MaxSpend`.
- Informational events (evaluation, decision, policy, verification) that no
  later decision reads are left out, or are one `note` where the commit would
  otherwise be empty.
- Timestamps, schema versions, adapter observation counters and the rejected
  action count are left out. A stale-timestamp refusal is thereby missing, so
  the model accepts more commits than the code; safety properties that hold here
  hold with it. (A wall clock that is set back makes the code refuse every update
  of a task until it catches up, `persistence/sqlite/repositories.py:118`.)
- The verifier's cost check cannot fail with these adapters (reference cost
  equals its estimate, OpenTTD's cost is 0) and is dropped. The history of a
  COMPLETE_PROJECT objective is not modelled: `Goal` is a set of states.
- Reads are one atomic snapshot that does not fail. The code's four SELECTs
  (`runtime/reconstruction.py:86`) are one snapshot only inside one
  transaction. A commit is atomic: SQLite's conditional UPDATE takes the write
  lock before `append_many` reads the end of the journal.
- The two resolutions MARK_NOT_EXECUTED and RESTORE_PRIOR_CHECKPOINT commit the
  same records and are one disjunct of `Resolve`.

## 3. The OpenTTD bridge

    BridgeScript       the in-game script: messages, resynchronization, ledger, load
    BridgeClient       the client object: what each received message does to it
    GameScriptBridge   clients, connections, the script and the game, composed
    BridgeProperties   what the bridge promises
    MCBridge           instances for TLC
    BridgeInvariants   the inductive invariants of the proofs (section 11)
    BridgeProofs       types, the ledger, resumed tasks
    BridgeFreshness    what follows a request; commands and worlds of one capture

`BridgeScript` is `main.nut` as operators on a *game*, a record of the script's
fields and the company name; a saved game is one too. `BridgeClient` is
`gamescript/client.py` as operators on a *client*. `GameScriptBridge` composes
them:

| Variable | Code |
|---|---|
| `game`, `saved` | the running and the saved game, script included |
| `inbox` | the script's event queue |
| `link[c]` | client c's admin connection: whether it is up, and what the script sent on it that the client has not read |
| `client[c]` | the `GameScriptBridgeClient` object, and in `phase` the method it is in |
| `requests`, `captures`, `log` | history: numbers of requests and world captures, and every change of the name by a command |
| `spent` | bounds |

| Action | Code |
|---|---|
| `Heartbeat`, `HandleResync`, `SendWorld` | the loop of `Start`, `HandleResync` up to the summary, then `SendWorldSnapshot` message by message, as the game may suspend the script between them |
| `HandleCommand`, `ExecuteSetCompanyName`, `AnswerSetCompanyName` | the refusals and the replay; the call of `SetName`, which suspends the script; what follows it, with `Remember` |
| `Save`, `LoadGame`, `StartNewGame`, `Rename` | the game around the script; `Load` and `Start` of the script |
| `Synchronize`, `VerifyIdentity`, `SendCommand` | the beginning of the client's three methods |
| `Negotiate`, `ReceiveRefused`, `ConsumeUnsolicited`, `ReceiveAnswer`, `Timeout` | one message of their receive loops, through `_receive` |
| `OthersRequest` | another client of the same script asks, on the newest snapshot; everybody hears the answers |
| `CollectState`, `Close`, `NewProcess` | the transport passing over script messages, `close`, and the end of the process, with or without a resumed task |

Abstracted: one company, which exists, so context checks and `active_company`
are left out; message schemas and capabilities are those of this version, so
`BridgeIncompatibleError` and protocol errors are left out; the action
fingerprint is the requested name; a world is one collection with one entity per
page, of which only the number of its capture is kept. The game's refusals are
the constant `Refusals`. A game that cannot read its saved script state starts
like a new one and has no action of its own. That a load keeps the admin
connections and may lose queued events is behaviour of OpenTTD, not of this
repository. A game that replaces SetName's effect before the script looks
(`Rename` in between) is included. Health fields that a resumed process reads
from its checkpoint are replaced by the synchronization it starts with, but for
the script instance it is tied to. Other clients are modelled by what they may
send, not by a state of their own. A timeout with nothing under way is always
possible; one while an answer is coming is bounded.

## 4. The OpenTTD adapter

    AdminClient        the Admin Network of a server, and the client's connection
    OpenTTDAdapter     the adapter, the commands that use it, its properties
    MCAdmin            an instance for TLC

`AdminClient` has the server (its world: names, date, instance of the game;
whether it is up) and the one connection `wire` with what is under way in both
directions; `client` is what the client remembers of the welcome. `Deliver`,
`Serve` and `LateWrite` are the server, `Play`, `Replace`, `Down` and `Up` the
world; `Connects`, `Asks`, `Arrived`, `Reads`, `Drops`, `Closes` are the
operators of `openttd/client.py`, of which an adapter step uses one.
`OpenTTDAdapter` has `adapter` (the pending and the last state and health,
`adapter.py`) and `run` (the command under way and where it is):

| Action | Code |
|---|---|
| `Start` | one of `openttd doctor`, `watch`, `set-server-name`, `bridge set-company-name` (cli.py), or a session of a task |
| `Connect`, `ReceiveProtocol`, `ReceiveWelcome` | `connect` |
| `Collect`, `ReceiveAnswer`, `Drop`, `Collected` | `collect_state`, poll by poll, passing over what does not answer |
| `Initialized`, `Observe`, `Observed`, `Synchronize` | `initialize`, `observe`, the bridge's synchronization |
| `Stop`, `Wait`, `Decide` | what the command, or the runtime's provider, does next |
| `ValidateServerName`, `ValidateCompanyName` | `validate`, with what it leaves pending |
| `SetServerName`, `Reconnect`, `ConfirmServerName`, `DeadlinePasses` | `execute_rcon`: write, close, reconnect, poll until the name shows or the deadline passes |
| `SetCompanyName`, `CommandHandled`, `ConfirmCompanyName` | `_execute_company_name` over the bridge |
| `Verify`, `Raises`, `Shutdown` | `verification.py`, any await that raises, and `shutdown` |

Abstracted: whatever makes a packet unreadable or late is an await that raises;
economy and statistics travel with the names; both names start equal, as they
are never compared with each other; the bridge is in two steps here (section 3
has it in full); writes are enabled and names valid; every health differs from
every other by its message counters; a task's provider may ask for any rename on
offer.

## 5. Analysis

    CodexClient        one request to the local Codex CLI
    AnalysisDesk       ask, direct analyses and inspect over one directory; properties
    MCAnalysis         an instance for TLC

`CodexClient` is `codex_cli/client.py`: a private directory, a child process,
its output, timeout, termination and kill, clean-up, and the check that events
and output file agree. `AnalysisDesk` is a process per command (`cli.py`
`analysis_ask`, the direct analyses, `analysis_inspect`). `command[p]` is where
it is and what it holds; `lock` is the lock file; `disk` has the two shared files,
each the inodes under its name and under its temporary name, that
`atomic_write_private_text` opens, writes and replaces (steps between which a
process may die); `analyses` are the saved records; `game` is the running game with its identity and `now`
the clock. From `Start` the actions follow the source: `Candidate`, `Acquire`,
`Probe`, `Hit`/`Load`, `Collect`, `Open`/`Write`/`Publish`/`Tidy` for the cache,
`Compile` or `AskCodex`/`CompileWithCodex`, `Analyze`, `Explained`, `Save`,
`Inspect`, and `Fails` for every await that may raise; `Crash` kills a process,
whose lock the system releases and whose Codex child goes on unattended.

Abstracted: one vehicle stands for everything an answer may be about; collecting
is one step; an identity is world, save generation, company and capabilities;
`--snapshot` and `--comparison` are left out; snapshots are complete; an earlier
analysis has its snapshot in the cache; what the analyzers compute.

## 6. The game bridge and Rail Route

    GameBridge         server, client and one synchronized observation
    RailRouteDesk      `set a route`, the founder, the game; properties
    MCRoute            an instance for TLC

`GameBridge` is the C# server's thread per connection (`Accept`, `Hear`, `Beat`,
`Serve`, `CaptureTimeout`, `Sent`, `HangUp`, `Release`), the Python client
(`Open`, `Ask`, `Receive`, `ReceiveFails`, with the checks of identity, sequence
and correlation in `Expected` and `Continues`) and an observation (snapshot,
`TakeFrame`, `Refresh`, second snapshot, `Finish` or `Abandon`). The provider is
*sampled* (Rail Route: what the last rendered frame showed) or *pumped*
(Software Inc.: waits for the main thread, which runs only while the game is in
front, and gives up after three seconds). `RailRouteDesk` is
`execute_set_route_ui`: `Preflight`, the click on the origin and `Preview`, the
click on the destination and `Final`, each over an observation, while
`FounderPlays`, `Load` and `Quit` change the game.

Abstracted: a frame is sampled before it is drawn; a load starts a new session;
requests pending on a closed connection are dropped; between an observation and
the click aimed with it the game goes on (the backend looks again only when its
frame is two seconds old); a click lands if the view has not changed, or is lost; window position matters to the pumped provider only; a paused Test Yard is
`ready`. Which of Software Inc.'s fields a snapshot has is not modelled.

## 7. The founder's desks of Software Inc.

    FounderDesk            what the commands share: clicks, questions, disturbances
    ContractOperator       software_inc/contracts
    ProductOperator        software_inc/products
    TrainingOperator       software_inc/training
    StaffingController     software_inc/ui/staffing*.py
    OfficeController       software_inc/ui/office*.py
    WorkstationController  software_inc/ui/workstation*.py
    TimeControl            software_inc/ui/controller.py
    FounderSession         one session at one of these desks; properties
    MCFounder              an instance for TLC

The seven modules share `FounderDesk`'s variables. A command is a process that
observes, asks (`SaysYes` is the founder's answer), clicks, observes again,
verifies and saves, one step between two moments at which the game or the
founder can act. A click is *posted* and *lands* later, doing what is under the
pointer by then; it may be lost (`Lost`) or be late (`Settles`); the founder may
do what the game's windows allow (`...Meddling`), time passes in a game that is
not paused (`...Time`), and a command may end anywhere (`Stopped`: a raise, an
interruption, a kill). `licensed` holds the commitments the founder said yes to
and that were not made yet; `Commits` and `Sets` record in `wronged` a commitment
an input of the program makes without one. Terms carry what the founder was asked
about: contract or offer, employee, team name, room, price, configuration and save.
`CommitmentsApproved` lets three of these differ from the yes, since the code does
not compare them before the click, and nothing else (section 10).

| Prefix of the actions | Code |
|---|---|
| `Accept...`, `Commit...`, `Review...`, `Advance...`, `Reconcile` | `accept_recommended_contract`, `_commit_work_item_action` (promote and release), `review_contract`, `advance_contract`, `_reconcile_completed_release` |
| `Atlas...`, `Open/Set...`, `Hold...`, `ProductAdvance...`, `Promote...`, `ProductReview...`, `Iterate...` | `start_atlas` field by field, `set_product_hold`, `advance_product`, `promote_product`, `review_product`, `iterate_product` |
| `Training...`, `Education...` | `start_training`, `advance_training`, the curriculum of three courses |
| `Staffing...`, `OpenTeams`, `TypeTeamName`, `ConfigureSearch`, `ChooseApplicant` | `execute_staffing_intent` with `require_valid_approval` |
| `Office...`, `SelectTeam`, `SetHour`, `OpenRoles`, `ToggleRole` | `execute_office_intent` |
| `Station...`, `OpenRoomContext`, `TickTeam`, `ApplyTeams`, `OpenBuild`, `SelectItem`, `MovePreview`, `PlaceItem` | `_prepare_for_workstation_plan`, `execute_workstation_intent` |
| `Clock...`, `OpenManageTeams` | `execute_ui_action` |
| `Synchronized`, `Observed`, `Trained`, `Keep`, `Open`, `Current` | the workflow tables: `synchronize_workflow`, `save`, `current` |
| `Land...`, `...Nowhere`, `...Reversible` | what a click does in the game (external) |

Assumed of the game and the founder, all of them assumptions a reader may
question: input is handled in order, and one posted click is under way at a time;
reversible gestures land; market, applicant pool and course end do not change
between a frame and the click aimed with it; the founder does not create Atlas or
iterate it by hand, and cancels it only before beta; buying a course closes the
education window; after loading another save the founder starts no further
command in the session. Abstracted: equality checks of cash and the expiry of a plan, and
bounded retries, are a command that stops; roles, workspace, time and money
conditions and ranking of contracts are "any eligible contract may be
recommended"; `--yes` counts as the founder's yes; one room, one team, one employee
are the ones asked for, and another stands for all others; a CLI snapshot and the
command's first observation are one step; confirming a notice is no commitment;
recognition is exact, so an observation is the game's state at that moment.

## 8. The installers

    PluginInstaller    the three installers, the disk, the game; properties
    MCInstaller        an instance for TLC

A command is a list of steps, each one change of the disk (`Copy`, `Rename`,
`Remove`, `Record`, the last being the manifest); `BeginCommand` is every check
before the first, `Step` the next change, `Raise` a failing change with the
code's own clean-up or restored backup as one step, `Die` the end of the process,
also with half a file written. `files` says what is under each name: a build of
the artifact, the pinned loader, half a copy, what the game generated, or a file
foreign to Sim Pilot; `manifest` and `token` are kept outside the game. Between
commands the founder edits, deletes and adds files, the artifact is rebuilt and the
game updates itself.

Abstracted: the 23 files of Rail Route's loader are the one copied last; a
clean-up is one step; the founder acts between commands; temporary copies have
unique names, and those a dead command leaves are kept in `left`.

## 9. Runs

Each property, and what it guards, is stated above its definition. Every
property of a passing run has at least one mutant of a mapped definition that
breaks it under the run's own configuration.

| Run | Instance and environment | Checks | Distinct states |
|---|---|---|---|
| MCOperators | reference adapter, one runner and two operators at once; crash, transaction, shutdown, slice, cancel_check | `TypeOK`, `AuthorizedExecution`, `ApprovalUsedOnce`, `SpendMatchesJournal`, `CompletionConfirmed` | 768 489 |
| MCExternal | external game, one runner, one operator, one process at a time, fair sessions; crash, transaction, adapter, drift | `JournalCoversEffects`, `Reconstructable`, `NoEffectAfterResolution`, `SessionEnds` | 320 982 |
| MCRace | external game, two runners and an operator at once; crash | `ExecutedAtMostOnce`, `TerminalIsFinal`, `LedgerKept` (the refinement of `ActionLedger`) | 538 410 |
| MCTaskSettles | reference; slice, shutdown; fair sessions and a user who resumes | `TaskSettles` | 1 205 |
| MCCancelled | reference, no failures | `CancelledReconstructs`: violated, section 10 | |
| MCBridgeSaves | one client that retries, one command ID; a save, a load, refusals, fair script | `DecidedOnTheNewestCapture`, `CompletedCommandsRunOnce`, `EventuallySynchronized` | 381 312 |
| MCBridgeShared | one client beside others, two command IDs; a timeout, a new process, a new game, a heartbeat, a rename by hand | `SynchronizedIsFresh`, `ResumedInTheSameGame`, `SuccessIsReal` | 5 371 169 |
| MCAdmin | one command of each kind at a server that is played, replaced, goes down and comes back; fair command | `VerifiedNamesAreReal`, `ActsOverThisConnection`, `EndsDisconnected` | 1 454 318 |
| MCAnalysis | two commands over one directory; a kill, a failing disk, a failing bridge, another game; fair processes | `NothingLeft`, `AnswersThisGame`, `CacheNeverGoesBack`, `CommandsEnd` | 391 861 |
| MCRoute | one `set a route` and its observations, both providers; the founder plays, loads, quits; fair threads | `FrameIsBracketed`, `AstrayClickIsTheLast`, `ReportedRouteWasMade`, `ObservationEnds`, `OwnerLeaves` | 613 633 |
| MCFounder | one session at each of the seven desks; interruptions, lost and late clicks, a founder at the same game | `CommitmentsApproved`, `RecordNeverAhead`, `WorkIsFound`, `OneAtlas`, `ReportsAreReal` | 5 344 567 |
| MCInstaller | the three installers; crashes, failing changes, files edited or added under any of the plug-in's names, rebuilds, updates | `UninstalledIsGone`, `NeverHalfReplaced`, `ReportsAreTrue`, `ForeignFilesStay` | 84 152 |

`MCRuntime` gives two instances of the runtime. *Reference*: a level 0..3 to be
raised to 2; `build` adds one and costs 2, `loan` adds two, costs 1 and needs
approval, `raze` is forbidden; level 3 is a lost simulation. *External*: a
setting to be changed and a date that passes by itself; the action is judged by
the setting alone.

### Bounds, and why they are enough

- *Runtime.* `MaxJournal` stops new sessions on a long journal; it is chosen so
  that a task can prepare, execute, crash, be recovered, resume and execute again
  within it (in MCRace, 7 events before the session that executes again; in
  MCTaskSettles it is out of reach and bounds nothing). `MaxIterations` is the
  task's own safeguard and a real configuration value, as are the failure and
  repetition limits; the small values let each safeguard fire. Two runners
  suffice to race, since a commit is a compare-and-swap between two views; two
  operators likewise. Processes of a kind are symmetric in runs that check
  safety only.
- *Bridge.* `Budget` says how often each kind of event happens; what the script
  and a running method do is not bounded. One save and one load suffice to repeat
  sequence numbers and message IDs; two synchronizations for the remains of one
  to meet the other; two commands of one ID for it to be repeated; `LedgerLimit`
  1 (64 in the code) for the ledger to be at its limit; one page for a world to
  be cut between its parts. Four synchronizations are more than a load can spoil:
  the one under way, and the next, which meets what was left on the connection.
  Another client *and* a load are not checked together: section 10.
- *Adapter.* Two names, and two events of the world: enough for a rename by
  somebody else during one's own, a day that passes, a replaced game, and a server
  that goes down and comes back. A task decides twice, so that what the first
  decision leaves pending meets the second.
- *Analysis.* Two processes, each with two ways of asking, two identities of a
  game, one change of it, ages 0 and 1: enough for the cache to be older than
  allowed, of another game, and replaced between a look and a load.
- *Route.* Three connections for the sampled provider (a command uses three), two
  for the pumped one; one heartbeat, one restart of the plug-in, one refreshed
  frame, one change by the founder. The safety properties were also checked once
  with two changes (8.9 million states).
- *Founder.* `Disturbances` counts, per desk, ended commands, lost and late
  clicks and what the founder does: two for the contract and workstation desks,
  which have the longest commands, up to six for the clock. Two is the least at
  which a click is lost or a command ends *and* the founder changes what the next
  command meets. Two contracts, two configurations, one contract carried to its
  end, two iterations, three courses (as in the code).
- *Installers.* Two builds and two versions of the game; nothing else is bounded.

Deadlock checking is off in every run: a task that reached a terminal status, a
bridge whose budget is spent, a founder who stops, a finished command and an
installer nobody calls really rest.

### Fairness, and why the code justifies it

- A session is one asyncio task; while it is open, something in it is always
  ready to run, except that adapter and store calls are assumed to return or
  raise (they have timeouts): `WF_vars(Step(r))`. Opening a session and crashing
  are not in `Step` and are never forced. `TaskSettles` is about a user who keeps
  resuming: `ResumedSpec` adds weak fairness of `Resume` and of the conclusion of
  a command already started. It needs the absence of crashes and lost
  transactions, which may otherwise repeat for ever.
- `RetryingSpec` assumes that the game runs its script, that a method waiting for
  a message receives it or times out, and that the user synchronizes again after
  a failure; its client is patient (a timeout happens only when nothing is under
  way), for an impatient one may fail for ever.
- An adapter command is one task whose awaits are bounded by timeouts, and clocks
  go on: `WF(Step)` and `WF(DeadlinePasses)`; the world is not forced.
- A process of the analysis that can go on does; the timeouts of a Codex call are
  steps of it; the child is not forced to end.
- The bridge's threads run, its reads and captures time out, and the client's
  event loop runs; the game need not come to the front.

## 10. Disagreements between code and documents

One run expects a violation: in MCCancelled a task cancelled while an approval
is pending has records that reconstruction refuses (`findings`). The following
were met while modelling; the models behave as the code does. Where a property
is about such a case, its statement names the exception: `CommitmentsApproved`,
`ReportedRouteWasMade`, `AstrayClickIsTheLast`, `ReportsAreTrue` and
`ForeignFilesStay` say less than the documents quoted here, and by exactly that.

*Runtime*

- ADR-008, line 28, keeps a task running while recovery is required; `cancel`
  accepts such a task and makes it cancelled (`runtime/engine.py:287`).
- `docs/001-month-1-design.md:449` lists no move from waiting for approval to
  failed; a failure while an approved task is resumed makes it
  (`engine_support.py:38-41` asks the transition table only for a pending task).
- When the commit of a fresh observation fails and the adapter's shutdown then
  raises, the failed task gets a checkpoint of an observation the journal does
  not have (`runtime/execution.py:195`), and reconstruction refuses it. This is
  why no run checks `Reconstructable` with a drifting game, failing
  transactions and a failing shutdown together.
- `task approve` and `task deny` decide whatever approval is pending, not the one
  named on the command line (`cli.py:4471`, `docs/operations.md:460`).
- A recovery may mark an action executed although the game still shows the prior
  value (`reconciliation/openttd.py:78`).

*OpenTTD bridge*

- `docs/005-openttd-bridge-protocol.md:125-126` says that a repeated ID replays
  its terminal result; a failed command is not remembered
  (`main.nut:534`), and its ID is carried out again.
- `docs/005:148-149`: after a sequence error or a timeout while a command waits
  the client stays synchronized, and the next command is sent
  (`gamescript/client.py:275`).
- A snapshot ID is the script instance and a sequence number, and a load rolls
  the sequence back (`main.nut:160`): a capture taken for another client can get
  the ID of the abandoned capture an older decision was made on, and that decision
  is then accepted. TLC found it with a load and another client together: a
  command on snapshot (1, 8), decided but still queued behind another
  resynchronization, meets after the load a new capture that is (1, 8) again.
  The repository's deployment has one active process.

*OpenTTD adapter*

- A refused validation of a server name leaves the state it collected pending
  (`adapter.py:184`), and a later observation returns it, be it the one after an
  executed company rename: a rename that took place is then recorded as failed
  (`docs/005:122`). Likewise the health a refused company validation leaves
  (`adapter.py:189`).
- `docs/003-openttd-integration.md` says that identity changes before execution reject
  the decision; map and server name are known from the welcome only, so a game
  replaced on the same connection is not noticed (ADR-011 admits that new-game
  notices are not reconciled).

*Analysis*

- "Files are written atomically" (`docs/data-models.md`): the saved `latest`
  shares one temporary name between writers, and two commands at once can leave it
  empty or fail one of them after its analysis was saved (`private_files.py:15`).
- An identity does not tell two timelines loaded from one save apart, so a
  snapshot of the abandoned one is a hit while it is young enough.
- The subject Codex compiles is not compared with the offered context; Ctrl-C does
  not end the child.

*Rail Route*

- docs/026:50 asks for a final snapshot "exposing `SIG-W-IN -> SIG-C-W`", and
  docs/023:67-68 for a postcondition "proving the intended route". `_verify_route`
  asks only whether the origin has a route, not which
  (`rail_route/ui/controller.py:179-195`): if the founder sets a route from the
  same signal to another while the command runs, and the destination click does
  nothing, the command reports that `SIG-W-IN -> SIG-C-W` was set. So
  `ReportedRouteWasMade` speaks only of commands during which nobody else touched
  the routes of that signal.
- The game is compared between observations, not before a click: a save loaded
  after an observation is found by the next one, when the click has been sent
  into the loaded game. `AstrayClickIsTheLast` says what is then left.
- `_verify_preview` asks only for a frame that differs.

*Software Inc.*

- Staffing: an approval of a search or a hire is always refused as changed,
  because the bridge's sequence number is compared too (`ui/staffing.py:400` and
  `:412`; docs/030:87-88): no such click is ever sent. Creating a team does not
  look at the typed name again after the question (`:396`), so a name the founder
  types in the meantime is created, and found only afterwards (docs/030:99).
- Contract `advance` has no `finally` and does not verify the pause: an error in
  the interval, or a pause that is late, leaves the game running (docs/034:121);
  the product and education operators raise before theirs when the resumption is
  not seen (docs/036:141-142). `promote` confirms whatever modal is open
  (docs/036:149-151). After the question, create, promote and review do not ask
  whether the game is still paused (docs/036:133-134), review and iterate not
  whether it is actionable.
- Workflows: a contract denied or abandoned stays open and blocks others; a
  curriculum that was never answered does too; `promote` on an unanswered creation
  makes the workflow ambiguous for good; a course bought between the click and a
  save that never happens is not recorded; a course the founder took inside a
  curriculum makes the level check raise for ever; a denial at the second course
  closes the curriculum; `start_atlas` looks for Atlas among the work items and
  the open workflows (`products/operator.py:144`, `:155`), not among the products:
  one that was released is created again.
- Office: roles are toggled and applied in whatever employee's window is open
  (`office_controller.py:450-498`), though the instruction names one employee
  (docs/032:47); the result is looked at in the right one. Workstation: the
  selector is not asked whose room it is (`workstation_controller.py:258-304`),
  though no occupied room is to be reassigned (docs/033:122); and a bundle that was
  interrupted abandons the room (`workstation.py:211`).

*Installers*

- "Unknown files are preserved" (docs/028:43; docs/operations.md:256): a file of
  somebody else's with the plug-in's disabled name is not. Disabling the Software
  Inc. bridge overwrites it (`software_inc/bridge/installer.py:289`); installing
  for Rail Route again renames it over the plug-in just verified and reports
  success (`rail_route/bridge/installer.py:142-145`). `ForeignFilesStay` and
  `ReportsAreTrue` except these two renames. The second also meets Sim Pilot's own
  old file, after disable, a lost state directory and a reinstallation (the
  disturbance `"forget"`, which the run leaves out).
- A death between two changes is not repaired: files without a manifest, a swap
  without its record, an unlink without the rest make every later command refuse;
  a temporary copy in `BepInEx/plugins` stays and is loaded. A failed copy leaves
  a file, part or whole (its mode is set after the copy, `installer.py:200`), that
  later installations refuse; `ReportsAreTrue` excepts the one file being copied.
- Disabling and uninstalling for Rail Route do not ask whether the game runs;
  upgrading a disabled bridge leaves it disabled.

## 11. Proofs

### The task runtime

Proved for every number of runners and operators, every
set of actions and states, every configuration and environment, with or without
the one-process assumption; nothing is assumed but the ASSUMEs of `DurableStore`
and `RuntimeEngine` on the constants and, in the last two, the hypothesis the
table gives:

| Theorem | States | In |
|---|---|---|
| `TypeCorrect` | `[]TypeOK` | `RuntimeTyping` |
| `AtMostOnce` | `[]ExecutedAtMostOnce` | `RuntimeProofs` |
| `LedgerImplemented` | `LedgerKept`, the refinement of `ActionLedger` | `RuntimeLedger` |
| `JournalCovers` | `[]JournalCoversEffects` | `RuntimeLedger` |
| `TerminalFinal` | `TerminalIsFinal`, an action property | `RuntimeFinality` |
| `CompletionOnGoal` | `[]CompletionConfirmed` | `RuntimeFinality` |
| `Authorized` | `[]AuthorizedExecution` | `RuntimeAuthority` |
| `GrantsUsedOnce` | `[]ApprovalUsedOnce` | `RuntimeAuthority` |
| `SpendAccounted` | `[]SpendMatchesJournal` | `RuntimeRecords` |
| `RestartsLoad` | `[]Reconstructable`, if `ShutdownIsSafe` | `RuntimeRecords` |
| `NoLateEffects` | `NoEffectAfterResolution`, if `SingleActive` | `RuntimeRecords` |

Each module builds on the one above it. The inductive invariants are in
`RuntimeInvariants`, where TLC checked them on the instances of section 9
before they were proved.

*What every proof turns on.* A commit is accepted only if it was built on the
record stored last. `Newest(store, t)` says that record t is that one, and
`NumberedStored` that an accepted commit's was; what an invariant knows of a
session or a command has the form "as long as its record is `Newest`, ...". A
step of somebody else either leaves the store alone or makes every other
record stale, so that nothing has to be shown of them. To every action belongs
a *commit class* (`GateCommit`, `QuietCommit`, `ResolvingCommit`,
`AttemptCommit`, `DecisionCommit`, `ResolveCommit`) that says what its
transaction contains, and one lemma that the action is of its class; the
invariants below are proved once per class.

*Types.* `TypeOK` is not inductive. A commit writes what a session holds, so
`TypeInv` adds what each phase needs of its locals: a simulation once the
adapter is built, an observation once the loop is entered, an action once an
attempt is prepared; and that a journalled action and the store a command read
are well typed, with something in it to decide on.

*At most once* rests on two facts together, `AttemptsHeldOnce`. An
attempt's number is the journal position of its write-ahead record, so it is
new when given: no effect and no other runner has it. And a runner that still
holds an attempt (`prepared` or `started`) is the only one to hold it and has
not carried it out.

*The ledger.* `LedgerInv` adds how a journal is written, `AttemptsInOrder`:
whatever is recorded of an attempt comes after its write-ahead record and not
after its resolution, and the next attempt is entered after it is resolved; and
where the attempt of each session stands, `SessionInLedger`: prepared and
nothing more, or started and open, provided the session's record is the newest.
With that, every step appends events of one attempt only and maps to one of the
steps of `ActionLedger` or to a stutter. The status of an attempt is a fold over
the whole journal; `AttemptStatus` is that of the attempt's last event
(`LastStatus`), so no induction is needed. That an
attempt is void only if it never takes effect is the point where a session is
alive while the gate of another process closes its attempt: the session's start
record is then refused.

*Finality and completion.* `StatusInv`: a session in flight has a running
record, a newest record has the stored status, and a session that is about to
evaluate watches the journal's last observation. Without the last two a stale
session could complete a task on an observation that has been superseded.

*Authority.* `AuthorityInv`: a record's one-shot authority is an approval in the
table, approved, with that action; a prepared or started attempt is permitted in
the state its session observed. `AuthorityOnceInv`: while the task can go on,
the attempt that uses its authority is open, since the commit that closes it
takes the authority away (`InUse`); so a second attempt cannot be prepared with
it, and two started attempts or effects with one authority are one attempt.

*Budget.* `SpendingInv`: the balances of a journal are determined by its events
(`OneAccount`), so that a longer journal extends the account of the shorter;
what is charged is closed, hence not charged again by a recovery; and what an
open attempt would cost still fits the budget, which is why a recovery may add
it without asking the policy.

*Restarts.* `RecordsInv` says of the store what the reconstructor asks of it,
and of the sessions what they would write: the observation a session holds is
the journal's last, what a shutdown would checkpoint is that observation too,
an attempt being executed has the status `execution_started`, a session about
to start finds no pending request. One lemma (`RecordsStored`) shows it for a
transaction that keeps the attempts loadable (`MoveLoads`, `SettledLoads`),
checkpoints what it journals (`Saves`) and keeps, makes or answers one request;
one lemma per commit class shows that it does. The theorem has a hypothesis
because the code needs one: with `External` and a failing shutdown, an
observation whose commit was refused is checkpointed without being journalled
(`execution.py:195`), and the store cannot be loaded again. Every run that
checks `Reconstructable` satisfies `ShutdownIsSafe`, and so do all
configurations of the reference simulation and all external ones whose shutdown
does not raise.

*No late effect.* `AloneInv`: with one process at a time, the session that is
open is the only writer, so the record of its started attempt is the newest and
the start is the journal's last event when the adapter is called. Without
`SingleActive` the property is false (an operator may resolve an attempt while
its process is still alive); what holds then is `AtMostOnce`.

### The OpenTTD bridge

Proved for every number of clients, names and command IDs, every ledger limit,
number of pages, set of refusals and budget of events; nothing is assumed but
`BridgeAssumption` and `CompositionAssumption` on the constants:

| Theorem | States | In |
|---|---|---|
| `BridgeTypes` | `[]TypeInv` | `BridgeProofs` |
| `LedgerRemembers` | `CompletedCommandsRunOnce`, an action property | `BridgeProofs` |
| `ResumesItsOwnGame` | `[]ResumedInTheSameGame` | `BridgeProofs` |
| `SynchronizedAfterAsking` | `[]` of the part of `SynchronizedIsFresh` that is about time: all a synchronized client has was captured after it asked | `BridgeFreshness` |
| `SuccessHappened` | `[]SuccessIsReal` | `BridgeFreshness` |
| `DecidedOnTheNewest` | `[](NeverLoaded => DecidedOnTheNewestCapture)` | `BridgeFreshness` |
| `SynchronizedIsOneCapture` | `[](NeverLoaded => SynchronizedIsFresh)` | `BridgeFreshness` |

The inductive invariants are in `BridgeInvariants`. TLC checked them on the
instances of both bridge runs (the first without fairness), and on one with a
save, a load and one step of another client. The steps are cut twice, once for all
invariants: those of the script by what they append to the connections, those of
a client into nine cases by what they do to its object and its queue
(`ClientCases`).

*The ledger.* `LedgerInv`: the ledger is the end of the list of commands this
timeline has completed, in the running game and in its save. So a load brings
back both, and a command among the last `LedgerLimit` is found and replayed.

*Resumed tasks.* `NamedInv`: a snapshot is named for the instance that made it,
so a client that rejects a change of instance can only have snapshots of its
own game, and its command names one of them. The script of another game does
not accept such a command, whenever it arrives.

*Freshness.* That nothing a client accepts after its request is older than the
request is not visible in any message: IDs repeat after a load, and everybody
hears everybody's answers. It follows from the order of the script's work. A
request has a new number, so its response is not there yet (`NumberInv`). The
script captures after it has taken the request from its queue, so whatever stands
behind the response on the connection, or is still to be sent for it, is newer
(`Awaited`, then `NewerFrom`). What is left of an earlier world stands before the
response; and as the response is followed by its snapshot, and every part of a world by the next
part of the same world (`StreamInv`), the parts a client assembles after its own
response do not stem from an interrupted one (`Assembly`).

*Success.* `SuccessInv`: what the ledger remembers, or a completion on a
connection says, is in the log; whatever carries the number of a client's
request is about the client's command; and the change was made before the
client asked for the snapshot that verifies it. With freshness, that snapshot
was captured after the change.

*One capture.* Until the first load, instances are counted by the new games and
the sequence number of an instance only grows, so an ID is given once
(`Given`). Hence a command on the ID of the last snapshot was decided on the last
capture (`DecidedInv`), and parts with one ID are of one capture (`WorldsInv`).
After a load this is false in general (section 10), so the theorems say
`NeverLoaded`; that a client alone with its game is safe all the same, because
the gap in the sequence numbers stops it, is what MCBridgeSaves checks.

### Only model-checked

- Liveness is out of the prover's reach: `SessionEnds`, `TaskSettles`,
  `EventuallySynchronized`, `EndsDisconnected`, `CommandsEnd`,
  `ObservationEnds`, `OwnerLeaves`.
- `DecidedOnTheNewestCapture` after a load, for one client: the argument is about
  the numbers a client has heard and those a load brings back, and with other
  clients it does not hold. `SynchronizedIsFresh` after a load was checked once
  each on the instance of MCBridgeSaves without fairness (4.4 million states)
  and on one with a save, a load and one step of another client.
- The invariants of the other components: section 13.

No module uses a recursive operator, so all of them can be proved about.

## 12. What is not modelled

`components` says it part by part. Pure translations and judgements (world model,
decision projection, analyzers, policy arithmetic, recognition of a frame,
guidance) have no interleavings and are better tested; the models give them
arbitrary or exact answers. The intent compiler and the OpenAI providers are
single validated calls whose answers are arbitrary here. The reference simulation
is a constant function. Configuration, registry, evaluation, discovery and
scripts are I/O. Rail Route's screen control is one key and a comparison of two
snapshots. Coordinates, window discovery and screen capture of the computer
control are the operating system's.

## 13. Plan

Done: sections 2 to 8, in the order in which a failure would hurt most: effects
on the game and the durable record first, then the protocols and screens that
carry them, then files.

Next, by importance:

1. *Theorems elsewhere.* `CommitmentsApproved`, desk by desk, and without its
   exceptions once the code compares employee, name and room; `ForeignFilesStay`
   and `NeverHalfReplaced`; `NothingLeft`.
2. `DurableStore` over SQLite's own steps: a reader between two statements, a
   commit as `BEGIN IMMEDIATE` and writes; shown to implement the atomic commit
   used here.
3. Pure algorithms against a reference definition: `PolicyEngine`,
   `ProgressEvaluator`, `ActionVerifier`, reconciliation's classification,
   observation trimming.

Runs keep the pattern of section 9: one instance per question, bounds that let
every limit be reached, a few million states at most; a later question joins the
run whose instance it shares.
