---------------------------- MODULE PluginInstaller ----------------------------
(***************************************************************************)
(* The three installers that put Sim Pilot's files into a game: the        *)
(* BepInEx loader and plug-in of Rail Route (rail_route/bridge/            *)
(* installer.py), the compiled bridge of Software Inc. (software_inc/      *)
(* bridge/installer.py) and its source probe (software_inc/probe/          *)
(* installer.py).  Each owns what its manifest, kept outside the game,     *)
(* records, and nothing else.                                              *)
(*                                                                         *)
(* A command is a list of steps, each one change of the disk.  A step may  *)
(* raise (the code's own clean-up then runs, as one step), and the process *)
(* may die before any step or while a file is half written.                *)
(*                                                                         *)
(* A file is known by its content: a build of the artifact, the Pinned     *)
(* loader, a Partial copy, what the game has Generated, or a file Foreign  *)
(* to Sim Pilot.  The 23 files of the loader are the one that is copied    *)
(* last.  The founder acts between commands.                               *)
(***************************************************************************)
EXTENDS Sequences, FiniteSets

CONSTANTS
    None,
    Kinds,              \* a subset of {"rail", "dll", "probe"}
    Builds,             \* what the artifact's build may produce
    FirstBuild,
    Pinned, Partial, Generated, Foreign,
    Games,              \* game versions; Rail Route supports the first only
    FirstGame,
    Disturbances        \* a subset of {"crash", "fault", "edit", "update", "forget"}

ASSUME InstallerAssumption ==
    /\ Kinds \subseteq {"rail", "dll", "probe"}
    /\ FirstBuild \in Builds /\ FirstGame \in Games
    /\ Disturbances \subseteq {"crash", "fault", "edit", "update", "forget"}

VARIABLES
    kind,       \* the installer of this behaviour
    files,      \* the content under each name in the game's directory
    left,       \* temporary copies of dead commands, each of a unique name
    manifest,   \* None, or the content and the game it was written for
    token,      \* the bridge's authentication token is there
    artifact,   \* the artifact in the repository
    game,       \* the installed version, and whether it runs
    command,    \* the command under way: its steps still to do, what it made,
                \* and (a history) the contents when it began
    outcome     \* how the last command ended, until the founder acts

vars == <<kind, files, left, manifest, token, artifact, game, command, outcome>>

Names == {"enabled", "disabled", "loader", "staged", "backup", "other"}

Unfinished == [op |-> "none", raised |-> FALSE]
Idle == [op |-> "none", todo |-> <<>>, target |-> "enabled", made |-> {},
         was |-> [name \in Names |-> None]]

Init ==
    /\ kind \in Kinds
    /\ files = [name \in Names |-> None]
    /\ left = {}
    /\ manifest = None
    /\ token = FALSE
    /\ artifact = FirstBuild
    /\ game = [version |-> FirstGame, running |-> FALSE]
    /\ command = Idle
    /\ outcome = Unfinished

-----------------------------------------------------------------------------
(* What a command checks before it changes anything. *)

IsFile(name) == files[name] # None

(* The name under which the one owned file is looked for. *)
OwnedName == IF IsFile("enabled") THEN "enabled" ELSE "disabled"

(* Every owned file is there with the bytes the manifest records. *)
Verified ==
    /\ manifest # None
    /\ files[OwnedName] = manifest.file
    /\ kind = "rail" => files["loader"] = Pinned

(* Rail Route's installer knows the build it was proven with, and no other. *)
ProvenBuild == kind = "rail" => game.version = FirstGame

(* The game may be changed: closed, and of a build that is supported. *)
Compatible == ~game.running /\ ProvenBuild

(* The manifest was written for this game, and the probe for this source. *)
SameIdentity ==
    /\ kind \in {"dll", "probe"} => manifest.game = game.version
    /\ kind = "probe" => manifest.file = artifact

(* Mutant: the first copy is written onto its name. *)
FreshStepsInPlace ==
    CASE kind = "rail"  -> <<"token", "fetch", "plugin", "loader", "manifest">>
      [] kind = "dll"   -> <<"token", "plugin", "manifest">>
      [] kind = "probe" -> <<"clean", "plugin", "manifest">>

(* Mutant: the directory is not looked at. *)
TargetUnchecked == TRUE

(* The directory of the plug-in holds nothing an installation must not touch. *)
TargetIsFree ==
    CASE kind = "rail"  -> TRUE      \* each file is refused when it is copied
      [] kind = "dll"   -> left = {} /\ \A name \in Names : ~IsFile(name)
      [] kind = "probe" -> left = {} /\ \A name \in Names : files[name] \in {None, Generated}

FreshSteps ==
    CASE kind = "rail"  -> <<"token", "fetch", "plugin", "loader", "manifest">>
      [] kind = "dll"   -> <<"token", "stage", "place", "manifest">>
      [] kind = "probe" -> <<"clean", "stage", "place", "manifest">>

(* Mutant: the token stays. *)
UninstallStepsButToken ==
    CASE kind = "rail"  -> <<"unlink_loader", "unlink", "forget">>
      [] OTHER          -> <<"unlink", "forget">>

UpgradeSteps ==
    IF kind = "rail"
    THEN <<"backup", "stage", "swap", "record", "enable", "tidy">>
    ELSE <<"stage", "backup", "swap", "record", "tidy">>

UninstallSteps ==
    CASE kind = "rail"  -> <<"unlink_loader", "unlink", "forget", "forget_token">>
      [] kind = "dll"   -> <<"unlink", "forget", "forget_token">>
      [] kind = "probe" -> <<"unlink", "forget">>

(* The installed file is there under the other name only, or at all. *)
MayEnable ==
    CASE kind = "rail"  -> IsFile("disabled")
      [] kind = "dll"   -> IsFile("disabled") /\ ~IsFile("enabled")
      [] kind = "probe" -> FALSE

-----------------------------------------------------------------------------
(* Beginning a command: each guard is the code's, and a refusal changes      *)
(* nothing.                                                                  *)

Done(op) == outcome' = [op |-> op, raised |-> FALSE]

Begin(op, steps, target) ==
    IF steps = <<>>
    THEN Done(op) /\ UNCHANGED <<command, files>>
    ELSE /\ command' = [op |-> op, todo |-> steps, target |-> target, made |-> {},
                        was |-> files]
         /\ outcome' = Unfinished
         /\ UNCHANGED files

(* No manifest: everything is copied anew. *)
InstallFresh ==
    /\ Compatible /\ manifest = None /\ TargetIsFree
    /\ Begin("install", FreshSteps, "enabled")

(* Mutant: a rebuilt artifact is not noticed. *)
InstallOnce ==
    /\ Compatible /\ Verified /\ SameIdentity
    /\ Begin("install", IF MayEnable THEN <<"rename_on">> ELSE <<>>, "disabled")

(* A manifest: the owned file is upgraded, enabled, or left as it is. *)
InstallAgain ==
    /\ Compatible /\ Verified /\ SameIdentity
    /\ \/ /\ manifest.file # artifact
          /\ Begin("install", UpgradeSteps, OwnedName)
       \/ /\ manifest.file = artifact
          /\ Begin("install", IF MayEnable THEN <<"rename_on">> ELSE <<>>, "disabled")

Disable ==
    /\ kind # "rail" => ~game.running
    /\ Verified
    /\ \/ IsFile("disabled") /\ ~IsFile("enabled") /\ Begin("disable", <<>>, "enabled")
       \/ /\ IsFile("enabled")
          /\ kind # "dll" => ~IsFile("disabled")
          /\ Begin("disable", <<"rename_off">>, "enabled")

Uninstall ==
    /\ kind # "rail" => ~game.running
    /\ Verified
    /\ Begin("uninstall", UninstallSteps, OwnedName)

BeginCommand ==
    /\ command = Idle
    /\ InstallFresh \/ InstallAgain \/ Disable \/ Uninstall
    /\ UNCHANGED <<kind, left, manifest, token, artifact, game>>

-----------------------------------------------------------------------------
(* The steps. *)

Now(step) == command # Idle /\ Head(command.todo) = step

Made(names) ==
    IF Tail(command.todo) = <<>>
    THEN command' = Idle /\ Done(command.op)
    ELSE /\ command' = [command EXCEPT !.todo = Tail(@), !.made = @ \cup names]
         /\ UNCHANGED outcome

Put(change) ==      \* the contents of the names that change
    files' = [name \in Names |->
                 IF name \in DOMAIN change THEN change[name] ELSE files[name]]

Move(from, to) == Put([name \in {from, to} |-> IF name = to THEN files[from] ELSE None])

(* What a copying step writes, and where. *)
Written ==
    [plugin |-> [name |-> "enabled", content |-> artifact],
     loader |-> [name |-> "loader", content |-> Pinned],
     stage  |-> [name |-> "staged", content |-> artifact],
     backup |-> [name |-> "backup", content |-> files[command.target]]]

Copying == command # Idle /\ Head(command.todo) \in DOMAIN Written
Copied == Written[Head(command.todo)]

(* Rail Route's files are copied onto their names, and never onto a file.    *)
(* The other copies have names of their own.                                 *)
CopyRefused == Copying /\ IsFile(Copied.name)

Copy ==
    /\ Copying /\ ~CopyRefused
    /\ Put([name \in {Copied.name} |-> Copied.content])
    /\ Made({Copied.name})
    /\ UNCHANGED <<manifest, token>>

(* Renaming: onto its name, onto the file it replaces, on and off. *)
Rename ==
    /\ \/ Now("place") /\ Move("staged", "enabled")
       \/ Now("swap") /\ Move("staged", command.target)
       \/ Now("rename_on") /\ Move("disabled", "enabled")
       \/ Now("rename_off") /\ Move("enabled", "disabled")
       \/ /\ Now("enable")
          /\ IF command.target = "disabled" THEN Move("disabled", "enabled")
                                            ELSE UNCHANGED files
    /\ Made({})
    /\ UNCHANGED <<manifest, token>>

Remove ==
    /\ \/ Now("clean") /\ Put([name \in {"other"} |-> None])
       \/ Now("unlink") /\ Put([name \in {OwnedName} |-> None])
       \/ Now("unlink_loader") /\ Put([name \in {"loader"} |-> None])
       \/ Now("tidy") /\ Put([name \in {"staged", "backup"} |-> None])
    /\ Made({})
    /\ UNCHANGED <<manifest, token>>

(* The manifest and the token are replaced whole (private_files.py). *)
Record ==
    /\ \/ /\ Now("manifest")
          /\ manifest' = [file |-> files["enabled"], game |-> game.version]
          /\ UNCHANGED token
       \/ Now("record") /\ manifest' = [manifest EXCEPT !.file = artifact] /\ UNCHANGED token
       \/ Now("forget") /\ manifest' = None /\ UNCHANGED token
       \/ Now("token") /\ token' = TRUE /\ UNCHANGED manifest
       \/ Now("forget_token") /\ token' = FALSE /\ UNCHANGED manifest
       \/ Now("fetch") /\ UNCHANGED <<manifest, token>>
    /\ Made(IF Now("token") /\ ~token THEN {"token"} ELSE {})
    /\ UNCHANGED files

Step == (Copy \/ Rename \/ Remove \/ Record) /\ UNCHANGED <<kind, left, artifact, game>>

-----------------------------------------------------------------------------
(* A step raises.  A copy that raises may leave a part of the file, or all   *)
(* of it (its mode is set last), which Rail Route's clean-up does not know.  *)

FirstInstall == command.op = "install" /\ manifest = None
Upgrading == command.op = "install" /\ manifest # None

(* The names each clean-up empties. *)
Cleaned ==
    CASE FirstInstall /\ kind = "rail" -> command.made \cap Names
      [] FirstInstall /\ kind # "rail" -> {"staged", "enabled"}
      [] Upgrading                     -> {"staged", "backup"}
      [] OTHER                         -> {}

LeftBehind ==
    IF kind = "rail" /\ FirstInstall /\ Copying /\ ~CopyRefused
    THEN {None, Partial, Copied.content} ELSE {None}

(* Mutant: a failed record leaves the new bytes. *)
RestoresNothing == FALSE

(* Nothing is cleaned before the files are touched. *)
CleansUp == Head(command.todo) \notin {"token", "fetch", "clean", "rename_on", "tidy"}

RestoresBackup == Now("record")

Raise ==
    /\ command # Idle
    /\ "fault" \in Disturbances \/ CopyRefused
    /\ ~Now("tidy")
    /\ \E rest \in LeftBehind :
          files' = [name \in Names |->
                       CASE rest # None /\ name = Copied.name -> rest
                         [] RestoresBackup /\ name = command.target -> files["backup"]
                         [] CleansUp /\ name \in Cleaned -> None
                         [] OTHER -> files[name]]
    /\ token' = (token /\ ~(kind = "rail" /\ CleansUp /\ "token" \in command.made))
    /\ command' = Idle
    /\ outcome' = [op |-> command.op, raised |-> TRUE]
    /\ UNCHANGED <<kind, left, manifest, artifact, game>>

(* The process dies: nothing is cleaned, and a copy may be half done. *)
Die ==
    /\ "crash" \in Disturbances
    /\ command # Idle
    /\ \E cut \in SUBSET (IF Copying /\ ~CopyRefused THEN {Copied.name} ELSE {}) :
          LET found == [name \in Names |-> IF name \in cut THEN Partial ELSE files[name]]
          IN  /\ files' = [found EXCEPT !["staged"] = None, !["backup"] = None]
              /\ left' = left \cup ({found["staged"], found["backup"]} \ {None})
    /\ command' = Idle
    /\ outcome' = Unfinished
    /\ UNCHANGED <<kind, manifest, token, artifact, game>>

-----------------------------------------------------------------------------
(* The founder and the game, between commands. *)

Between ==
    /\ command = Idle
    /\ outcome' = Unfinished
    /\ UNCHANGED <<kind, command>>

Rebuild ==
    /\ Between
    /\ artifact' \in Builds \ {artifact}
    /\ UNCHANGED <<files, left, manifest, token, game>>

(* The founder edits, deletes or adds a file (a temporary copy's name cannot *)
(* be met), clears what is left over, or removes Sim Pilot's own records.    *)
Records == IF "forget" \in Disturbances THEN {"records"} ELSE {}

Edit ==
    /\ "edit" \in Disturbances
    /\ Between
    /\ \E name \in Names \cup Records \cup {"left"}, content \in {None, Foreign} :
          /\ name \in Names =>
                files[name] # content /\ name \notin {"staged", "backup"}
          /\ Put([n \in {name} \cap Names |-> content])
          /\ left' = IF name = "left" THEN {} ELSE left
          /\ manifest' = IF name = "records" THEN None ELSE manifest
          /\ token' = (token /\ name # "records")
    /\ UNCHANGED <<artifact, game>>

Update ==
    /\ "update" \in Disturbances
    /\ Between
    /\ ~game.running
    /\ \E version \in Games \ {game.version} : game' = [game EXCEPT !.version = version]
    /\ UNCHANGED <<files, left, manifest, token, artifact>>

(* The game runs, and leaves its logs and caches where the plug-in is. *)
Play ==
    /\ Between
    /\ game' = [game EXCEPT !.running = ~@]
    /\ \/ UNCHANGED files
       \/ /\ ~game.running /\ kind # "dll" /\ ~IsFile("other")
          /\ Put([name \in {"other"} |-> Generated])
    /\ UNCHANGED <<left, manifest, token, artifact>>

Next ==
    \/ BeginCommand \/ Step \/ Raise \/ Die
    \/ Rebuild \/ Edit \/ Update \/ Play

Spec == Init /\ [][Next]_vars

-----------------------------------------------------------------------------
(* Properties *)

Succeeded(op) == outcome = [op |-> op, raised |-> FALSE]
Failed(op) == outcome = [op |-> op, raised |-> TRUE]
Ours(name) == files[name] \in Builds \cup {Pinned}

(* Two renames do not look at what is there: Software Inc.'s disable puts    *)
(* the plug-in over whatever has its disabled name (bridge/installer.py:289), *)
(* and Rail Route's install puts whatever has that name over the plug-in it  *)
(* has verified (bridge/installer.py:142-145).                               *)
RenamesUnseen == \/ kind = "dll" /\ Now("rename_off")
                 \/ kind = "rail" /\ Now("rename_on")

(* A command's report is true.  An installation that reports success leaves  *)
(* the owned file as the artifact is and as the manifest says, however it    *)
(* got there: copied, upgraded in place, enabled again or found              *)
(* (installer.py:128, 241); but for Rail Route's, where a file of somebody   *)
(* else's had the disabled name.  A command that raises leaves what was      *)
(* verified verified (an upgrade puts the old bytes back with the old        *)
(* record), and a first installation leaves no whole file of Sim Pilot's     *)
(* behind (installer.py:205, 283), but for the one Rail Route's was copying. *)
ReportsAreTrue ==
    [][command # Idle =>
         /\ Succeeded("install")' /\ ~(RenamesUnseen /\ files["disabled"] = Foreign) =>
              /\ Verified'
              /\ manifest'.file = artifact'
              /\ kind = "rail" => IsFile("enabled")'
         /\ (Failed("install") \/ Failed("disable"))' =>
              IF manifest # None THEN Verified'
              ELSE \A name \in Names : Ours(name)' =>
                     \/ files'[name] = command.was[name]
                     \/ kind = "rail" /\ Copying /\ name = Copied.name]_vars

(* Uninstalling leaves no owned file, no record and no token, whatever was   *)
(* interrupted before it (installer.py:334).                                 *)
UninstalledIsGone ==
    Succeeded("uninstall") =>
        /\ manifest = None /\ ~token
        /\ \A name \in {"enabled", "disabled", "loader"} : ~Ours(name)

(* No plug-in on record is ever half a file, and where a file is renamed     *)
(* into place there is never half of one, whenever the process dies: only a  *)
(* first copy for Rail Route can be cut short (installer.py:195, :283).      *)
NeverHalfReplaced ==
    files["enabled"] = Partial => kind = "rail" /\ manifest = None

(* No command removes, moves or changes a file that Sim Pilot did not write, *)
(* nor one of its own that was edited, at whatever moment it is interrupted  *)
(* or fails: but for the one with the disabled name, in exactly two renames. *)
(* There the code does not keep what docs/028:43 and docs/operations.md:256  *)
(* say, that unknown files are preserved.                                    *)
ForeignFilesStay ==
    [][command # Idle => \A name \in Names :
          files[name] = Foreign =>
              files'[name] = Foreign \/ (name = "disabled" /\ RenamesUnseen)]_vars

================================================================================
