------------------------------ MODULE Install ------------------------------
(***************************************************************************)
(* mp install, mp uninstall and mp init --with-*-skill: how the packages   *)
(* of the skills get into the skill directories of the agent harnesses and *)
(* out of them again, and what installed-skills.json says about it.        *)
(*                                                                         *)
(* No lock is taken.  An install loads the manifest, deploys file by file, *)
(* and saves the manifest once, at its end; an uninstall saves it after    *)
(* every skill.  Every step may fail, and the process may be killed at any *)
(* time: what it did so far stays on disk, what it remembered is gone.     *)
(*                                                                         *)
(* A package is the set of the files in it that are deployed; a skill a    *)
(* release does not ship has the empty package.  Paths are canonical.  The *)
(* toolkit tree, the binaries, env.sh, the convention files and the agent  *)
(* files are overwritten one by one and are left out.                      *)
(***************************************************************************)
EXTENDS Naturals

CONSTANTS
    Processes,      \* what runs mp
    Harnesses,
    Retired,        \* harnesses of another version: not in the registry of this one
    ProjectHarness, \* the one whose skill directory in a project is looked at
    Skills,
    Roots,          \* directories that hold skill directories
    Files,          \* names of files in a skill directory
    Marker,         \* SKILL.md
    Releases,       \* the packages a source tree ships
    Environments,   \* the root each harness resolves to: defaults and overrides
                    \* (of a retired one: resolved to, in its version)
    NoRoot,
    NoRow,
    MaxCommands     \* bound: commands and edits by the user in a behaviour

\* mp install --check refuses a source in which a skill has no SKILL.md.
ASSUME PackagesHaveMarker ==
    /\ Marker \in Files
    /\ Releases \subseteq [Skills -> SUBSET Files]
    /\ \A release \in Releases, s \in Skills :
          release[s] # {} => Marker \in release[s]

ASSUME EnvironmentsResolve ==
    Environments \subseteq [Harnesses -> Roots] /\ Environments # {}

ASSUME NothingsAreApart == NoRoot \notin Roots /\ MaxCommands \in Nat

\* harness_by_id knows these.
Known == Harnesses \ Retired

ASSUME SomethingToDo == ProjectHarness \in Known /\ Skills # {}

Pairs == Harnesses \X Skills
Places == Roots \X Skills

\* A row of the manifest: installed_path and harness_root.  Rows written
\* before harness_root existed have only a path, older ones have neither.
Rows == [path : Roots \union {NoRoot}, root : Roots \union {NoRoot}]
Row(root) == [path |-> root, root |-> root]

ASSUME NoRowIsNoRow == NoRow \notin Rows

OldRows == {[path |-> r, root |-> NoRoot] : r \in Roots \union {NoRoot}}

Manifests == [Pairs -> Rows \union {NoRow}]
EmptyManifest == [x \in Pairs |-> NoRow]

\* What is at a name of a project's skill directory.
Kinds == {"none", "file", "dir", "link"}

InstallSteps == {"backfill", "deploying", "wiping", "making", "copying"}
UninstallSteps == {"removing", "emptying", "forgetting"}
ProjectSteps == {"syncing", "pruning", "linking"}
Reports == {"installed", "uninstalled", "initialised"}

VARIABLES
    roots,      \* the roots that exist
    dirs,       \* the skill directories that exist
    tree,       \* the files in a skill directory
    local,      \* what is in the skill directories of a project
    manifest,   \* installed-skills.json
    proc,       \* the command each process runs
    commands    \* how many were started; no part of the program

vars == <<roots, dirs, tree, local, manifest, proc, commands>>
disk == <<roots, dirs, tree, local, manifest>>

Idle == [at |-> "idle"]

Running ==
    [at      : InstallSteps \union UninstallSteps \union ProjectSteps \union Reports,
     env     : Environments,
     ships   : [Skills -> SUBSET Files],
     targets : SUBSET Pairs,    \* all the command has to do
     todo    : SUBSET Pairs,    \* what is left of it
     current : Pairs,
     left    : SUBSET Files,    \* of the directory it is in
     memory  : Manifests,       \* the manifest as loaded and changed
     purge   : BOOLEAN,
     alone   : BOOLEAN]         \* nobody else touched the disk since its start

TypeOK ==
    /\ roots \subseteq Roots
    /\ dirs \subseteq Places
    /\ tree \in [Places -> SUBSET Files]
    /\ local \in [Skills -> [Files -> Kinds]]
    /\ manifest \in Manifests
    /\ proc \in [Processes -> {Idle} \union Running]
    /\ commands \in 0 .. MaxCommands

At(p, step) == proc[p].at = step
Place(p) == <<proc[p].env[proc[p].current[1]], proc[p].current[2]>>
Package(p) == proc[p].ships[proc[p].current[2]]

\* Other versions left rows and directories, with files of other releases: rows
\* of before harness_root, or of a harness this version does not know.
Init ==
    /\ dirs \in SUBSET Places
    /\ roots = {place[1] : place \in dirs}
    /\ \E release \in Releases :
          tree = [place \in Places |->
                    IF place \in dirs THEN release[place[2]] ELSE {}]
    /\ manifest \in [Pairs -> Rows \union {NoRow}]
    /\ \A x \in Pairs :
          /\ manifest[x] \in IF x[1] \in Known THEN OldRows \union {NoRow}
                            ELSE {Row(env[x[1]]) : env \in Environments} \union {NoRow}
          /\ manifest[x] # NoRow /\ manifest[x].path # NoRoot
                => <<manifest[x].path, x[2]>> \in dirs
    /\ local = [s \in Skills |-> [f \in Files |-> "none"]]
    /\ proc = [p \in Processes |-> Idle]
    /\ commands = 0

-----------------------------------------------------------------------------
(* Commands start, end, and die. *)

\* From here on nobody is alone but a command that starts while no other runs.
Disturbed(q) == IF proc[q] = Idle THEN Idle ELSE [proc[q] EXCEPT !.alone = FALSE]

Goes(p, command) == proc' = [proc EXCEPT ![p] = command]

Start(p, command) ==
    /\ At(p, "idle")
    /\ commands < MaxCommands
    /\ commands' = commands + 1
    /\ proc' = [q \in Processes |-> IF q = p THEN command ELSE Disturbed(q)]

NobodyRunsBut(p) == \A q \in Processes \ {p} : At(q, "idle")

\* What a command is when it starts.
Command(p, at, env, ships, targets, memory, purge) ==
    [at |-> at, env |-> env, ships |-> ships, targets |-> targets, todo |-> targets,
     current |-> CHOOSE x \in Pairs : TRUE, left |-> {}, memory |-> memory,
     purge |-> purge, alone |-> NobodyRunsBut(p)]

\* Each path of a step that fails (?), of a refusal (bail) and of a kill: the
\* disk keeps what was done.
Abort(p) ==
    /\ proc[p] # Idle
    /\ proc[p].at \notin Reports
    /\ Goes(p, Idle)
    /\ UNCHANGED <<disk, commands>>

Return(p) ==
    /\ proc[p].at \in Reports
    /\ Goes(p, Idle)
    /\ UNCHANGED <<disk, commands>>

-----------------------------------------------------------------------------
(* mp install *)

\* backfill_legacy_installed_paths: a path and a root for rows that have none,
\* from what the harness resolves to now.  Those of an unknown harness stay.
Backfilled(rows, env) ==
    [x \in Pairs |->
       IF rows[x] = NoRow \/ x[1] \in Retired THEN rows[x]
       ELSE [path |-> IF rows[x].path = NoRoot THEN env[x[1]] ELSE rows[x].path,
             root |-> IF rows[x].root = NoRoot /\ env[x[1]] \in roots
                      THEN env[x[1]] ELSE rows[x].root]]

\* The manifest is loaded.  --toolkit-only is the install without harnesses.
BeginInstall(p) ==
    \E env \in Environments, release \in Releases, harnesses \in SUBSET Known :
       \E skills \in SUBSET {s \in Skills : release[s] # {}} :
          LET targets == harnesses \X skills
              memory == Backfilled(manifest, env)
              at == IF memory # manifest THEN "backfill" ELSE "deploying"
          IN  /\ harnesses # {} => skills # {}
              /\ Start(p, Command(p, at, env, release, targets, memory, FALSE))
              /\ UNCHANGED disk

SaveBackfill(p) ==
    /\ At(p, "backfill")
    /\ manifest' = proc[p].memory
    /\ Goes(p, [proc[p] EXCEPT !.at = "deploying"])
    /\ UNCHANGED <<roots, dirs, tree, local, commands>>

\* Mutant: what is there is written over.
DeployInPlace(p) ==
    /\ At(p, "deploying")
    /\ \E x \in proc[p].todo :
          Goes(p, [proc[p] EXCEPT !.current = x, !.at = "making"])
    /\ UNCHANGED <<disk, commands>>

\* deploy_skill_to_harness: wipe, and write again.
Deploy(p) ==
    /\ At(p, "deploying")
    /\ \E x \in proc[p].todo :
          Goes(p, [proc[p] EXCEPT !.current = x,
                                  !.at = IF <<proc[p].env[x[1]], x[2]>> \in dirs
                                         THEN "wiping" ELSE "making"])
    /\ UNCHANGED <<disk, commands>>

\* fs::remove_dir_all, file by file and then the directory.
WipeFile(p) ==
    /\ At(p, "wiping")
    /\ \E f \in tree[Place(p)] :
          tree' = [tree EXCEPT ![Place(p)] = @ \ {f}]
    /\ UNCHANGED <<roots, dirs, local, manifest, proc, commands>>

WipeDir(p) ==
    /\ At(p, "wiping")
    /\ tree[Place(p)] = {}
    /\ dirs' = dirs \ {Place(p)}
    /\ Goes(p, [proc[p] EXCEPT !.at = "making"])
    /\ UNCHANGED <<roots, tree, local, manifest, commands>>

MakeDir(p) ==
    /\ At(p, "making")
    /\ dirs' = dirs \union {Place(p)}
    /\ roots' = roots \union {Place(p)[1]}
    /\ Goes(p, [proc[p] EXCEPT !.at = "copying", !.left = Package(p)])
    /\ UNCHANGED <<tree, local, manifest, commands>>

\* deploy_skill_files: each file by an atomic write, in any order.
CopyFile(p) ==
    /\ At(p, "copying")
    /\ Place(p) \in dirs
    /\ \E f \in proc[p].left :
          /\ tree' = [tree EXCEPT ![Place(p)] = @ \union {f}]
          /\ Goes(p, [proc[p] EXCEPT !.left = @ \ {f}])
    /\ UNCHANGED <<roots, dirs, local, manifest, commands>>

\* record_entry: in memory only.
RecordEntry(p) ==
    /\ At(p, "copying")
    /\ proc[p].left = {}
    /\ Place(p)[1] \in roots
    /\ LET memory == [proc[p].memory EXCEPT ![proc[p].current] = Row(Place(p)[1])]
       IN  Goes(p, [proc[p] EXCEPT !.memory = memory,
                                   !.todo = @ \ {proc[p].current},
                                   !.at = "deploying"])
    /\ UNCHANGED <<disk, commands>>

\* One save for the whole command; --toolkit-only does without.
SaveInstall(p) ==
    /\ At(p, "deploying")
    /\ proc[p].todo = {}
    /\ manifest' = IF proc[p].targets = {} THEN manifest ELSE proc[p].memory
    /\ Goes(p, [proc[p] EXCEPT !.at = "installed"])
    /\ UNCHANGED <<roots, dirs, tree, local, commands>>

-----------------------------------------------------------------------------
(* mp uninstall *)

\* The rows of the harnesses named, or all there are with --purge.
BeginUninstall(p) ==
    \E env \in Environments, harnesses \in SUBSET Harnesses, purge \in BOOLEAN :
       LET targets == {x \in harnesses \X Skills : manifest[x] # NoRow}
       IN  /\ harnesses # {}
           /\ IF purge THEN harnesses = Harnesses ELSE harnesses \subseteq Known
           /\ Start(p, Command(p, "removing", env, [s \in Skills |-> {}], targets,
                               manifest, purge))
           /\ UNCHANGED disk

\* Mutant: the recorded root is not compared.
AcceptsElsewhere(row, root) == root \in roots

\* skill_dir_for_uninstall: the recorded root must be the configured one; a
\* row without a root is accepted if its path lies in the configured one.
Accepts(row, root) ==
    /\ root \in roots
    /\ IF row.root # NoRoot THEN row.root = root ELSE row.path \in {NoRoot, root}

\* remove_contained_skill up to the first unlink: a directory that is gone is
\* as good as removed, one without SKILL.md is refused.
OpenTarget(p) ==
    /\ At(p, "removing")
    /\ \E x \in {x \in proc[p].todo : x[1] \in Known} :
          LET place == <<proc[p].env[x[1]], x[2]>>
          IN  /\ Accepts(proc[p].memory[x], place[1])
              /\ place \in dirs => Marker \in tree[place]
              /\ Goes(p, [proc[p] EXCEPT !.current = x,
                                         !.at = IF place \in dirs
                                                THEN "emptying" ELSE "forgetting"])
    /\ UNCHANGED <<disk, commands>>

\* skill_dir_for_uninstall has no directory to remove for a harness it does not
\* know, and the purge goes on to forget the row.
PassOver(p) ==
    /\ At(p, "removing")
    /\ \E x \in proc[p].todo :
          /\ x[1] \in Retired
          /\ Goes(p, [proc[p] EXCEPT !.current = x, !.at = "forgetting"])
    /\ UNCHANGED <<disk, commands>>

\* remove_open_directory_contents: in the order readdir has them.
UnlinkFile(p) ==
    /\ At(p, "emptying")
    /\ \E f \in tree[Place(p)] :
          tree' = [tree EXCEPT ![Place(p)] = @ \ {f}]
    /\ UNCHANGED <<roots, dirs, local, manifest, proc, commands>>

RemoveSkillDir(p) ==
    /\ At(p, "emptying")
    /\ Place(p) \in dirs
    /\ tree[Place(p)] = {}
    /\ dirs' = dirs \ {Place(p)}
    /\ Goes(p, [proc[p] EXCEPT !.at = "forgetting"])
    /\ UNCHANGED <<roots, tree, local, manifest, commands>>

\* forget_entry and save: all of what is remembered is written.
Forget(p) ==
    /\ At(p, "forgetting")
    /\ LET memory == [proc[p].memory EXCEPT ![proc[p].current] = NoRow]
       IN  /\ manifest' = memory
           /\ Goes(p, [proc[p] EXCEPT !.memory = memory,
                                      !.todo = @ \ {proc[p].current},
                                      !.at = "removing"])
    /\ UNCHANGED <<roots, dirs, tree, local, commands>>

\* A purge removes the directory of the manifest at last.
EndUninstall(p) ==
    /\ At(p, "removing")
    /\ proc[p].todo = {}
    /\ manifest' = IF proc[p].purge THEN EmptyManifest ELSE manifest
    /\ Goes(p, [proc[p] EXCEPT !.at = "uninstalled"])
    /\ UNCHANGED <<roots, dirs, tree, local, commands>>

-----------------------------------------------------------------------------
(* mp init --with-cursor-skill, --with-opencode-skill: links, by file. *)

BeginProject(p) ==
    \E release \in Releases :
       LET targets == {ProjectHarness} \X {s \in Skills : release[s] # {}}
           env == CHOOSE e \in Environments : TRUE
       IN  /\ Start(p, Command(p, "syncing", env, release, targets, EmptyManifest, FALSE))
           /\ UNCHANGED disk

SyncSkillDir(p) ==
    /\ At(p, "syncing")
    /\ \E x \in proc[p].todo :
          Goes(p, [proc[p] EXCEPT !.current = x,
                                  !.left = {f \in Files : local[x[2]][f] # "none"},
                                  !.at = "pruning"])
    /\ UNCHANGED <<disk, commands>>

\* Mutant: a link whose file the source has dropped is kept.
PruneEntryButLinks(p) ==
    /\ At(p, "pruning")
    /\ \E f \in proc[p].left :
          /\ local' = IF local[proc[p].current[2]][f] = "dir"
                      THEN [local EXCEPT ![proc[p].current[2]][f] = "none"] ELSE local
          /\ Goes(p, [proc[p] EXCEPT !.left = @ \ {f}])
    /\ UNCHANGED <<roots, dirs, tree, manifest, commands>>

\* Pass 1: a link the source has no file for goes, and every directory (the
\* files of the source are no directories); a regular file is kept.
PruneEntry(p) ==
    /\ At(p, "pruning")
    /\ \E f \in proc[p].left :
          LET kind == local[proc[p].current[2]][f]
              stale == kind = "dir" \/ (kind = "link" /\ f \notin Package(p))
          IN  /\ local' = IF stale THEN [local EXCEPT ![proc[p].current[2]][f] = "none"]
                          ELSE local
              /\ Goes(p, [proc[p] EXCEPT !.left = @ \ {f}])
    /\ UNCHANGED <<roots, dirs, tree, manifest, commands>>

EndPrune(p) ==
    /\ At(p, "pruning")
    /\ proc[p].left = {}
    /\ Goes(p, [proc[p] EXCEPT !.at = "linking", !.left = Package(p)])
    /\ UNCHANGED <<disk, commands>>

\* Pass 2: what is at the name of a file of the source is removed, and then
\* replaced by a link.
ClearName(p) ==
    /\ At(p, "linking")
    /\ \E f \in proc[p].left :
          /\ local[proc[p].current[2]][f] \in {"file", "link"}
          /\ local' = [local EXCEPT ![proc[p].current[2]][f] = "none"]
    /\ UNCHANGED <<roots, dirs, tree, manifest, proc, commands>>

LinkFile(p) ==
    /\ At(p, "linking")
    /\ \E f \in proc[p].left :
          /\ local[proc[p].current[2]][f] = "none"
          /\ local' = [local EXCEPT ![proc[p].current[2]][f] = "link"]
          /\ Goes(p, [proc[p] EXCEPT !.left = @ \ {f}])
    /\ UNCHANGED <<roots, dirs, tree, manifest, commands>>

EndLink(p) ==
    /\ At(p, "linking")
    /\ proc[p].left = {}
    /\ Goes(p, [proc[p] EXCEPT !.todo = @ \ {proc[p].current},
                               !.at = "syncing"])
    /\ UNCHANGED <<disk, commands>>

EndProject(p) ==
    /\ At(p, "syncing")
    /\ proc[p].todo = {}
    /\ Goes(p, [proc[p] EXCEPT !.at = "initialised"])
    /\ UNCHANGED <<disk, commands>>

-----------------------------------------------------------------------------
(* The user edits, removes and makes skill directories at any time. *)

UserEdit ==
    /\ commands < MaxCommands
    /\ commands' = commands + 1
    /\ proc' = [q \in Processes |-> Disturbed(q)]
    /\ UNCHANGED manifest

UserEditsSkill ==
    /\ UserEdit
    /\ \E place \in Places, files \in SUBSET Files :
          /\ tree' = [tree EXCEPT ![place] = files]
          /\ dirs' = dirs \union {place}
          /\ roots' = roots \union {place[1]}
    /\ UNCHANGED local

UserRemovesSkill ==
    /\ UserEdit
    /\ \E place \in dirs :
          /\ tree' = [tree EXCEPT ![place] = {}]
          /\ dirs' = dirs \ {place}
    /\ UNCHANGED <<roots, local>>

UserEditsProject ==
    /\ UserEdit
    /\ \E s \in Skills, f \in Files, kind \in Kinds :
          local' = [local EXCEPT ![s][f] = kind]
    /\ UNCHANGED <<roots, dirs, tree>>

-----------------------------------------------------------------------------

InstallStep(p) ==
    \/ SaveBackfill(p) \/ Deploy(p) \/ WipeFile(p) \/ WipeDir(p) \/ MakeDir(p)
    \/ CopyFile(p) \/ RecordEntry(p) \/ SaveInstall(p)

UninstallStep(p) ==
    \/ OpenTarget(p) \/ PassOver(p) \/ UnlinkFile(p) \/ RemoveSkillDir(p)
    \/ Forget(p) \/ EndUninstall(p)

ProjectStep(p) ==
    \/ SyncSkillDir(p) \/ PruneEntry(p) \/ EndPrune(p) \/ ClearName(p)
    \/ LinkFile(p) \/ EndLink(p) \/ EndProject(p)

Next ==
    \/ \E p \in Processes :
          \/ BeginInstall(p) \/ InstallStep(p)
          \/ BeginUninstall(p) \/ UninstallStep(p)
          \/ BeginProject(p) \/ ProjectStep(p)
          \/ Abort(p) \/ Return(p)
    \/ UserEditsSkill \/ UserRemovesSkill \/ UserEditsProject

Spec == Init /\ [][Next]_vars

-----------------------------------------------------------------------------
(* Properties *)

\* "A torn destination that the next install heals": whatever kills, failures,
\* races and edits left on disk, an install that ran to its end with the disk
\* to itself has put exactly the package of its release into every directory
\* of its command, has recorded it there, and mp uninstall in the same
\* environment will accept it.  Also when two of its harnesses share a root.
InstallHeals ==
    \A p \in Processes : At(p, "installed") /\ proc[p].alone =>
       \A x \in proc[p].targets :
          LET place == <<proc[p].env[x[1]], x[2]>>
          IN  /\ place \in dirs
              /\ tree[place] = proc[p].ships[x[2]]
              /\ manifest[x] = Row(place[1])
              /\ Accepts(manifest[x], place[1])
              /\ Marker \in tree[place]

\* A row as install writes it now is there before a step and not after it.
LetGo(x) ==
    /\ manifest[x] # NoRow
    /\ manifest'[x] = NoRow
    /\ manifest[x].root \in Roots
    /\ manifest[x].path = manifest[x].root

\* A command with the disk to itself lets go of a row, as install writes them
\* now, only when the directory the row names is gone: a refused, failed or
\* killed uninstall or purge leaves the row of what it left, also of what an
\* earlier one had taken apart already.  The row of a harness this version does
\* not know is let go of by a purge alone, and then its directory may stand:
\* nothing here removes it.
ForgottenIsGone ==
    [][\A p \in Processes, x \in Pairs :
          proc[p] # Idle /\ proc[p].alone /\ LetGo(x)
             => IF x[1] \in Known THEN <<manifest[x].root, x[2]>> \notin dirs'
                ELSE proc[p].purge]_vars

\* After an init that nobody disturbed the links of a project's skill
\* directory are those of the source's files, whatever interrupted inits of
\* other releases and the user had left there.  That takes what is the user's: a
\* file of his at a name of the source, and every link at another name, although
\* "files already in place are untouched" and "user files survive a re-init".
InitTracksSource ==
    \A p \in Processes : At(p, "initialised") /\ proc[p].alone =>
       \A x \in proc[p].targets, f \in Files :
          local[x[2]][f] = "link" <=> f \in proc[p].ships[x[2]]
=============================================================================
