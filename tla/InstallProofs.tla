--------------------------- MODULE InstallProofs ---------------------------
(***************************************************************************)
(* Proofs about Install, for any processes, harnesses, skills, releases,   *)
(* environments and any bound on the commands.                             *)
(***************************************************************************)
EXTENDS Install, TLAPS

USE PackagesHaveMarker, EnvironmentsResolve, NothingsAreApart, SomethingToDo

Steps == InstallSteps \union UninstallSteps \union ProjectSteps \union Reports

LEMMA AnyPair == (CHOOSE x \in Pairs : TRUE) \in Pairs
  <1>1. PICK s \in Skills : TRUE
    OBVIOUS
  <1>2. <<ProjectHarness, s>> \in Pairs
    BY <1>1 DEF Pairs, Known
  <1> QED
    BY <1>2

LEMMA AnyEnvironment == (CHOOSE env \in Environments : TRUE) \in Environments
  OBVIOUS

\* The fields of a process that runs a command.
LEMMA RunningFields ==
    ASSUME TypeOK, NEW p \in Processes, proc[p] # Idle
    PROVE  /\ proc[p] \in Running
           /\ proc[p].at \in Steps
           /\ proc[p].env \in Environments
           /\ proc[p].env \in [Harnesses -> Roots]
           /\ proc[p].ships \in [Skills -> SUBSET Files]
           /\ proc[p].targets \subseteq Pairs
           /\ proc[p].todo \subseteq Pairs
           /\ proc[p].current \in Pairs
           /\ proc[p].current = <<proc[p].current[1], proc[p].current[2]>>
           /\ proc[p].current[1] \in Harnesses
           /\ proc[p].current[2] \in Skills
           /\ proc[p].left \subseteq Files
           /\ proc[p].memory \in Manifests
           /\ proc[p].purge \in BOOLEAN
           /\ proc[p].alone \in BOOLEAN
           /\ Place(p) \in Places
           /\ Place(p)[1] \in Roots
           /\ Package(p) \subseteq Files
  <1>1. proc[p] \in Running
    BY DEF TypeOK
  <1>2. /\ proc[p].at \in Steps
        /\ proc[p].env \in Environments
        /\ proc[p].ships \in [Skills -> SUBSET Files]
        /\ proc[p].targets \subseteq Pairs
        /\ proc[p].todo \subseteq Pairs
        /\ proc[p].current \in Pairs
        /\ proc[p].left \subseteq Files
        /\ proc[p].memory \in Manifests
        /\ proc[p].purge \in BOOLEAN
        /\ proc[p].alone \in BOOLEAN
    BY <1>1 DEF Running, Steps
  <1>3. proc[p].env \in [Harnesses -> Roots]
    BY <1>2
  <1>4. /\ proc[p].current = <<proc[p].current[1], proc[p].current[2]>>
        /\ proc[p].current[1] \in Harnesses
        /\ proc[p].current[2] \in Skills
    BY <1>2 DEF Pairs
  <1> QED
    BY <1>1, <1>2, <1>3, <1>4 DEF Place, Places, Package

\* A process at a step of a command is not idle.
LEMMA StepIsNotIdle ==
    ASSUME NEW p \in Processes, proc[p].at \in Steps
    PROVE  proc[p] # Idle
  BY DEF Steps, Idle, InstallSteps, UninstallSteps, ProjectSteps, Reports

-----------------------------------------------------------------------------
(* Type correctness. *)

LEMMA InitHasType == Init => TypeOK
  <1> SUFFICES ASSUME Init PROVE TypeOK
    OBVIOUS
  <1>1. roots \subseteq Roots /\ dirs \subseteq Places
    BY DEF Init, Places
  <1>2. tree \in [Places -> SUBSET Files]
    BY DEF Init, Places
  <1>3. manifest \in Manifests
    <2>1. OldRows \subseteq Rows
      BY DEF OldRows, Rows
    <2> QED
      BY <2>1 DEF Init, Manifests
  <1> QED
    BY <1>1, <1>2, <1>3 DEF Init, TypeOK, Kinds

LEMMA BackfilledType ==
    ASSUME TypeOK, NEW rows \in Manifests, NEW env \in Environments
    PROVE  Backfilled(rows, env) \in Manifests
  <1> SUFFICES ASSUME NEW x \in Pairs
               PROVE  Backfilled(rows, env)[x] \in Rows \union {NoRow}
    BY DEF Manifests, Backfilled
  <1>1. env[x[1]] \in Roots
    BY DEF Pairs
  <1>2. CASE rows[x] = NoRow
    BY <1>2 DEF Backfilled
  <1>3. CASE rows[x] # NoRow
    <2>1. rows[x] \in Rows
      BY <1>3 DEF Manifests
    <2> QED
      BY <1>1, <1>3, <2>1 DEF Backfilled, Rows
  <1> QED
    BY <1>2, <1>3

LEMMA DisturbedHasType ==
    ASSUME TypeOK, NEW q \in Processes
    PROVE  Disturbed(q) \in {Idle} \union Running
  <1>1. CASE proc[q] = Idle
    BY <1>1 DEF Disturbed
  <1>2. CASE proc[q] # Idle
    <2>1. proc[q] \in Running
      BY <1>2, RunningFields
    <2>2. [proc[q] EXCEPT !.alone = FALSE] \in Running
      BY <2>1 DEF Running
    <2> QED
      BY <1>2, <2>2 DEF Disturbed
  <1> QED
    BY <1>1, <1>2

\* A command that is done with a file of the directory it is in.
LEMMA LeftShrinks ==
    ASSUME NEW c \in Running, NEW f
    PROVE  [c EXCEPT !.left = @ \ {f}] \in Running
  BY DEF Running

LEMMA StartHasType ==
    ASSUME TypeOK, NEW p \in Processes, NEW command \in Running, Start(p, command)
    PROVE  proc' \in [Processes -> {Idle} \union Running] /\ commands' \in 0 .. MaxCommands
  <1>1. commands' \in 0 .. MaxCommands
    BY DEF Start, TypeOK
  <1> QED
    BY <1>1, DisturbedHasType DEF Start

LEMMA CommandHasType ==
    ASSUME NEW p \in Processes, NEW at \in Steps, NEW env \in Environments,
           NEW ships \in [Skills -> SUBSET Files], NEW targets \in SUBSET Pairs,
           NEW memory \in Manifests, NEW purge \in BOOLEAN
    PROVE  Command(p, at, env, ships, targets, memory, purge) \in Running
  <1>1. NobodyRunsBut(p) \in BOOLEAN
    BY DEF NobodyRunsBut
  <1> QED
    BY <1>1, AnyPair DEF Command, Running, Steps

LEMMA GoesHasType ==
    ASSUME TypeOK, NEW p \in Processes, NEW command \in {Idle} \union Running,
           Goes(p, command)
    PROVE  /\ proc' \in [Processes -> {Idle} \union Running]
           /\ proc'[p] = command
           /\ \A q \in Processes \ {p} : proc'[q] = proc[q]
  BY DEF TypeOK, Goes

\* What becomes of the record of a running process is one again.
LEMMA NextRecord ==
    ASSUME NEW r \in Running
    PROVE  /\ \A at \in Steps : [r EXCEPT !.at = at] \in Running
           /\ \A left \in SUBSET Files : [r EXCEPT !.left = left] \in Running
           /\ \A at \in Steps, left \in SUBSET Files :
                [r EXCEPT !.at = at, !.left = left] \in Running
           /\ \A at \in Steps, todo \in SUBSET Pairs :
                [r EXCEPT !.todo = todo, !.at = at] \in Running
           /\ \A at \in Steps, x \in Pairs : [r EXCEPT !.current = x, !.at = at] \in Running
           /\ \A at \in Steps, x \in Pairs, left \in SUBSET Files :
                [r EXCEPT !.current = x, !.left = left, !.at = at] \in Running
           /\ \A at \in Steps, todo \in SUBSET Pairs, memory \in Manifests :
                [r EXCEPT !.memory = memory, !.todo = todo, !.at = at] \in Running
  BY DEF Running, Steps

LEMMA InstallStepHasType ==
    ASSUME TypeOK, NEW p \in Processes, BeginInstall(p) \/ InstallStep(p)
    PROVE  TypeOK'
  <1>1. CASE BeginInstall(p)
    <2>1. PICK env \in Environments, release \in Releases, harnesses \in SUBSET Known,
               skills \in SUBSET Skills, at \in {"backfill", "deploying"} :
             /\ Start(p, Command(p, at, env, release, harnesses \X skills,
                                 Backfilled(manifest, env), FALSE))
             /\ UNCHANGED disk
      BY <1>1 DEF BeginInstall
    <2>2. Backfilled(manifest, env) \in Manifests
      BY BackfilledType DEF TypeOK
    <2>3. harnesses \X skills \subseteq Pairs
      BY DEF Pairs, Known
    <2>4. Command(p, at, env, release, harnesses \X skills, Backfilled(manifest, env), FALSE)
             \in Running
      BY <2>2, <2>3, CommandHasType DEF Steps, InstallSteps
    <2> QED
      BY <2>1, <2>4, StartHasType DEF TypeOK, disk
  <1>2. CASE InstallStep(p)
    <2>1. proc[p] # Idle
      BY <1>2, StepIsNotIdle DEF InstallStep, SaveBackfill, Deploy, WipeFile, WipeDir,
         MakeDir, CopyFile, RecordEntry, SaveInstall, At, Steps, InstallSteps
    <2> USE <2>1, RunningFields, NextRecord
    <2>2. CASE SaveBackfill(p)
      BY <2>2, GoesHasType DEF SaveBackfill, TypeOK, Steps, InstallSteps
    <2>3. CASE Deploy(p)
      <3>1. PICK x \in proc[p].todo, at \in {"wiping", "making"} :
               Goes(p, [proc[p] EXCEPT !.current = x, !.at = at])
        BY <2>3 DEF Deploy
      <3>2. [proc[p] EXCEPT !.current = x, !.at = at] \in Running
        BY DEF Steps, InstallSteps
      <3>3. proc' \in [Processes -> {Idle} \union Running]
        BY <3>1, <3>2, GoesHasType
      <3>4. UNCHANGED <<disk, commands>>
        BY <2>3 DEF Deploy
      <3> QED
        BY <3>3, <3>4 DEF disk, TypeOK
    <2>4. CASE WipeFile(p)
      <3>1. PICK f \in tree[Place(p)] : tree' = [tree EXCEPT ![Place(p)] = @ \ {f}]
        BY <2>4 DEF WipeFile
      <3>2. tree' \in [Places -> SUBSET Files]
        BY <3>1 DEF TypeOK
      <3> QED
        BY <2>4, <3>2 DEF WipeFile, TypeOK
    <2>5. CASE WipeDir(p)
      BY <2>5, GoesHasType DEF WipeDir, TypeOK, Steps, InstallSteps
    <2>6. CASE MakeDir(p)
      <3>1. Package(p) \in SUBSET Files
        BY DEF Package
      <3>2. "copying" \in Steps
        BY DEF Steps, InstallSteps
      <3>3. [proc[p] EXCEPT !.at = "copying", !.left = Package(p)] \in Running
        BY <3>1, <3>2
      <3>4. proc' \in [Processes -> {Idle} \union Running]
        BY <2>6, <3>3, GoesHasType DEF MakeDir
      <3>5. Place(p) \in Places
        BY DEF Place, Places
      <3> QED
        BY <2>6, <3>4, <3>5 DEF MakeDir, TypeOK, Places
    <2>7. CASE CopyFile(p)
      <3>1. PICK f \in proc[p].left :
               /\ tree' = [tree EXCEPT ![Place(p)] = @ \union {f}]
               /\ Goes(p, [proc[p] EXCEPT !.left = @ \ {f}])
        BY <2>7 DEF CopyFile
      <3>2. [proc[p] EXCEPT !.left = @ \ {f}] \in Running
        BY LeftShrinks
      <3>3. proc' \in [Processes -> {Idle} \union Running]
        BY <3>1, <3>2, GoesHasType
      <3>4. tree' \in [Places -> SUBSET Files]
        BY <3>1 DEF TypeOK
      <3> QED
        BY <2>7, <3>3, <3>4 DEF CopyFile, TypeOK
    <2>8. CASE RecordEntry(p)
      <3>1. Row(Place(p)[1]) \in Rows
        BY DEF Row, Rows
      <3>2. [proc[p].memory EXCEPT ![proc[p].current] = Row(Place(p)[1])] \in Manifests
        BY <3>1 DEF Manifests
      <3> QED
        BY <2>8, <3>2, GoesHasType DEF RecordEntry, disk, TypeOK, Steps, InstallSteps
    <2>9. CASE SaveInstall(p)
      BY <2>9, GoesHasType DEF SaveInstall, TypeOK, Steps, Reports
    <2> QED
      BY <1>2, <2>2, <2>3, <2>4, <2>5, <2>6, <2>7, <2>8, <2>9 DEF InstallStep
  <1> QED
    BY <1>1, <1>2

LEMMA UninstallStepHasType ==
    ASSUME TypeOK, NEW p \in Processes, BeginUninstall(p) \/ UninstallStep(p)
    PROVE  TypeOK'
  <1>1. CASE BeginUninstall(p)
    <2>1. PICK env \in Environments, purge \in BOOLEAN, targets \in SUBSET Pairs :
             /\ Start(p, Command(p, "removing", env, [s \in Skills |-> {}], targets,
                                 manifest, purge))
             /\ UNCHANGED disk
      BY <1>1 DEF BeginUninstall, Pairs
    <2>2. Command(p, "removing", env, [s \in Skills |-> {}], targets, manifest, purge)
             \in Running
      BY CommandHasType DEF Steps, UninstallSteps, TypeOK
    <2> QED
      BY <2>1, <2>2, StartHasType DEF TypeOK, disk
  <1>2. CASE UninstallStep(p)
    <2>1. proc[p] # Idle
      BY <1>2, StepIsNotIdle DEF UninstallStep, OpenTarget, PassOver, UnlinkFile, RemoveSkillDir,
         Forget, EndUninstall, At, Steps, UninstallSteps
    <2> USE <2>1, RunningFields, NextRecord
    <2>2. CASE OpenTarget(p) \/ PassOver(p)
      <3>1. PICK x \in proc[p].todo, at \in {"emptying", "forgetting"} :
               Goes(p, [proc[p] EXCEPT !.current = x, !.at = at])
        BY <2>2 DEF OpenTarget, PassOver
      <3>2. [proc[p] EXCEPT !.current = x, !.at = at] \in Running
        BY DEF Steps, UninstallSteps
      <3>3. proc' \in [Processes -> {Idle} \union Running]
        BY <3>1, <3>2, GoesHasType
      <3>4. UNCHANGED <<disk, commands>>
        BY <2>2 DEF OpenTarget, PassOver
      <3> QED
        BY <3>3, <3>4 DEF disk, TypeOK
    <2>3. CASE UnlinkFile(p)
      <3>1. PICK f \in tree[Place(p)] : tree' = [tree EXCEPT ![Place(p)] = @ \ {f}]
        BY <2>3 DEF UnlinkFile
      <3>2. tree' \in [Places -> SUBSET Files]
        BY <3>1 DEF TypeOK
      <3> QED
        BY <2>3, <3>2 DEF UnlinkFile, TypeOK
    <2>4. CASE RemoveSkillDir(p)
      BY <2>4, GoesHasType DEF RemoveSkillDir, TypeOK, Steps, UninstallSteps
    <2>5. CASE Forget(p)
      <3>1. [proc[p].memory EXCEPT ![proc[p].current] = NoRow] \in Manifests
        BY DEF Manifests
      <3> QED
        BY <2>5, <3>1, GoesHasType DEF Forget, TypeOK, Steps, UninstallSteps
    <2>6. CASE EndUninstall(p)
      <3>1. EmptyManifest \in Manifests
        BY DEF EmptyManifest, Manifests
      <3> QED
        BY <2>6, <3>1, GoesHasType DEF EndUninstall, TypeOK, Steps, Reports
    <2> QED
      BY <1>2, <2>2, <2>3, <2>4, <2>5, <2>6 DEF UninstallStep
  <1> QED
    BY <1>1, <1>2

LEMMA ProjectStepHasType ==
    ASSUME TypeOK, NEW p \in Processes, BeginProject(p) \/ ProjectStep(p)
    PROVE  TypeOK'
  <1>1. CASE BeginProject(p)
    <2>1. PICK release \in Releases, targets \in SUBSET Pairs :
             /\ Start(p, Command(p, "syncing", CHOOSE e \in Environments : TRUE, release,
                                 targets, EmptyManifest, FALSE))
             /\ UNCHANGED disk
      <3>1. ASSUME NEW skills \in SUBSET Skills
            PROVE  {ProjectHarness} \X skills \in SUBSET Pairs
        BY DEF Pairs, Known
      <3> QED
        BY <1>1, <3>1 DEF BeginProject
    <2>2. EmptyManifest \in Manifests
      BY DEF EmptyManifest, Manifests
    <2>3. Command(p, "syncing", CHOOSE e \in Environments : TRUE, release, targets,
                  EmptyManifest, FALSE) \in Running
      BY <2>2, CommandHasType, AnyEnvironment DEF Steps, ProjectSteps
    <2> QED
      BY <2>1, <2>3, StartHasType DEF TypeOK, disk
  <1>2. CASE ProjectStep(p)
    <2>1. proc[p] # Idle
      BY <1>2, StepIsNotIdle DEF ProjectStep, SyncSkillDir, PruneEntry, EndPrune,
         ClearName, LinkFile, EndLink, EndProject, At, Steps, ProjectSteps
    <2> USE <2>1, RunningFields, NextRecord
    <2>2. CASE SyncSkillDir(p)
      <3>1. PICK x \in proc[p].todo, left \in SUBSET Files :
               Goes(p, [proc[p] EXCEPT !.current = x, !.left = left, !.at = "pruning"])
        BY <2>2 DEF SyncSkillDir
      <3>2. [proc[p] EXCEPT !.current = x, !.left = left, !.at = "pruning"] \in Running
        BY DEF Steps, ProjectSteps
      <3>3. proc' \in [Processes -> {Idle} \union Running]
        BY <3>1, <3>2, GoesHasType
      <3>4. UNCHANGED <<disk, commands>>
        BY <2>2 DEF SyncSkillDir
      <3> QED
        BY <3>3, <3>4 DEF disk, TypeOK
    <2>3. CASE PruneEntry(p)
      <3>1. PICK f \in proc[p].left :
               /\ local' \in {local, [local EXCEPT ![proc[p].current[2]][f] = "none"]}
               /\ Goes(p, [proc[p] EXCEPT !.left = @ \ {f}])
        BY <2>3 DEF PruneEntry
      <3>2. [proc[p] EXCEPT !.left = @ \ {f}] \in Running
        BY LeftShrinks
      <3>3. proc' \in [Processes -> {Idle} \union Running]
        BY <3>1, <3>2, GoesHasType
      <3>4. local' \in [Skills -> [Files -> Kinds]]
        <4>1. [local EXCEPT ![proc[p].current[2]][f] = "none"] \in [Skills -> [Files -> Kinds]]
          BY DEF TypeOK, Kinds
        <4> QED
          BY <3>1, <4>1 DEF TypeOK
      <3> QED
        BY <2>3, <3>3, <3>4 DEF PruneEntry, TypeOK
    <2>4. CASE EndPrune(p)
      <3>1. proc' \in [Processes -> {Idle} \union Running]
        BY <2>4, GoesHasType DEF EndPrune, Steps, ProjectSteps
      <3>2. UNCHANGED <<disk, commands>>
        BY <2>4 DEF EndPrune
      <3> QED
        BY <3>1, <3>2 DEF disk, TypeOK
    <2>5. CASE ClearName(p)
      <3>1. PICK f \in proc[p].left :
               local' = [local EXCEPT ![proc[p].current[2]][f] = "none"]
        BY <2>5 DEF ClearName
      <3>2. local' \in [Skills -> [Files -> Kinds]]
        BY <3>1 DEF TypeOK, Kinds
      <3> QED
        BY <2>5, <3>2 DEF ClearName, TypeOK
    <2>6. CASE LinkFile(p)
      <3>1. PICK f \in proc[p].left :
               /\ local' = [local EXCEPT ![proc[p].current[2]][f] = "link"]
               /\ Goes(p, [proc[p] EXCEPT !.left = @ \ {f}])
        BY <2>6 DEF LinkFile
      <3>2. [proc[p] EXCEPT !.left = @ \ {f}] \in Running
        BY LeftShrinks
      <3>3. proc' \in [Processes -> {Idle} \union Running]
        BY <3>1, <3>2, GoesHasType
      <3>4. local' \in [Skills -> [Files -> Kinds]]
        BY <3>1 DEF TypeOK, Kinds
      <3> QED
        BY <2>6, <3>3, <3>4 DEF LinkFile, TypeOK
    <2>7. CASE EndLink(p)
      <3>1. proc' \in [Processes -> {Idle} \union Running]
        BY <2>7, GoesHasType DEF EndLink, Steps, ProjectSteps
      <3> QED
        BY <2>7, <3>1 DEF EndLink, disk, TypeOK
    <2>8. CASE EndProject(p)
      <3>1. proc' \in [Processes -> {Idle} \union Running]
        BY <2>8, GoesHasType DEF EndProject, Steps, Reports
      <3> QED
        BY <2>8, <3>1 DEF EndProject, disk, TypeOK
    <2> QED
      BY <1>2, <2>2, <2>3, <2>4, <2>5, <2>6, <2>7, <2>8 DEF ProjectStep
  <1> QED
    BY <1>1, <1>2

LEMMA EndHasType ==
    ASSUME TypeOK, NEW p \in Processes, Abort(p) \/ Return(p)
    PROVE  TypeOK'
  <1>1. Goes(p, Idle) /\ UNCHANGED <<disk, commands>>
    BY DEF Abort, Return
  <1> QED
    BY <1>1, GoesHasType DEF disk, TypeOK

LEMMA UserHasType ==
    ASSUME TypeOK, UserEditsSkill \/ UserRemovesSkill \/ UserEditsProject
    PROVE  TypeOK'
  <1>1. UserEdit
    BY DEF UserEditsSkill, UserRemovesSkill, UserEditsProject
  <1>3. /\ proc' \in [Processes -> {Idle} \union Running]
        /\ commands' \in 0 .. MaxCommands
        /\ manifest' \in Manifests
    BY <1>1, DisturbedHasType DEF UserEdit, TypeOK
  <1>4. CASE UserEditsSkill
    BY <1>3, <1>4 DEF UserEditsSkill, TypeOK, Places
  <1>5. CASE UserRemovesSkill
    BY <1>3, <1>5 DEF UserRemovesSkill, TypeOK
  <1>6. CASE UserEditsProject
    BY <1>3, <1>6 DEF UserEditsProject, TypeOK
  <1> QED
    BY <1>4, <1>5, <1>6

LEMMA NextKeepsType == TypeOK /\ [Next]_vars => TypeOK'
  <1> SUFFICES ASSUME TypeOK, [Next]_vars PROVE TypeOK'
    OBVIOUS
  <1>1. CASE UNCHANGED vars
    BY <1>1 DEF vars, TypeOK
  <1>2. CASE Next
    BY <1>2, InstallStepHasType, UninstallStepHasType, ProjectStepHasType, EndHasType,
       UserHasType DEF Next
  <1> QED
    BY <1>1, <1>2

\* Every variable keeps its type, whatever races, fails or is killed.
THEOREM TypeCorrect == Spec => []TypeOK
  BY InitHasType, NextKeepsType, PTL DEF Spec

-----------------------------------------------------------------------------
(* The inductive invariant.  All but one of its parts are about a command  *)
(* that has the disk to itself; GoneIsEmpty holds whatever happens.        *)

\* A skill directory that is not there has no files.
GoneIsEmpty == \A place \in Places : place \notin dirs => tree[place] = {}

Alone(p) == proc[p] # Idle /\ proc[p].alone

\* Whoever has the disk to itself is the only one that runs.
AloneIsAlone ==
    \A p \in Processes : Alone(p) => \A q \in Processes \ {p} : proc[q] = Idle

PlaceOf(p, x) == <<proc[p].env[x[1]], x[2]>>
MidInstall == {"wiping", "making", "copying"}

\* What an install has done so far: the directories of the pairs it has behind
\* it are whole, but for the one it is about to write again for another harness.
InstallProgress(p) ==
    proc[p].at \in InstallSteps \union {"installed"} =>
       /\ proc[p].todo \subseteq proc[p].targets
       /\ \A x \in proc[p].targets : Marker \in proc[p].ships[x[2]]
       /\ proc[p].at \in MidInstall => proc[p].current \in proc[p].todo
       /\ \A x \in proc[p].targets \ proc[p].todo :
             /\ proc[p].memory[x] = Row(proc[p].env[x[1]])
             /\ proc[p].env[x[1]] \in roots
             /\ \/ proc[p].at \in MidInstall /\ PlaceOf(p, x) = Place(p)
                \/ PlaceOf(p, x) \in dirs /\ tree[PlaceOf(p, x)] = proc[p].ships[x[2]]
       /\ At(p, "making") => tree[Place(p)] = {}
       /\ At(p, "copying") =>
             /\ Place(p) \in dirs
             /\ proc[p].left \subseteq Package(p)
             /\ tree[Place(p)] = Package(p) \ proc[p].left
       /\ \A x \in Pairs : manifest[x] # NoRow => proc[p].memory[x] # NoRow
       /\ At(p, "installed") =>
             /\ proc[p].todo = {}
             /\ \A x \in proc[p].targets : manifest[x] = proc[p].memory[x]

\* The row an uninstall is at, and what is left of its directory.
AtRow(p) ==
    LET x == proc[p].current
    IN  IF x[1] \in Known
        THEN /\ manifest[x].root \in Roots => manifest[x].root = Place(p)[1]
             /\ At(p, "forgetting") => Place(p) \notin dirs
        ELSE proc[p].purge

\* An uninstall remembers what the manifest says; the directory it works in is
\* the one the row names, if the row has a root.  Only a purge comes to rows of
\* harnesses that are not known, and has no directory for them.
UninstallProgress(p) ==
    proc[p].at \in UninstallSteps =>
       /\ proc[p].memory = manifest
       /\ IF proc[p].purge THEN \A x \in Pairs : manifest[x] # NoRow => x \in proc[p].todo
                           ELSE proc[p].todo \subseteq Known \X Skills
       /\ proc[p].at \in {"emptying", "forgetting"} => AtRow(p)

Entry(p, f) == local[proc[p].current[2]][f]

\* An init has the directories behind it in step with the source.
ProjectProgress(p) ==
    proc[p].at \in ProjectSteps \union {"initialised"} =>
       /\ proc[p].todo \subseteq proc[p].targets
       /\ proc[p].targets \subseteq {ProjectHarness} \X Skills
       /\ proc[p].at \in {"pruning", "linking"} => proc[p].current \in proc[p].todo
       /\ \A x \in proc[p].targets \ proc[p].todo, f \in Files :
             local[x[2]][f] = "link" <=> f \in proc[p].ships[x[2]]
       /\ At(p, "pruning") =>
             \A f \in Files \ proc[p].left : Entry(p, f) = "link" => f \in Package(p)
       /\ At(p, "linking") =>
             /\ proc[p].left \subseteq Package(p)
             /\ \A f \in Files : Entry(p, f) = "link" => f \in Package(p)
             /\ \A f \in Package(p) \ proc[p].left : Entry(p, f) = "link"
       /\ At(p, "initialised") => proc[p].todo = {}

Progress(p) == InstallProgress(p) /\ UninstallProgress(p) /\ ProjectProgress(p)

IInv ==
    /\ TypeOK
    /\ GoneIsEmpty
    /\ AloneIsAlone
    /\ \A p \in Processes : Alone(p) => Progress(p)

LEMMA InitHasIInv == Init => IInv
  <1> SUFFICES ASSUME Init PROVE IInv
    OBVIOUS
  <1>1. TypeOK
    BY InitHasType
  <1>2. GoneIsEmpty
    BY DEF Init, GoneIsEmpty
  <1>3. \A p \in Processes : proc[p] = Idle
    BY DEF Init
  <1> QED
    BY <1>1, <1>2, <1>3 DEF IInv, AloneIsAlone, Alone

\* The steps that change a skill directory; the others leave all of them alone.
LEMMA WhatChangesDirectories ==
    ASSUME Next
    PROVE  \/ \E p \in Processes :
                 WipeFile(p) \/ WipeDir(p) \/ MakeDir(p) \/ CopyFile(p)
                 \/ UnlinkFile(p) \/ RemoveSkillDir(p)
           \/ UserEditsSkill \/ UserRemovesSkill
           \/ UNCHANGED <<tree, dirs>>
  <1>1. CASE \E p \in Processes : BeginInstall(p) \/ BeginUninstall(p) \/ BeginProject(p)
    BY <1>1 DEF BeginInstall, BeginUninstall, BeginProject, disk
  <1>2. CASE \E p \in Processes : InstallStep(p)
    BY <1>2 DEF InstallStep, SaveBackfill, Deploy, RecordEntry, SaveInstall, disk
  <1>3. CASE \E p \in Processes : UninstallStep(p)
    BY <1>3 DEF UninstallStep, OpenTarget, PassOver, Forget, EndUninstall, disk
  <1>4. CASE \E p \in Processes : ProjectStep(p)
    BY <1>4 DEF ProjectStep, SyncSkillDir, PruneEntry, EndPrune, ClearName, LinkFile,
       EndLink, EndProject, disk
  <1>5. CASE \E p \in Processes : Abort(p) \/ Return(p)
    BY <1>5 DEF Abort, Return, disk
  <1>6. CASE UserEditsProject
    BY <1>6 DEF UserEditsProject
  <1> QED
    BY <1>1, <1>2, <1>3, <1>4, <1>5, <1>6 DEF Next

LEMMA NextKeepsGoneIsEmpty ==
    ASSUME TypeOK, GoneIsEmpty, [Next]_vars
    PROVE  GoneIsEmpty'
  <1>1. CASE UNCHANGED <<tree, dirs>>
    BY <1>1 DEF GoneIsEmpty
  <1>2. ASSUME NEW p \in Processes, proc[p] # Idle,
               WipeFile(p) \/ WipeDir(p) \/ MakeDir(p) \/ CopyFile(p)
               \/ UnlinkFile(p) \/ RemoveSkillDir(p)
        PROVE  GoneIsEmpty'
    <2>1. CASE WipeFile(p) \/ UnlinkFile(p)
      <3>1. dirs' = dirs /\ \E f : tree' = [tree EXCEPT ![Place(p)] = @ \ {f}]
        BY <2>1 DEF WipeFile, UnlinkFile
      <3> QED
        BY <3>1 DEF GoneIsEmpty, TypeOK
    <2>2. CASE WipeDir(p) \/ RemoveSkillDir(p)
      <3>1. tree' = tree /\ dirs' = dirs \ {Place(p)} /\ tree[Place(p)] = {}
        BY <2>2 DEF WipeDir, RemoveSkillDir
      <3> QED
        BY <3>1 DEF GoneIsEmpty
    <2>3. CASE MakeDir(p)
      BY <2>3 DEF GoneIsEmpty, MakeDir
    <2>4. CASE CopyFile(p)
      <3>1. /\ Place(p) \in dirs /\ dirs' = dirs
            /\ \E f : tree' = [tree EXCEPT ![Place(p)] = @ \union {f}]
        BY <2>4 DEF CopyFile
      <3> QED
        BY <3>1 DEF GoneIsEmpty, TypeOK
    <2> QED
      BY <1>2, <2>1, <2>2, <2>3, <2>4
  <1>3. CASE UserEditsSkill
    <2>1. PICK place \in Places, files \in SUBSET Files :
             tree' = [tree EXCEPT ![place] = files] /\ dirs' = dirs \union {place}
      BY <1>3 DEF UserEditsSkill
    <2> QED
      BY <2>1 DEF GoneIsEmpty, TypeOK
  <1>4. CASE UserRemovesSkill
    <2>1. PICK place \in dirs :
             tree' = [tree EXCEPT ![place] = {}] /\ dirs' = dirs \ {place}
      BY <1>4 DEF UserRemovesSkill
    <2> QED
      BY <2>1 DEF GoneIsEmpty, TypeOK
  <1>5. ASSUME NEW p \in Processes,
               WipeFile(p) \/ WipeDir(p) \/ MakeDir(p) \/ CopyFile(p)
               \/ UnlinkFile(p) \/ RemoveSkillDir(p)
        PROVE  proc[p] # Idle
    BY <1>5 DEF WipeFile, WipeDir, MakeDir, CopyFile, UnlinkFile, RemoveSkillDir, At, Idle
  <1> QED
    BY <1>1, <1>2, <1>3, <1>4, <1>5, WhatChangesDirectories DEF vars

-----------------------------------------------------------------------------
(* Who moves while somebody has the disk to itself. *)

Begins(p) == BeginInstall(p) \/ BeginUninstall(p) \/ BeginProject(p)
Moves(p) == InstallStep(p) \/ UninstallStep(p) \/ ProjectStep(p)
Ends(p) == Abort(p) \/ Return(p)

LEMMA BeginsStarts ==
    ASSUME NEW p \in Processes, Begins(p)
    PROVE  /\ At(p, "idle")
           /\ UNCHANGED disk
           /\ proc'[p] # Idle /\ (proc'[p].alone => NobodyRunsBut(p))
           /\ \A q \in Processes \ {p} : proc'[q] = Disturbed(q)
  <1>1. PICK at, env, ships, targets, memory, purge :
           /\ at \in Steps
           /\ Start(p, Command(p, at, env, ships, targets, memory, purge))
           /\ UNCHANGED disk
    <2>1. CASE BeginInstall(p)
      BY <2>1 DEF BeginInstall, Steps, InstallSteps
    <2>2. CASE BeginUninstall(p)
      BY <2>2 DEF BeginUninstall, Steps, UninstallSteps
    <2>3. CASE BeginProject(p)
      BY <2>3 DEF BeginProject, Steps, ProjectSteps
    <2> QED
      BY <2>1, <2>2, <2>3 DEF Begins
  <1>2. proc'[p] = Command(p, at, env, ships, targets, memory, purge)
    BY <1>1 DEF Start
  <1>3. proc'[p].at = at /\ (proc'[p].alone => NobodyRunsBut(p))
    <2>1. proc'[p].at = at
      BY <1>2 DEF Command
    <2>2. CASE ~NobodyRunsBut(p)
      <3>1. NobodyRunsBut(p) = FALSE
        BY <2>2 DEF NobodyRunsBut
      <3>2. Command(p, at, env, ships, targets, memory, purge).alone = FALSE
        BY <3>1 DEF Command
      <3> QED
        BY <1>2, <2>1, <3>2
    <2> QED
      BY <2>1, <2>2
  <1>4. proc'[p] # Idle
    BY <1>1, <1>3 DEF Idle, Steps, InstallSteps, UninstallSteps, ProjectSteps, Reports
  <1>5. /\ At(p, "idle")
        /\ \A q \in Processes \ {p} : proc'[q] = Disturbed(q)
    BY <1>1 DEF Start
  <1> QED
    BY <1>1, <1>3, <1>4, <1>5

LEMMA MovesGoOn ==
    ASSUME TypeOK, NEW p \in Processes, Moves(p)
    PROVE  /\ proc[p] # Idle
           /\ proc'[p] # Idle /\ proc'[p].alone = proc[p].alone
           /\ \A q \in Processes \ {p} : proc'[q] = proc[q]
  <1>1. proc[p] # Idle
    <2>1. CASE InstallStep(p)
      BY <2>1, StepIsNotIdle DEF InstallStep, SaveBackfill, Deploy, WipeFile, WipeDir,
         MakeDir, CopyFile, RecordEntry, SaveInstall, At, Steps, InstallSteps
    <2>2. CASE UninstallStep(p)
      BY <2>2, StepIsNotIdle DEF UninstallStep, OpenTarget, PassOver, UnlinkFile, RemoveSkillDir,
         Forget, EndUninstall, At, Steps, UninstallSteps
    <2>3. CASE ProjectStep(p)
      BY <2>3, StepIsNotIdle DEF ProjectStep, SyncSkillDir, PruneEntry, EndPrune,
         ClearName, LinkFile, EndLink, EndProject, At, Steps, ProjectSteps
    <2> QED
      BY <2>1, <2>2, <2>3 DEF Moves
  <1>2. proc[p] \in Running
    BY <1>1, RunningFields
  <1>3. \/ proc' = proc
        \/ \E r : Goes(p, r) /\ r.at \in Steps /\ r.alone = proc[p].alone
    <2>1. CASE WipeFile(p) \/ UnlinkFile(p) \/ ClearName(p)
      BY <2>1 DEF WipeFile, UnlinkFile, ClearName
    <2>2. CASE SaveBackfill(p) \/ WipeDir(p) \/ SaveInstall(p) \/ RemoveSkillDir(p)
               \/ EndUninstall(p) \/ EndProject(p)
      <3>1. PICK at \in Steps : Goes(p, [proc[p] EXCEPT !.at = at])
        BY <2>2 DEF SaveBackfill, WipeDir, SaveInstall, RemoveSkillDir, EndUninstall,
           EndProject, Steps, InstallSteps, UninstallSteps, Reports
      <3> QED
        BY <1>2, <3>1 DEF Running
    <2>3. CASE CopyFile(p) \/ PruneEntry(p) \/ LinkFile(p)
      <3>1. PICK left : Goes(p, [proc[p] EXCEPT !.left = left])
        BY <2>3 DEF CopyFile, PruneEntry, LinkFile
      <3> QED
        BY <1>2, <3>1 DEF Running, Steps
    <2>4. CASE MakeDir(p) \/ EndPrune(p)
      <3>1. PICK at, left : at \in Steps /\ Goes(p, [proc[p] EXCEPT !.at = at, !.left = left])
        BY <2>4 DEF MakeDir, EndPrune, Steps, InstallSteps, ProjectSteps
      <3>2. /\ [proc[p] EXCEPT !.at = at, !.left = left].at = at
            /\ [proc[p] EXCEPT !.at = at, !.left = left].alone = proc[p].alone
        BY <1>2 DEF Running
      <3> QED
        BY <3>1, <3>2
    <2>5. CASE Deploy(p) \/ OpenTarget(p) \/ PassOver(p)
      <3>1. PICK at, x : at \in Steps /\ Goes(p, [proc[p] EXCEPT !.current = x, !.at = at])
        BY <2>5 DEF Deploy, OpenTarget, PassOver, Steps, InstallSteps, UninstallSteps
      <3>2. /\ [proc[p] EXCEPT !.current = x, !.at = at].at = at
            /\ [proc[p] EXCEPT !.current = x, !.at = at].alone = proc[p].alone
        BY <1>2 DEF Running
      <3> QED
        BY <3>1, <3>2
    <2>6. CASE SyncSkillDir(p)
      <3>1. PICK left, x :
               Goes(p, [proc[p] EXCEPT !.current = x, !.left = left, !.at = "pruning"])
        BY <2>6 DEF SyncSkillDir
      <3> DEFINE r == [proc[p] EXCEPT !.current = x, !.left = left, !.at = "pruning"]
      <3>2. r.at = "pruning" /\ r.alone = proc[p].alone
        BY <1>2 DEF Running
      <3> QED
        BY <3>1, <3>2 DEF Steps, ProjectSteps
    <2>7. CASE EndLink(p)
      <3>1. PICK todo : Goes(p, [proc[p] EXCEPT !.todo = todo, !.at = "syncing"])
        BY <2>7 DEF EndLink
      <3> DEFINE r == [proc[p] EXCEPT !.todo = todo, !.at = "syncing"]
      <3>2. r.at = "syncing" /\ r.alone = proc[p].alone
        BY <1>2 DEF Running
      <3> QED
        BY <3>1, <3>2 DEF Steps, ProjectSteps
    <2>8. CASE RecordEntry(p) \/ Forget(p)
      <3>1. PICK at, memory, todo :
               at \in Steps /\ Goes(p, [proc[p] EXCEPT !.memory = memory, !.todo = todo, !.at = at])
        BY <2>8 DEF RecordEntry, Forget, Steps, InstallSteps, UninstallSteps
      <3> DEFINE r == [proc[p] EXCEPT !.memory = memory, !.todo = todo, !.at = at]
      <3>2. r.at = at /\ r.alone = proc[p].alone
        BY <1>2 DEF Running
      <3> QED
        BY <3>1, <3>2
    <2> QED
      BY <2>1, <2>2, <2>3, <2>4, <2>5, <2>6, <2>7, <2>8
         DEF Moves, InstallStep, UninstallStep, ProjectStep
  <1>4. CASE proc' = proc
    BY <1>1, <1>4
  <1>5. CASE \E r : Goes(p, r) /\ r.at \in Steps /\ r.alone = proc[p].alone
    <2>1. PICK r : Goes(p, r) /\ r.at \in Steps /\ r.alone = proc[p].alone
      BY <1>5
    <2>2. r # Idle
      BY <2>1 DEF Idle, Steps, InstallSteps, UninstallSteps, ProjectSteps, Reports
    <2>3. proc'[p] = r /\ \A q \in Processes \ {p} : proc'[q] = proc[q]
      BY <2>1 DEF Goes, TypeOK
    <2> QED
      BY <1>1, <2>1, <2>2, <2>3
  <1> QED
    BY <1>3, <1>4, <1>5

LEMMA EndsIdle ==
    ASSUME TypeOK, NEW p \in Processes, Ends(p)
    PROVE  /\ proc[p] # Idle
           /\ proc'[p] = Idle
           /\ \A q \in Processes \ {p} : proc'[q] = proc[q]
  <1>1. proc[p] # Idle
    BY DEF Ends, Abort, Return, Idle, Reports
  <1>2. Goes(p, Idle)
    BY DEF Ends, Abort, Return
  <1> QED
    BY <1>1, <1>2 DEF Goes, TypeOK

\* A process that was disturbed is idle as before, or no longer alone.
LEMMA DisturbedIsNotAlone ==
    ASSUME TypeOK, NEW q \in Processes
    PROVE  /\ Disturbed(q) = Idle <=> proc[q] = Idle
           /\ proc[q] # Idle => ~Disturbed(q).alone
  <1>1. CASE proc[q] = Idle
    BY <1>1 DEF Disturbed
  <1>2. CASE proc[q] # Idle
    <2>1. proc[q] \in Running /\ Disturbed(q) = [proc[q] EXCEPT !.alone = FALSE]
      BY <1>2, RunningFields DEF Disturbed
    <2>2. Disturbed(q).alone = FALSE
      BY <2>1 DEF Running
    <2>3. Disturbed(q) # Idle
      BY <2>1 DEF Running, Idle, InstallSteps, UninstallSteps, ProjectSteps, Reports
    <2> QED
      BY <1>2, <2>2, <2>3
  <1> QED
    BY <1>1, <1>2

LEMMA UserDisturbs ==
    ASSUME UserEditsSkill \/ UserRemovesSkill \/ UserEditsProject
    PROVE  \A q \in Processes : proc'[q] = Disturbed(q)
  BY DEF UserEditsSkill, UserRemovesSkill, UserEditsProject, UserEdit

\* A step after which p has the disk to itself is its start or a step of its own.
LEMMA AloneMovesAlone ==
    ASSUME TypeOK, AloneIsAlone, [Next]_vars, NEW p \in Processes, Alone(p)'
    PROVE  \/ Begins(p)
           \/ Moves(p) /\ Alone(p)
           \/ UNCHANGED vars /\ Alone(p)
  <1>1. CASE UNCHANGED vars
    BY <1>1 DEF vars, Alone
  <1>2. CASE UserEditsSkill \/ UserRemovesSkill \/ UserEditsProject
    BY <1>2, UserDisturbs, DisturbedIsNotAlone DEF Alone
  <1>3. ASSUME NEW q \in Processes, Begins(q) \/ Moves(q) \/ Ends(q), q # p
        PROVE  FALSE
    <2>1. CASE Begins(q)
      BY <1>3, <2>1, BeginsStarts, DisturbedIsNotAlone DEF Alone
    <2>2. CASE Moves(q) \/ Ends(q)
      <3>1. proc'[p] = proc[p] /\ proc[q] # Idle
        BY <1>3, <2>2, MovesGoOn, EndsIdle
      <3> QED
        BY <1>3, <3>1 DEF Alone, AloneIsAlone
    <2> QED
      BY <1>3, <2>1, <2>2
  <1>4. CASE Moves(p)
    BY <1>4, MovesGoOn DEF Alone
  <1>5. CASE Ends(p)
    BY <1>5, EndsIdle DEF Alone
  <1> QED
    BY <1>1, <1>2, <1>3, <1>4, <1>5 DEF Next, Begins, Moves, Ends

LEMMA NextKeepsAloneIsAlone ==
    ASSUME TypeOK, AloneIsAlone, [Next]_vars
    PROVE  AloneIsAlone'
  <1> SUFFICES ASSUME NEW p \in Processes, Alone(p)', NEW q \in Processes \ {p}
               PROVE  proc'[q] = Idle
    BY DEF AloneIsAlone
  <1>1. CASE Begins(p)
    <2>1. NobodyRunsBut(p) /\ proc'[q] = Disturbed(q)
      BY <1>1, BeginsStarts DEF Alone
    <2>2. proc[q] = Idle
      BY <2>1, StepIsNotIdle DEF NobodyRunsBut, At, TypeOK, Running, Idle, InstallSteps,
         UninstallSteps, ProjectSteps, Reports
    <2> QED
      BY <2>1, <2>2, DisturbedIsNotAlone
  <1>2. CASE Moves(p) /\ Alone(p)
    <2>1. proc'[q] = proc[q]
      BY <1>2, MovesGoOn
    <2> QED
      BY <1>2, <2>1 DEF AloneIsAlone
  <1>3. CASE UNCHANGED vars /\ Alone(p)
    BY <1>3 DEF AloneIsAlone, vars
  <1> QED
    BY <1>1, <1>2, <1>3, AloneMovesAlone

-----------------------------------------------------------------------------
(* A command that has the disk to itself makes progress. *)

\* What a running command was told stays as it is.
SameOrder(p) ==
    /\ proc'[p].env = proc[p].env
    /\ proc'[p].ships = proc[p].ships
    /\ proc'[p].targets = proc[p].targets
    /\ proc'[p].purge = proc[p].purge

LEMMA GoesIs ==
    ASSUME TypeOK, NEW p \in Processes, NEW r, Goes(p, r)
    PROVE  proc'[p] = r
  BY DEF TypeOK, Goes

LEMMA InstallStarts ==
    ASSUME TypeOK, NEW p \in Processes, BeginInstall(p)
    PROVE  Progress(p)'
  <1>1. PICK env \in Environments, release \in Releases, harnesses \in SUBSET Known,
             skills \in SUBSET Skills, at \in {"backfill", "deploying"} :
           /\ \A s \in skills : release[s] # {}
           /\ Start(p, Command(p, at, env, release, harnesses \X skills,
                               Backfilled(manifest, env), FALSE))
           /\ UNCHANGED disk
    BY DEF BeginInstall
  <1>2. proc'[p] = Command(p, at, env, release, harnesses \X skills,
                           Backfilled(manifest, env), FALSE)
    BY <1>1 DEF Start
  <1>3. /\ proc'[p].at = at
        /\ proc'[p].targets = harnesses \X skills
        /\ proc'[p].todo = harnesses \X skills
        /\ proc'[p].ships = release
        /\ proc'[p].memory = Backfilled(manifest, env)
    BY <1>2 DEF Command
  <1>4. \A x \in Pairs : manifest[x] # NoRow => Backfilled(manifest, env)[x] # NoRow
    <2>1. ASSUME NEW x \in Pairs, manifest[x] # NoRow
          PROVE  Backfilled(manifest, env)[x] # NoRow
      <3>1. env[x[1]] \in Roots
        BY DEF Pairs
      <3>2. manifest[x] \in Rows
        BY <2>1 DEF TypeOK, Manifests
      <3>3. Backfilled(manifest, env)[x] \in Rows
        BY <2>1, <3>1, <3>2 DEF Backfilled, Rows
      <3> QED
        BY <3>3, NoRowIsNoRow
    <2> QED
      BY <2>1
  <1>5. \A x \in harnesses \X skills : Marker \in release[x[2]]
    BY <1>1
  <1>6. manifest' = manifest
    BY <1>1 DEF disk
  <1>7. InstallProgress(p)'
    BY <1>3, <1>4, <1>5, <1>6 DEF InstallProgress, MidInstall, At
  <1>8. UninstallProgress(p)' /\ ProjectProgress(p)'
    BY <1>3 DEF UninstallProgress, ProjectProgress, UninstallSteps, ProjectSteps
  <1> QED
    BY <1>7, <1>8 DEF Progress

LEMMA UninstallStarts ==
    ASSUME TypeOK, NEW p \in Processes, BeginUninstall(p)
    PROVE  Progress(p)'
  <1>1. PICK env \in Environments, harnesses \in SUBSET Harnesses, purge \in BOOLEAN :
           /\ IF purge THEN harnesses = Harnesses ELSE harnesses \subseteq Known
           /\ Start(p, Command(p, "removing", env, [s \in Skills |-> {}],
                               {x \in harnesses \X Skills : manifest[x] # NoRow},
                               manifest, purge))
           /\ UNCHANGED disk
    BY DEF BeginUninstall
  <1>2. proc'[p] = Command(p, "removing", env, [s \in Skills |-> {}],
                           {x \in harnesses \X Skills : manifest[x] # NoRow},
                           manifest, purge)
    BY <1>1 DEF Start
  <1>3. /\ proc'[p].at = "removing"
        /\ proc'[p].todo = {x \in harnesses \X Skills : manifest[x] # NoRow}
        /\ proc'[p].memory = manifest
        /\ proc'[p].purge = purge
    BY <1>2 DEF Command
  <1>4. manifest' = manifest
    BY <1>1 DEF disk
  <1>5. UninstallProgress(p)'
    BY <1>1, <1>3, <1>4 DEF UninstallProgress, Pairs, At
  <1>6. InstallProgress(p)' /\ ProjectProgress(p)'
    BY <1>3 DEF InstallProgress, ProjectProgress, InstallSteps, ProjectSteps
  <1> QED
    BY <1>5, <1>6 DEF Progress

LEMMA ProjectStarts ==
    ASSUME TypeOK, NEW p \in Processes, BeginProject(p)
    PROVE  Progress(p)'
  <1>1. PICK release, env :
           Start(p, Command(p, "syncing", env, release,
                            {ProjectHarness} \X {s \in Skills : release[s] # {}},
                            EmptyManifest, FALSE))
    BY DEF BeginProject
  <1>2. proc'[p] = Command(p, "syncing", env, release,
                           {ProjectHarness} \X {s \in Skills : release[s] # {}},
                           EmptyManifest, FALSE)
    BY <1>1 DEF Start
  <1>3. /\ proc'[p].at = "syncing"
        /\ proc'[p].todo = {ProjectHarness} \X {s \in Skills : release[s] # {}}
        /\ proc'[p].targets = {ProjectHarness} \X {s \in Skills : release[s] # {}}
    BY <1>2 DEF Command
  <1>4. ProjectProgress(p)'
    BY <1>3 DEF ProjectProgress, At
  <1>5. InstallProgress(p)' /\ UninstallProgress(p)'
    BY <1>3 DEF InstallProgress, UninstallProgress, InstallSteps, UninstallSteps
  <1> QED
    BY <1>4, <1>5 DEF Progress

\* The part of InstallProgress that says what is behind the command.
Behind(p) ==
    \A x \in proc[p].targets \ proc[p].todo :
       /\ proc[p].memory[x] = Row(proc[p].env[x[1]])
       /\ proc[p].env[x[1]] \in roots
       /\ \/ proc[p].at \in MidInstall /\ PlaceOf(p, x) = Place(p)
          \/ PlaceOf(p, x) \in dirs /\ tree[PlaceOf(p, x)] = proc[p].ships[x[2]]

Remembers(p) == \A x \in Pairs : manifest[x] # NoRow => proc[p].memory[x] # NoRow

LEMMA InstallMoves ==
    ASSUME TypeOK, GoneIsEmpty, NEW p \in Processes, InstallProgress(p), InstallStep(p)
    PROVE  InstallProgress(p)' /\ proc'[p].at \in InstallSteps \union {"installed"}
  <1>0. proc[p] # Idle /\ proc[p].at \in InstallSteps
    <2>1. proc[p].at \in InstallSteps
      BY DEF InstallStep, SaveBackfill, Deploy, WipeFile, WipeDir, MakeDir, CopyFile,
         RecordEntry, SaveInstall, At, InstallSteps
    <2> QED
      BY <2>1, StepIsNotIdle DEF Steps
  <1> USE <1>0
  <1>1. /\ proc[p] \in Running
        /\ proc[p].todo \subseteq Pairs /\ proc[p].targets \subseteq Pairs
        /\ proc[p].left \subseteq Files
        /\ Place(p) \in Places
        /\ Package(p) \subseteq Files
        /\ proc[p].memory \in Manifests
        /\ proc[p].current \in Pairs
    BY RunningFields
  <1>2. /\ proc[p].todo \subseteq proc[p].targets
        /\ \A x \in proc[p].targets : Marker \in proc[p].ships[x[2]]
        /\ proc[p].at \in MidInstall => proc[p].current \in proc[p].todo
        /\ Behind(p)
        /\ At(p, "making") => tree[Place(p)] = {}
        /\ At(p, "copying") =>
              /\ Place(p) \in dirs
              /\ proc[p].left \subseteq Package(p)
              /\ tree[Place(p)] = Package(p) \ proc[p].left
        /\ Remembers(p)
    BY DEF InstallProgress, Behind, Remembers
  <1> HIDE <1>0
  <1>3. CASE SaveBackfill(p)
    <2>1. Goes(p, [proc[p] EXCEPT !.at = "deploying"]) /\ At(p, "backfill")
      BY <1>3 DEF SaveBackfill
    <2>2. /\ proc'[p] = [proc[p] EXCEPT !.at = "deploying"]
          /\ proc[p].at = "backfill"
      BY <2>1, GoesIs DEF At
    <2>3. /\ proc'[p].at = "deploying" /\ SameOrder(p)
          /\ proc'[p].todo = proc[p].todo
          /\ proc'[p].memory = proc[p].memory
      BY <1>1, <2>2 DEF Running, SameOrder
    <2>4. manifest' = proc[p].memory /\ UNCHANGED <<roots, dirs, tree>>
      BY <1>3 DEF SaveBackfill
    <2>5. Behind(p)'
      BY <1>2, <2>2, <2>3, <2>4 DEF Behind, PlaceOf, SameOrder, MidInstall
    <2>6. Remembers(p)'
      BY <2>3, <2>4 DEF Remembers
    <2> QED
      BY <1>2, <2>3, <2>5, <2>6 DEF InstallProgress, Behind, Remembers, SameOrder, At,
         MidInstall, InstallSteps
  <1>4. CASE Deploy(p)
    <2>1. PICK x \in proc[p].todo, at \in {"wiping", "making"} :
             /\ Goes(p, [proc[p] EXCEPT !.current = x, !.at = at])
             /\ at = "making" => PlaceOf(p, x) \notin dirs
      BY <1>4 DEF Deploy, PlaceOf
    <2>2. proc'[p] = [proc[p] EXCEPT !.current = x, !.at = at]
      BY <2>1, GoesIs
    <2>3. /\ proc'[p].at = at /\ proc'[p].current = x /\ SameOrder(p)
          /\ proc'[p].todo = proc[p].todo
          /\ proc'[p].memory = proc[p].memory
      BY <1>1, <2>2 DEF Running, SameOrder
    <2>4. UNCHANGED <<roots, dirs, tree, manifest>> /\ proc[p].at = "deploying"
      BY <1>4 DEF Deploy, disk, At
    <2>5. Behind(p)'
      BY <1>2, <2>3, <2>4 DEF Behind, PlaceOf, SameOrder, MidInstall
    <2>6. Remembers(p)'
      BY <1>2, <2>3, <2>4 DEF Remembers
    <2>7. Place(p)' = PlaceOf(p, x) /\ PlaceOf(p, x) \in Places
      <3>1. Place(p)' = PlaceOf(p, x)
        BY <2>3 DEF Place, PlaceOf, SameOrder
      <3>2. x \in Pairs /\ proc[p].env \in Environments
        BY <1>0, <1>1, RunningFields
      <3> QED
        BY <3>1, <3>2 DEF PlaceOf, Pairs, Places
    <2>8. at = "making" => tree'[Place(p)'] = {}
      BY <2>1, <2>4, <2>7 DEF GoneIsEmpty
    <2> QED
      BY <1>2, <2>3, <2>5, <2>6, <2>8 DEF InstallProgress, Behind, Remembers, SameOrder, At,
         MidInstall, InstallSteps
  <1>5. CASE WipeFile(p)
    <2>1. PICK f \in tree[Place(p)] : tree' = [tree EXCEPT ![Place(p)] = @ \ {f}]
      BY <1>5 DEF WipeFile
    <2>2. UNCHANGED <<roots, dirs, manifest, proc>> /\ proc[p].at = "wiping"
      BY <1>5 DEF WipeFile, At
    <2>3. Behind(p)'
      BY <1>2, <2>1, <2>2 DEF Behind, PlaceOf, Place, MidInstall, TypeOK
    <2>4. Remembers(p)'
      BY <1>2, <2>2 DEF Remembers
    <2> QED
      BY <1>2, <2>2, <2>3, <2>4 DEF InstallProgress, Behind, Remembers, At,
         MidInstall, InstallSteps
  <1>6. CASE WipeDir(p)
    <2>1. /\ Goes(p, [proc[p] EXCEPT !.at = "making"]) /\ proc[p].at = "wiping"
          /\ dirs' = dirs \ {Place(p)}
          /\ tree[Place(p)] = {}
          /\ UNCHANGED <<roots, tree, manifest>>
      BY <1>6 DEF WipeDir, At
    <2>2. proc'[p] = [proc[p] EXCEPT !.at = "making"]
      BY <2>1, GoesIs
    <2>3. /\ proc'[p].at = "making" /\ proc'[p].current = proc[p].current /\ SameOrder(p)
          /\ proc'[p].todo = proc[p].todo
          /\ proc'[p].memory = proc[p].memory
      BY <1>1, <2>2 DEF Running, SameOrder
    <2>4. Place(p)' = Place(p)
      BY <2>3 DEF Place, SameOrder
    <2>5. Behind(p)'
      BY <1>2, <2>1, <2>3, <2>4 DEF Behind, PlaceOf, SameOrder, MidInstall
    <2>6. Remembers(p)'
      BY <1>2, <2>1, <2>3 DEF Remembers
    <2> QED
      BY <1>2, <2>1, <2>3, <2>4, <2>5, <2>6 DEF InstallProgress, Behind, Remembers, SameOrder,
         At, MidInstall, InstallSteps
  <1>7. CASE MakeDir(p)
    <2>1. /\ Goes(p, [proc[p] EXCEPT !.at = "copying", !.left = Package(p)])
          /\ proc[p].at = "making"
          /\ dirs' = dirs \union {Place(p)}
          /\ roots' = roots \union {Place(p)[1]}
          /\ UNCHANGED <<tree, manifest>>
      BY <1>7 DEF MakeDir, At
    <2>2. proc'[p] = [proc[p] EXCEPT !.at = "copying", !.left = Package(p)]
      BY <2>1, GoesIs
    <2>3. /\ proc'[p].at = "copying" /\ proc'[p].current = proc[p].current /\ SameOrder(p)
          /\ proc'[p].left = Package(p)
          /\ proc'[p].todo = proc[p].todo
          /\ proc'[p].memory = proc[p].memory
      BY <1>1, <2>2 DEF Running, SameOrder
    <2>4. Place(p)' = Place(p) /\ Package(p)' = Package(p)
      BY <2>3 DEF Place, Package, SameOrder
    <2>5. Behind(p)'
      BY <1>2, <2>1, <2>3, <2>4 DEF Behind, PlaceOf, SameOrder, MidInstall
    <2>6. Remembers(p)'
      BY <1>2, <2>1, <2>3 DEF Remembers
    <2>7. tree[Place(p)] = {}
      BY <1>2, <2>1 DEF At
    <2> QED
      BY <1>2, <2>1, <2>3, <2>4, <2>5, <2>6, <2>7, SMTT(30) DEF InstallProgress, Behind, Remembers,
         SameOrder, At, MidInstall, InstallSteps
  <1>8. CASE CopyFile(p)
    <2>1. PICK f \in proc[p].left :
             /\ tree' = [tree EXCEPT ![Place(p)] = @ \union {f}]
             /\ Goes(p, [proc[p] EXCEPT !.left = @ \ {f}])
      BY <1>8 DEF CopyFile
    <2>2. proc'[p] = [proc[p] EXCEPT !.left = @ \ {f}]
      BY <2>1, GoesIs
    <2>3. /\ proc'[p].at = proc[p].at /\ proc'[p].current = proc[p].current /\ SameOrder(p)
          /\ proc'[p].left = proc[p].left \ {f}
          /\ proc'[p].todo = proc[p].todo
          /\ proc'[p].memory = proc[p].memory
      BY <1>1, <2>2 DEF Running, SameOrder
    <2>4. Place(p)' = Place(p) /\ Package(p)' = Package(p)
      BY <2>3 DEF Place, Package, SameOrder
    <2>5. UNCHANGED <<roots, dirs, manifest>> /\ proc[p].at = "copying"
      BY <1>8 DEF CopyFile, At
    <2>6. /\ tree'[Place(p)] = tree[Place(p)] \union {f}
          /\ \A place \in Places \ {Place(p)} : tree'[place] = tree[place]
      BY <1>1, <2>1 DEF TypeOK
    <2>7. tree'[Place(p)] = Package(p) \ proc'[p].left
      BY <1>2, <2>1, <2>3, <2>5, <2>6 DEF At
    <2>8. Behind(p)'
      <3> SUFFICES ASSUME NEW x \in proc[p].targets \ proc[p].todo
                   PROVE  /\ proc[p].memory[x] = Row(proc[p].env[x[1]])
                          /\ proc[p].env[x[1]] \in roots
                          /\ \/ PlaceOf(p, x) = Place(p)
                             \/ /\ PlaceOf(p, x) \in dirs
                                /\ tree'[PlaceOf(p, x)] = proc[p].ships[x[2]]
        BY <2>3, <2>4, <2>5 DEF Behind, PlaceOf, SameOrder, MidInstall
      <3>1. PlaceOf(p, x) \in Places
        BY <1>1, <1>0, RunningFields DEF PlaceOf, Pairs, Places
      <3> QED
        BY <1>2, <2>5, <2>6, <3>1 DEF Behind
    <2>9. Remembers(p)'
      BY <1>2, <2>3, <2>5 DEF Remembers
    <2> QED
      BY <1>2, <2>3, <2>4, <2>5, <2>7, <2>8, <2>9 DEF InstallProgress, Behind, Remembers,
         SameOrder, At, MidInstall, InstallSteps
  <1>9. CASE RecordEntry(p)
    <2> DEFINE memory == [proc[p].memory EXCEPT ![proc[p].current] = Row(Place(p)[1])]
    <2>1. /\ Goes(p, [proc[p] EXCEPT !.memory = memory, !.todo = @ \ {proc[p].current},
                                     !.at = "deploying"])
          /\ proc[p].at = "copying" /\ proc[p].left = {}
          /\ Place(p)[1] \in roots
          /\ UNCHANGED <<roots, dirs, tree, manifest>>
      BY <1>9 DEF RecordEntry, At, disk
    <2>2. proc'[p] = [proc[p] EXCEPT !.memory = memory, !.todo = @ \ {proc[p].current},
                                     !.at = "deploying"]
      BY <2>1, GoesIs
    <2>3. /\ proc'[p].at = "deploying" /\ SameOrder(p)
          /\ proc'[p].todo = proc[p].todo \ {proc[p].current}
          /\ proc'[p].memory = memory
      BY <1>1, <2>2 DEF Running, SameOrder
    <2>4. /\ memory[proc[p].current] = Row(Place(p)[1])
          /\ \A x \in Pairs \ {proc[p].current} : memory[x] = proc[p].memory[x]
      BY <1>1 DEF Manifests
    <2>5. Row(Place(p)[1]) # NoRow
      <3>1. Place(p)[1] \in Roots
        BY <1>0, RunningFields
      <3> QED
        BY <3>1, NoRowIsNoRow DEF Row, Rows
    <2>6. /\ Place(p) \in dirs
          /\ tree[Place(p)] = Package(p)
      BY <1>2, <2>1 DEF At
    <2>7. Behind(p)'
      <3> SUFFICES ASSUME NEW x \in proc[p].targets, x \notin proc[p].todo \ {proc[p].current}
                   PROVE  /\ memory[x] = Row(proc[p].env[x[1]])
                          /\ proc[p].env[x[1]] \in roots
                          /\ PlaceOf(p, x) \in dirs
                          /\ tree[PlaceOf(p, x)] = proc[p].ships[x[2]]
        BY <2>1, <2>3 DEF Behind, PlaceOf, SameOrder
      <3>1. CASE x = proc[p].current
        BY <2>1, <2>4, <2>6, <3>1 DEF PlaceOf, Place, Package
      <3>2. CASE x # proc[p].current
        <4>1. x \in Pairs /\ x \notin proc[p].todo
          BY <1>1, <3>2
        <4>2. /\ proc[p].memory[x] = Row(proc[p].env[x[1]])
              /\ proc[p].env[x[1]] \in roots
              /\ \/ PlaceOf(p, x) = Place(p)
                 \/ PlaceOf(p, x) \in dirs /\ tree[PlaceOf(p, x)] = proc[p].ships[x[2]]
          BY <1>2, <4>1 DEF Behind
        <4>3. PlaceOf(p, x) = Place(p) => Package(p) = proc[p].ships[x[2]]
          BY DEF PlaceOf, Place, Package
        <4> QED
          BY <2>4, <2>6, <3>2, <4>1, <4>2, <4>3
      <3> QED
        BY <3>1, <3>2
    <2>8. Remembers(p)'
      BY <1>2, <2>1, <2>3, <2>4, <2>5 DEF Remembers
    <2> QED
      BY <1>2, <2>3, <2>7, <2>8 DEF InstallProgress, Behind, Remembers, SameOrder, At,
         MidInstall, InstallSteps
  <1>10. CASE SaveInstall(p)
    <2>1. /\ Goes(p, [proc[p] EXCEPT !.at = "installed"])
          /\ proc[p].at = "deploying" /\ proc[p].todo = {}
          /\ manifest' = IF proc[p].targets = {} THEN manifest ELSE proc[p].memory
          /\ UNCHANGED <<roots, dirs, tree>>
      BY <1>10 DEF SaveInstall, At
    <2>2. proc'[p] = [proc[p] EXCEPT !.at = "installed"]
      BY <2>1, GoesIs
    <2>3. /\ proc'[p].at = "installed" /\ SameOrder(p)
          /\ proc'[p].todo = proc[p].todo
          /\ proc'[p].memory = proc[p].memory
      BY <1>1, <2>2 DEF Running, SameOrder
    <2>4. Behind(p)'
      BY <1>2, <2>1, <2>3 DEF Behind, PlaceOf, SameOrder, MidInstall
    <2>5. Remembers(p)'
      BY <1>2, <2>1, <2>3 DEF Remembers
    <2>6. \A x \in proc[p].targets : manifest'[x] = proc[p].memory[x]
      BY <2>1
    <2> QED
      BY <1>2, <2>1, <2>3, <2>4, <2>5, <2>6 DEF InstallProgress, Behind, Remembers, SameOrder,
         At, MidInstall, InstallSteps
  <1> QED
    BY <1>3, <1>4, <1>5, <1>6, <1>7, <1>8, <1>9, <1>10 DEF InstallStep

LEMMA UninstallMoves ==
    ASSUME TypeOK, NEW p \in Processes, UninstallProgress(p), UninstallStep(p)
    PROVE  UninstallProgress(p)' /\ proc'[p].at \in UninstallSteps \union {"uninstalled"}
  <1>0. proc[p] # Idle /\ proc[p].at \in UninstallSteps
    <2>1. proc[p].at \in UninstallSteps
      BY DEF UninstallStep, OpenTarget, PassOver, UnlinkFile, RemoveSkillDir, Forget, EndUninstall,
         At, UninstallSteps
    <2> QED
      BY <2>1, StepIsNotIdle DEF Steps
  <1>1. /\ proc[p] \in Running
        /\ proc[p].todo \subseteq Pairs
        /\ proc[p].memory \in Manifests
        /\ proc[p].current \in Pairs
    BY <1>0, RunningFields
  <1>2. /\ proc[p].memory = manifest
        /\ IF proc[p].purge THEN \A x \in Pairs : manifest[x] # NoRow => x \in proc[p].todo
                            ELSE proc[p].todo \subseteq Known \X Skills
        /\ proc[p].at \in {"emptying", "forgetting"} => AtRow(p)
    BY <1>0 DEF UninstallProgress
  <1>3. CASE OpenTarget(p)
    <2>1. PICK x \in proc[p].todo, at \in {"emptying", "forgetting"} :
             /\ Goes(p, [proc[p] EXCEPT !.current = x, !.at = at])
             /\ Accepts(proc[p].memory[x], PlaceOf(p, x)[1])
             /\ at = "forgetting" => PlaceOf(p, x) \notin dirs
      BY <1>3 DEF OpenTarget, PlaceOf
    <2>2. proc'[p] = [proc[p] EXCEPT !.current = x, !.at = at]
      BY <2>1, GoesIs
    <2>3. /\ proc'[p].at = at /\ proc'[p].current = x /\ SameOrder(p)
          /\ proc'[p].todo = proc[p].todo
          /\ proc'[p].memory = proc[p].memory
      BY <1>1, <2>2 DEF Running, SameOrder
    <2>4. UNCHANGED <<dirs, manifest>>
      BY <1>3 DEF OpenTarget, disk
    <2>5. Place(p)' = PlaceOf(p, x)
      BY <2>3 DEF Place, PlaceOf, SameOrder
    <2>6. manifest[x].root \in Roots => manifest[x].root = PlaceOf(p, x)[1]
      BY <1>2, <2>1 DEF Accepts
    <2> QED
      BY <1>2, <2>1, <2>3, <2>4, <2>5, <2>6
         DEF UninstallProgress, AtRow, UninstallSteps, At, SameOrder
  <1>4. CASE UnlinkFile(p)
    BY <1>0, <1>2, <1>4 DEF UnlinkFile, UninstallProgress, AtRow, At, Place
  <1>5. CASE RemoveSkillDir(p)
    <2>1. /\ Goes(p, [proc[p] EXCEPT !.at = "forgetting"]) /\ proc[p].at = "emptying"
          /\ dirs' = dirs \ {Place(p)}
          /\ UNCHANGED <<manifest>>
      BY <1>5 DEF RemoveSkillDir, At
    <2>2. proc'[p] = [proc[p] EXCEPT !.at = "forgetting"]
      BY <2>1, GoesIs
    <2>3. /\ proc'[p].at = "forgetting" /\ proc'[p].current = proc[p].current /\ SameOrder(p)
          /\ proc'[p].todo = proc[p].todo
          /\ proc'[p].memory = proc[p].memory
      BY <1>1, <2>2 DEF Running, SameOrder
    <2>4. Place(p)' = Place(p)
      BY <2>3 DEF Place, SameOrder
    <2> QED
      BY <1>2, <2>1, <2>3, <2>4 DEF UninstallProgress, AtRow, UninstallSteps, At, SameOrder
  <1>6. CASE Forget(p)
    <2> DEFINE memory == [proc[p].memory EXCEPT ![proc[p].current] = NoRow]
    <2>1. /\ Goes(p, [proc[p] EXCEPT !.memory = memory, !.todo = @ \ {proc[p].current},
                                     !.at = "removing"])
          /\ manifest' = memory
      BY <1>6 DEF Forget
    <2>2. proc'[p] = [proc[p] EXCEPT !.memory = memory, !.todo = @ \ {proc[p].current},
                                     !.at = "removing"]
      BY <2>1, GoesIs
    <2>3. /\ proc'[p].at = "removing" /\ SameOrder(p)
          /\ proc'[p].todo = proc[p].todo \ {proc[p].current}
          /\ proc'[p].memory = memory
      BY <1>1, <2>2 DEF Running, SameOrder
    <2>4. /\ memory[proc[p].current] = NoRow
          /\ \A x \in Pairs \ {proc[p].current} : memory[x] = manifest[x]
      BY <1>1, <1>2 DEF Manifests
    <2>5. IF proc[p].purge
          THEN \A x \in Pairs : memory[x] # NoRow => x \in proc[p].todo \ {proc[p].current}
          ELSE proc[p].todo \ {proc[p].current} \subseteq Known \X Skills
      BY <1>2, <2>4
    <2> QED
      BY <2>1, <2>3, <2>5 DEF UninstallProgress, UninstallSteps, At, SameOrder
  <1>7. CASE EndUninstall(p)
    <2>1. proc'[p] = [proc[p] EXCEPT !.at = "uninstalled"]
      BY <1>7, GoesIs DEF EndUninstall
    <2>2. proc'[p].at = "uninstalled"
      BY <1>1, <2>1 DEF Running
    <2> QED
      BY <2>2 DEF UninstallProgress, UninstallSteps
  <1>8. CASE PassOver(p)
    <2>1. PICK x \in proc[p].todo :
             x[1] \in Retired /\ Goes(p, [proc[p] EXCEPT !.current = x, !.at = "forgetting"])
      BY <1>8 DEF PassOver
    <2>2. proc'[p] = [proc[p] EXCEPT !.current = x, !.at = "forgetting"]
      BY <2>1, GoesIs
    <2>3. /\ proc'[p].at = "forgetting" /\ proc'[p].current = x /\ SameOrder(p)
          /\ proc'[p].todo = proc[p].todo
          /\ proc'[p].memory = proc[p].memory
      BY <1>1, <2>2 DEF Running, SameOrder
    <2>4. manifest' = manifest
      BY <1>8 DEF PassOver, disk
    <2>5. x[1] \notin Known /\ proc[p].purge
      BY <1>2, <2>1 DEF Known
    <2> QED
      BY <1>2, <2>3, <2>4, <2>5 DEF UninstallProgress, AtRow, UninstallSteps, SameOrder
  <1> QED
    BY <1>3, <1>4, <1>5, <1>6, <1>7, <1>8 DEF UninstallStep

\* The part of ProjectProgress that says what is behind the command.
InStep(p) ==
    \A x \in proc[p].targets \ proc[p].todo, f \in Files :
       local[x[2]][f] = "link" <=> f \in proc[p].ships[x[2]]

LEMMA ProjectMoves ==
    ASSUME TypeOK, NEW p \in Processes, ProjectProgress(p), ProjectStep(p)
    PROVE  ProjectProgress(p)' /\ proc'[p].at \in ProjectSteps \union {"initialised"}
  <1>0. proc[p] # Idle /\ proc[p].at \in ProjectSteps
    <2>1. proc[p].at \in ProjectSteps
      BY DEF ProjectStep, SyncSkillDir, PruneEntry, EndPrune, ClearName, LinkFile, EndLink,
         EndProject, At, ProjectSteps
    <2> QED
      BY <2>1, StepIsNotIdle DEF Steps
  <1>1. /\ proc[p] \in Running
        /\ proc[p].todo \subseteq Pairs
        /\ proc[p].left \subseteq Files
        /\ Package(p) \subseteq Files
        /\ proc[p].current \in Pairs
        /\ proc[p].current[2] \in Skills
    BY <1>0, RunningFields
  <1>2. /\ proc[p].todo \subseteq proc[p].targets
        /\ proc[p].targets \subseteq {ProjectHarness} \X Skills
        /\ proc[p].at \in {"pruning", "linking"} => proc[p].current \in proc[p].todo
        /\ InStep(p)
        /\ At(p, "pruning") =>
              \A f \in Files \ proc[p].left : Entry(p, f) = "link" => f \in Package(p)
        /\ At(p, "linking") =>
              /\ proc[p].left \subseteq Package(p)
              /\ \A f \in Files : Entry(p, f) = "link" => f \in Package(p)
              /\ \A f \in Package(p) \ proc[p].left : Entry(p, f) = "link"
    BY <1>0 DEF ProjectProgress, InStep
  \* The skill directory it is in is none of those behind it.
  <1>3. ASSUME proc[p].at \in {"pruning", "linking"}, NEW x \in proc[p].targets \ proc[p].todo
        PROVE  x[2] # proc[p].current[2] /\ x[2] \in Skills
    BY <1>2, <1>3
  <1>4. CASE SyncSkillDir(p)
    <2>1. PICK x \in proc[p].todo :
             Goes(p, [proc[p] EXCEPT !.current = x,
                                     !.left = {f \in Files : local[x[2]][f] # "none"},
                                     !.at = "pruning"])
      BY <1>4 DEF SyncSkillDir
    <2>2. proc'[p] = [proc[p] EXCEPT !.current = x,
                                     !.left = {f \in Files : local[x[2]][f] # "none"},
                                     !.at = "pruning"]
      BY <2>1, GoesIs
    <2>3. /\ proc'[p].at = "pruning" /\ proc'[p].current = x /\ SameOrder(p)
          /\ proc'[p].left = {f \in Files : local[x[2]][f] # "none"}
          /\ proc'[p].todo = proc[p].todo
      BY <1>1, <2>2 DEF Running, SameOrder
    <2>4. local' = local
      BY <1>4 DEF SyncSkillDir, disk
    <2>5. InStep(p)'
      BY <1>2, <2>3, <2>4 DEF InStep, SameOrder
    <2>6. \A f \in Files \ proc'[p].left : Entry(p, f)' = "none"
      BY <2>3, <2>4 DEF Entry
    <2> QED
      BY <1>2, <2>3, <2>5, <2>6 DEF ProjectProgress, InStep, ProjectSteps, At, SameOrder
  <1>5. CASE PruneEntry(p)
    <2> DEFINE s == proc[p].current[2]
    <2>1. PICK f \in proc[p].left :
             /\ local' = IF local[s][f] = "dir" \/ (local[s][f] = "link" /\ f \notin Package(p))
                         THEN [local EXCEPT ![s][f] = "none"] ELSE local
             /\ Goes(p, [proc[p] EXCEPT !.left = @ \ {f}])
      BY <1>5 DEF PruneEntry
    <2>2. proc'[p] = [proc[p] EXCEPT !.left = @ \ {f}]
      BY <2>1, GoesIs
    <2>3. /\ proc'[p].at = proc[p].at /\ proc'[p].current = proc[p].current /\ SameOrder(p)
          /\ proc'[p].left = proc[p].left \ {f}
          /\ proc'[p].todo = proc[p].todo
      BY <1>1, <2>2 DEF Running, SameOrder
    <2>4. proc[p].at = "pruning"
      BY <1>5 DEF PruneEntry, At
    <2>5. /\ \A t \in Skills \ {s} : local'[t] = local[t]
          /\ \A g \in Files \ {f} : local'[s][g] = local[s][g]
          /\ local'[s][f] = "link" => f \in Package(p)
      BY <1>1, <2>1 DEF TypeOK
    <2>6. Package(p)' = Package(p)
      BY <2>3 DEF Package, SameOrder
    <2>7. InStep(p)'
      BY <1>2, <1>3, <2>3, <2>4, <2>5 DEF InStep, SameOrder
    <2>8. \A g \in Files \ proc'[p].left : local'[s][g] = "link" => g \in Package(p)
      BY <1>2, <2>3, <2>4, <2>5 DEF At, Entry
    <2> QED
      BY <1>2, <2>3, <2>4, <2>6, <2>7, <2>8 DEF ProjectProgress, InStep, ProjectSteps, At,
         Entry, SameOrder
  <1>6. CASE EndPrune(p)
    <2>1. /\ Goes(p, [proc[p] EXCEPT !.at = "linking", !.left = Package(p)])
          /\ proc[p].at = "pruning" /\ proc[p].left = {}
          /\ local' = local
      BY <1>6 DEF EndPrune, At, disk
    <2>2. proc'[p] = [proc[p] EXCEPT !.at = "linking", !.left = Package(p)]
      BY <2>1, GoesIs
    <2>3. /\ proc'[p].at = "linking" /\ proc'[p].current = proc[p].current /\ SameOrder(p)
          /\ proc'[p].left = Package(p)
          /\ proc'[p].todo = proc[p].todo
      BY <1>1, <2>2 DEF Running, SameOrder
    <2>4. Package(p)' = Package(p)
      BY <2>3 DEF Package, SameOrder
    <2>5. InStep(p)'
      BY <1>2, <2>1, <2>3 DEF InStep, SameOrder
    <2>6. \A f \in Files : Entry(p, f)' = Entry(p, f)
      BY <2>1, <2>3 DEF Entry
    <2> QED
      BY <1>2, <2>1, <2>3, <2>4, <2>5, <2>6 DEF ProjectProgress, InStep, ProjectSteps, At,
         SameOrder
  <1>7. CASE ClearName(p)
    <2> DEFINE s == proc[p].current[2]
    <2>1. PICK f \in proc[p].left : local' = [local EXCEPT ![s][f] = "none"]
      BY <1>7 DEF ClearName
    <2>2. proc' = proc /\ proc[p].at = "linking"
      BY <1>7 DEF ClearName, At
    <2>3. /\ \A t \in Skills \ {s} : local'[t] = local[t]
          /\ \A g \in Files \ {f} : local'[s][g] = local[s][g]
          /\ local'[s][f] = "none"
      BY <1>1, <2>1 DEF TypeOK
    <2>4. InStep(p)'
      BY <1>2, <1>3, <2>2, <2>3 DEF InStep
    <2>5. /\ \A g \in Files : local'[s][g] = "link" => g \in Package(p)
          /\ \A g \in Package(p) \ proc[p].left : local'[s][g] = "link"
      BY <1>1, <1>2, <2>1, <2>2, <2>3 DEF At, Entry
    <2> QED
      BY <1>2, <2>2, <2>4, <2>5 DEF ProjectProgress, InStep, ProjectSteps, At, Entry, Package
  <1>8. CASE LinkFile(p)
    <2> DEFINE s == proc[p].current[2]
    <2>1. PICK f \in proc[p].left :
             /\ local' = [local EXCEPT ![s][f] = "link"]
             /\ Goes(p, [proc[p] EXCEPT !.left = @ \ {f}])
      BY <1>8 DEF LinkFile
    <2>2. proc'[p] = [proc[p] EXCEPT !.left = @ \ {f}]
      BY <2>1, GoesIs
    <2>3. /\ proc'[p].at = proc[p].at /\ proc'[p].current = proc[p].current /\ SameOrder(p)
          /\ proc'[p].left = proc[p].left \ {f}
          /\ proc'[p].todo = proc[p].todo
      BY <1>1, <2>2 DEF Running, SameOrder
    <2>4. proc[p].at = "linking"
      BY <1>8 DEF LinkFile, At
    <2>5. /\ \A t \in Skills \ {s} : local'[t] = local[t]
          /\ \A g \in Files \ {f} : local'[s][g] = local[s][g]
          /\ local'[s][f] = "link"
      BY <1>1, <2>1 DEF TypeOK
    <2>6. Package(p)' = Package(p)
      BY <2>3 DEF Package, SameOrder
    <2>7. InStep(p)'
      BY <1>2, <1>3, <2>3, <2>4, <2>5 DEF InStep, SameOrder
    <2>8. /\ \A g \in Files : local'[s][g] = "link" => g \in Package(p)
          /\ \A g \in Package(p) \ proc'[p].left : local'[s][g] = "link"
      <3>1. /\ f \in Package(p)
            /\ \A g \in Files : local[s][g] = "link" => g \in Package(p)
            /\ \A g \in Package(p) \ proc[p].left : local[s][g] = "link"
        BY <1>2, <2>1, <2>4 DEF At, Entry
      <3> QED
        BY <1>1, <2>1, <2>3, <2>5, <3>1
    <2> QED
      BY <1>2, <2>3, <2>4, <2>6, <2>7, <2>8 DEF ProjectProgress, InStep, ProjectSteps, At,
         Entry, SameOrder
  <1>9. CASE EndLink(p)
    <2>1. /\ Goes(p, [proc[p] EXCEPT !.todo = @ \ {proc[p].current}, !.at = "syncing"])
          /\ proc[p].at = "linking" /\ proc[p].left = {}
          /\ local' = local
      BY <1>9 DEF EndLink, At, disk
    <2>2. proc'[p] = [proc[p] EXCEPT !.todo = @ \ {proc[p].current}, !.at = "syncing"]
      BY <2>1, GoesIs
    <2>3. /\ proc'[p].at = "syncing" /\ SameOrder(p)
          /\ proc'[p].todo = proc[p].todo \ {proc[p].current}
      BY <1>1, <2>2 DEF Running, SameOrder
    <2>4. \A f \in Files : local[proc[p].current[2]][f] = "link" <=> f \in Package(p)
      BY <1>2, <2>1 DEF At, Entry
    <2>5. InStep(p)'
      BY <1>2, <2>1, <2>3, <2>4 DEF InStep, SameOrder, Package
    <2> QED
      BY <1>2, <2>3, <2>5 DEF ProjectProgress, InStep, ProjectSteps, At, SameOrder
  <1>10. CASE EndProject(p)
    <2>1. /\ Goes(p, [proc[p] EXCEPT !.at = "initialised"])
          /\ proc[p].todo = {} /\ local' = local
      BY <1>10 DEF EndProject, disk
    <2>2. proc'[p] = [proc[p] EXCEPT !.at = "initialised"]
      BY <2>1, GoesIs
    <2>3. /\ proc'[p].at = "initialised" /\ SameOrder(p)
          /\ proc'[p].todo = proc[p].todo
      BY <1>1, <2>2 DEF Running, SameOrder
    <2>4. InStep(p)'
      BY <1>2, <2>1, <2>3 DEF InStep, SameOrder
    <2> QED
      BY <1>2, <2>1, <2>3, <2>4 DEF ProjectProgress, InStep, ProjectSteps, At, SameOrder
  <1> QED
    BY <1>4, <1>5, <1>6, <1>7, <1>8, <1>9, <1>10 DEF ProjectStep

LEMMA MovesProgress ==
    ASSUME TypeOK, GoneIsEmpty, NEW p \in Processes, Progress(p), Moves(p)
    PROVE  Progress(p)'
  <1> USE DEF Progress
  <1>1. CASE InstallStep(p)
    <2>1. InstallProgress(p)' /\ proc'[p].at \in InstallSteps \union {"installed"}
      BY <1>1, InstallMoves
    <2> QED
      BY <2>1 DEF UninstallProgress, ProjectProgress, InstallSteps, UninstallSteps,
         ProjectSteps
  <1>2. CASE UninstallStep(p)
    <2>1. UninstallProgress(p)' /\ proc'[p].at \in UninstallSteps \union {"uninstalled"}
      BY <1>2, UninstallMoves
    <2> QED
      BY <2>1 DEF InstallProgress, ProjectProgress, InstallSteps, UninstallSteps,
         ProjectSteps
  <1>3. CASE ProjectStep(p)
    <2>1. ProjectProgress(p)' /\ proc'[p].at \in ProjectSteps \union {"initialised"}
      BY <1>3, ProjectMoves
    <2> QED
      BY <2>1 DEF InstallProgress, UninstallProgress, InstallSteps, UninstallSteps,
         ProjectSteps
  <1> QED
    BY <1>1, <1>2, <1>3 DEF Moves

LEMMA NextKeepsIInv == IInv /\ [Next]_vars => IInv'
  <1> SUFFICES ASSUME IInv, [Next]_vars PROVE IInv'
    OBVIOUS
  <1>1. TypeOK' /\ GoneIsEmpty' /\ AloneIsAlone'
    BY NextKeepsType, NextKeepsGoneIsEmpty, NextKeepsAloneIsAlone DEF IInv
  <1>2. ASSUME NEW p \in Processes, Alone(p)'
        PROVE  Progress(p)'
    <2>1. CASE Begins(p)
      BY <2>1, InstallStarts, UninstallStarts, ProjectStarts DEF Begins, IInv
    <2>2. CASE Moves(p) /\ Alone(p)
      BY <2>2, MovesProgress DEF IInv
    <2>3. CASE UNCHANGED vars /\ Alone(p)
      <3>1. Progress(p)
        BY <2>3 DEF IInv
      <3>2. InstallProgress(p)' = InstallProgress(p)
        BY <2>3 DEF vars, InstallProgress, At, Place, PlaceOf, Package, Entry
      <3>3. UninstallProgress(p)' = UninstallProgress(p)
        BY <2>3 DEF vars, UninstallProgress, AtRow, At, Place
      <3>4. ProjectProgress(p)' = ProjectProgress(p)
        BY <2>3 DEF vars, ProjectProgress, At, Place, PlaceOf, Package, Entry
      <3> QED
        BY <2>3, <3>1, <3>2, <3>3, <3>4 DEF Progress, vars
    <2> QED
      BY <1>2, <2>1, <2>2, <2>3, AloneMovesAlone DEF IInv
  <1> QED
    BY <1>1, <1>2 DEF IInv

LEMMA Inductive == Spec => []IInv
  BY InitHasIInv, NextKeepsIInv, PTL DEF Spec

-----------------------------------------------------------------------------

LEMMA IInvHeals == IInv => InstallHeals
  <1> SUFFICES ASSUME IInv, NEW p \in Processes, At(p, "installed"), proc[p].alone,
                      NEW x \in proc[p].targets
               PROVE  /\ PlaceOf(p, x) \in dirs
                      /\ tree[PlaceOf(p, x)] = proc[p].ships[x[2]]
                      /\ manifest[x] = Row(proc[p].env[x[1]])
                      /\ Accepts(manifest[x], proc[p].env[x[1]])
                      /\ Marker \in tree[PlaceOf(p, x)]
    BY DEF InstallHeals, PlaceOf
  <1>1. proc[p] # Idle
    BY StepIsNotIdle DEF At, Steps, Reports
  <1>2. InstallProgress(p)
    BY <1>1 DEF IInv, Alone, Progress
  <1>3. /\ proc[p].todo = {}
        /\ manifest[x] = proc[p].memory[x]
        /\ Marker \in proc[p].ships[x[2]]
        /\ proc[p].memory[x] = Row(proc[p].env[x[1]])
        /\ proc[p].env[x[1]] \in roots
        /\ PlaceOf(p, x) \in dirs /\ tree[PlaceOf(p, x)] = proc[p].ships[x[2]]
    BY <1>2 DEF InstallProgress, At, MidInstall
  <1>4. Accepts(Row(proc[p].env[x[1]]), proc[p].env[x[1]])
    <2>1. roots \subseteq Roots
      BY DEF IInv, TypeOK
    <2> QED
      BY <1>3, <2>1 DEF Accepts, Row
  <1> QED
    BY <1>3, <1>4

\* An install that ran to its end undisturbed has healed every directory of its
\* command, for any releases, environments, leftovers and races before it.
THEOREM InstallHealsHolds == Spec => []InstallHeals
  BY Inductive, IInvHeals, PTL

\* The steps that write the manifest.
LEMMA WhatWritesTheManifest ==
    ASSUME NEW p \in Processes, Moves(p), ~UNCHANGED manifest
    PROVE  SaveBackfill(p) \/ SaveInstall(p) \/ Forget(p) \/ EndUninstall(p)
  <1>1. CASE InstallStep(p)
    BY <1>1 DEF InstallStep, Deploy, WipeFile, WipeDir, MakeDir, CopyFile, RecordEntry, disk
  <1>2. CASE UninstallStep(p)
    BY <1>2 DEF UninstallStep, OpenTarget, PassOver, UnlinkFile, RemoveSkillDir, disk
  <1>3. CASE ProjectStep(p)
    BY <1>3 DEF ProjectStep, SyncSkillDir, PruneEntry, EndPrune, ClearName, LinkFile,
       EndLink, EndProject, disk
  <1> QED
    BY <1>1, <1>2, <1>3 DEF Moves

\* Who has the disk to itself is the only one that writes the manifest.
LEMMA AloneWritesAlone ==
    ASSUME IInv, [Next]_vars, NEW p \in Processes, Alone(p), ~UNCHANGED manifest
    PROVE  Moves(p)
  <1>1. UNCHANGED vars => UNCHANGED manifest
    BY DEF vars
  <1>2. UserEditsSkill \/ UserRemovesSkill \/ UserEditsProject => UNCHANGED manifest
    BY DEF UserEditsSkill, UserRemovesSkill, UserEditsProject, UserEdit
  <1>3. ASSUME NEW q \in Processes, Begins(q) \/ Ends(q)
        PROVE  UNCHANGED manifest
    <2>1. CASE Begins(q)
      BY <2>1, BeginsStarts DEF disk
    <2>2. CASE Ends(q)
      BY <2>2 DEF Ends, Abort, Return, disk
    <2> QED
      BY <1>3, <2>1, <2>2
  <1>4. ASSUME NEW q \in Processes, Moves(q), q # p
        PROVE  FALSE
    BY <1>4, MovesGoOn DEF IInv, AloneIsAlone
  <1> QED
    BY <1>1, <1>2, <1>3, <1>4 DEF Next, Begins, Moves, Ends

LEMMA StepForgetsGone ==
    ASSUME IInv, [Next]_vars, NEW p \in Processes, NEW x \in Pairs, Alone(p), LetGo(x)
    PROVE  IF x[1] \in Known THEN <<manifest[x].root, x[2]>> \notin dirs'
           ELSE proc[p].purge
  <1>1. /\ manifest[x] # NoRow /\ manifest'[x] = NoRow
        /\ manifest[x].root \in Roots
    BY DEF LetGo
  <1>2. Moves(p)
    BY <1>1, AloneWritesAlone
  <1>3. proc[p] # Idle /\ Progress(p) /\ TypeOK
    BY DEF Alone, IInv
  <1>4. CASE SaveBackfill(p) \/ SaveInstall(p)
    <2>1. manifest' \in {manifest, proc[p].memory} /\ proc[p].at \in InstallSteps
      BY <1>4 DEF SaveBackfill, SaveInstall, At, InstallSteps
    <2>2. proc[p].memory[x] # NoRow
      BY <1>1, <1>3, <2>1 DEF Progress, InstallProgress
    <2> QED
      BY <1>1, <2>1, <2>2
  <1>5. CASE Forget(p)
    <2>1. /\ proc[p].at = "forgetting" /\ dirs' = dirs
          /\ manifest' = [proc[p].memory EXCEPT ![proc[p].current] = NoRow]
      BY <1>5 DEF Forget, At
    <2>2. proc[p].memory = manifest /\ AtRow(p)
      BY <1>3, <2>1 DEF Progress, UninstallProgress, UninstallSteps
    <2>3. x = proc[p].current
      BY <1>1, <1>3, <2>1, <2>2 DEF TypeOK, Manifests
    <2> QED
      BY <1>1, <2>1, <2>2, <2>3 DEF AtRow, At, Place
  <1>6. CASE EndUninstall(p)
    <2>1. /\ proc[p].at = "removing" /\ proc[p].todo = {}
          /\ manifest' = IF proc[p].purge THEN EmptyManifest ELSE manifest
      BY <1>6 DEF EndUninstall, At
    <2>2. proc[p].purge => x \in proc[p].todo
      BY <1>1, <1>3, <2>1 DEF Progress, UninstallProgress, UninstallSteps
    <2> QED
      BY <1>1, <2>1, <2>2
  <1> QED
    BY <1>1, <1>2, <1>4, <1>5, <1>6, WhatWritesTheManifest

LEMMA ForgottenStep ==
    IInv /\ [Next]_vars =>
       [\A p \in Processes, x \in Pairs :
           proc[p] # Idle /\ proc[p].alone /\ LetGo(x)
              => IF x[1] \in Known THEN <<manifest[x].root, x[2]>> \notin dirs'
                 ELSE proc[p].purge]_vars
  BY StepForgetsGone DEF Alone

\* No command that has the disk to itself lets go of the row of a known harness
\* while its directory stands, and none but a purge of the row of another, for any
\* rows, environments and any place where it is killed.
THEOREM ForgottenIsGoneHolds == Spec => ForgottenIsGone
  BY Inductive, ForgottenStep, PTL DEF Spec, ForgottenIsGone

LEMMA IInvTracks == IInv => InitTracksSource
  <1> SUFFICES ASSUME IInv, NEW p \in Processes, At(p, "initialised"), proc[p].alone
               PROVE  \A x \in proc[p].targets, f \in Files :
                         local[x[2]][f] = "link" <=> f \in proc[p].ships[x[2]]
    BY DEF InitTracksSource
  <1>1. proc[p] # Idle
    BY StepIsNotIdle DEF At, Steps, Reports
  <1>2. ProjectProgress(p)
    BY <1>1 DEF IInv, Alone, Progress
  <1> QED
    BY <1>2 DEF ProjectProgress, At

\* An init that ran to its end undisturbed has exactly the links of its source.
THEOREM InitTracksSourceHolds == Spec => []InitTracksSource
  BY Inductive, IInvTracks, PTL

=============================================================================
