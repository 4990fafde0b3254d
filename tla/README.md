# Master-plan in TLA+

Master-plan keeps the plan of a software project in a directory of JSON files.
People and coding agents change it only through the `mp` command; `raul` is a
terminal front end that reads the files and runs `mp`, and `mp watch` drives
agents through the milestones of a plan. This directory models the parts of
`mp` and `raul` where the order of commands, crashes and concurrent processes
decide the outcome, checks them with TLC and proves the central results with
TLAPS.

Paths below are relative to the repository; `mp/` stands for `crates/mp/src/`
and `milestone.rs` for `crates/mp-model/src/milestone.rs`. `tui/` stands for
`crates/raul/src/tui/`.

## The system

| Part | State | Operations | Correct when |
|---|---|---|---|
| Delivery state machine (`milestone.rs`) | none: pure functions over a milestone's metadata | `transition`, legacy projections, `effective_lifecycle` | overlays exclude each other, remediation returns to its origin |
| Lifecycle commands (`mp/milestone/`, `mp/validate/`) | one file per milestone: lifecycle, overlays, captured phase, two legacy status fields | set-spec-status, approve, set-status, block, unblock, defer, reopen, complete, update | nothing is complete unvouched, gates read current values |
| Reviews (`mp/reviews.rs`) | `reviews.json`, the findings in each milestone file | pass, finding add, finding resolve | findings and remediation stay in step |
| Migration (`mp/migrate.rs`) | the milestone files | migrate-lifecycle | what readers see does not change |
| Plan lock and journal (`mp/plan_io.rs`, `mp/mutation_txn.rs`) | `.mp-write.lock`, `.mp-txn/` | acquire, run, run_recoverable, recover_pending | no command starts on a torn plan |
| Index and archive (`mp/sync.rs`, `mp/store.rs`) | `plan.json`, `archive/` | sync, archive, restore, purge | index and files agree |
| Path and lanes (`mp/path_engine.rs`) | none: sets computed from the milestone files | path, next, next --lane | what is offered can be started, nothing open is lost from sight |
| Steps and claims (`mp/step.rs`, `mp/step_claim.rs`, `mp/wp.rs`) | steps and work packages inside the milestone file | add, split, remove, update, set-status, infer-deps, claim, release | open work stays on offer |
| Watch state store (`mp/watch/run_state.rs`) | `.mp/watch.state.json`, its lock file | transition, load, save | no event is lost, the first outcome stands |
| Watch driver (`mp/watch/`, `mp/commands/watch*.rs`) | the queue, a shutdown flag, agent panes | detach, drive, wait, skip, stop, resume | the run outcome tells what happened, a signal ends the run |
| Verification (`mp/ac_verify.rs`, `mp/commands/milestone.rs`) | verifier thread, registry of process groups, command cache | run criteria and step tests under a deadline | only what really passed passes, nothing is left running, nobody else is killed |
| Panes and bridge (`mp/watch/bridge.rs`, `herdr.rs`) | a custom status in the runner's pane | emit, poll, clear | a lost or stale report delays and never decides |
| Terminal front end (`tui/`) | lane, content, mode, selection, cached lanes, a copy of one annotation thread | a key or a click becomes actions, these run `mp` | keys act on what is shown, a lane that is entered shows raul's own writes |
| Installation (`mp/install.rs`) | skill directories of the harnesses and of projects, `installed-skills.json` | install, uninstall, purge, init | what is torn is healed, what is forgotten is gone |
| Activity journal, registers, reports, configuration | single files | append, edit, print | |

How they interact. Every writing command takes the plan lock, recovers what a
dead writer left, then loads, decides and writes. Review and multi-file
commands run inside a journalled transaction (`run_recoverable`); the plain
milestone commands run without one (`run`). Review commands call the same
`transition` as milestone commands and edit the same file; completion reads
`reviews.json`; the start gate reads the other milestones' files. Watch and
`raul` are separate processes: they poll the plan without the lock and change
it by running `mp`.

What is hard here:

* long sequences of legal commands (remediation, overlays and cancellation set
  in an unexpected order, work that reaches a state around its ceremony);
* two status vocabularies, one derived from the other, with readers that
  prefer the derived one;
* crashes between any two file operations, also during recovery;
* processes that race for the lock, lock-free readers, and the separate lock
  file of the watch state;
* waiting: the lock holder that must let go, the driver that waits for a
  lifecycle that may never come, the completion whose criteria hang;
* a screen made of three parts that different actions set (lane, content,
  mode), over copies of a plan that changes underneath;
* numbers that are given out again: process ids while the verifier still holds
  one to kill, milestone ids while the archive still holds one to restore;
* an installation without a lock or a journal, which only its next run can heal.

## The modules

| Module | Models |
|---|---|
| `Lifecycle` | `transition` and the projections, as operators over one milestone's metadata |
| `Delivery` | the abstract promise: where work stands, and that delivered work is vouched for |
| `MilestoneReview` | the lifecycle and review commands over all milestones of a plan |
| `MilestoneMigration` | the lifecycle migration between those commands |
| `AtomicPlan` | the abstract promise of lock and journal: commands are atomic |
| `PlanTxn` | the plan lock and the journal, file by file, with crashes |
| `WatchStore` | the watch state file and its lock file, system call by system call |
| `WatchRun` | a run of `mp watch`: client, driver and stop commands on one `WatchStore` |
| `WatchDrive` | one milestone driven while agents run the commands of `MilestoneReview` |
| `Lanes` | what the path engine shows of the plan between commands and migrations |
| `AcVerify` | the verifier of a completion: its thread, its deadline, its child processes |
| `PlanIndex` | milestone files, the archive and its record, and the index in `plan.json` |
| `Raul` | the event loop of `raul`: its screens, its copies, the `mp` commands behind its keys |
| `Install` | skills deployed, recorded, linked and removed, file by file, with kills |
| `Steps` | the steps and work packages of one milestone, and which of them `mp next` offers |
| `MCWatchDrive`, `MCWatchRun`, `MCLanes`, `MCAcVerify`, `MCRaul`, `MCInstall`, `MCSteps` | dependency relations, state files of earlier runs, row sequences, starting plans, releases, environments and step ids for TLC |
| `MilestoneProofs` | proofs about `MilestoneReview` and its refinement of `Delivery`, then about those who read the plan between the commands: `MilestoneMigration`, `Lanes` and `WatchDrive` |
| `WatchRunProofs`, `PlanTxnProofs`, `AcVerifyProofs`, `PlanIndexProofs`, `RaulProofs`, `InstallProofs`, `StepsProofs` | proofs about the module of that name |

`MilestoneReview` extends `Lifecycle` and instantiates `Delivery`;
`MilestoneMigration` extends `MilestoneReview`, `Lanes` extends
`MilestoneMigration`, `WatchDrive` extends `MilestoneReview`; `WatchRun`
extends `WatchStore`; `PlanTxn` instantiates `AtomicPlan`. `AcVerify`, `PlanIndex`, `Raul`,
`Install` and `Steps` stand alone. What `PlanTxn` shows of a journalled command, that it
implements `AtomicPlan`, is why one such command is one step in the others.

**Lifecycle.** A milestone's metadata is a record: the phase, the set of
overlays, the phase captured by remediation and the two legacy fields. The
match arms of `transition` are read column by column: `Sources(e)` holds their
guards, `NextPhase`, `NextOverlays` and `NextPre` their assignments; `Accepts`
collects every early return and `After` the effects, legacy fields included.
`EffectiveSpec` and `EffectiveExec` are the readers of `mp/validate/plan.rs`;
they differ from the projections where the code does. A plan written by
today's commands is assumed: the names `done`, `reviewed` and `self-reviewed`
of older files do not occur, and `needs_regrooming`, which no command sets, is
left out.

**MilestoneReview.** One action is one command, since commands are serialised
by the plan lock. `open[m][p]` holds the open findings of a milestone by
phase (an empty phase is a self finding), `passed` the milestones with an `ok`
row, `tracks` those of the review-free kind; `waived` is a history variable
for completions as a track or with `--skip-review`. The check for self findings
in `complete`, the terminal guard of `set-status`, the start gates G1 and G8,
the review promotion and the automatic entry to and exit from remediation are
all part of their command. A command that is refused is a disabled action.
Gates on the text of a milestone (scope, criteria, verifier verdicts, code
review) are left to the environment: they can only refuse, and
every refusal is already a behaviour of the model. Finding ids return when a
finding is resolved; the code numbers findings afresh, and only the set of open
ones matters to any guard. Every milestone in `DependsOn` is live: an archived
dependency counts as not done in the code and is not modelled.

**Delivery.** Stages, origins, dropped and vouched milestones. The refinement
mapping reads the stage off the phase, the origin off the captured phase,
dropped off the cancelled overlay, and takes `passed \cup waived` for vouched.
That vouched work is past planning follows from it: `VouchedWorkWasExecuted` is proved
and not run.

**MilestoneMigration.** `Migrated` is the per-file rewrite: the flag in the
legacy field is carried over, `MigrateRaw` keeps the phase and forgets the
captured one, the legacy fields are emptied. The command rewrites all files or,
when one is unreadable, none. It does not implement `Delivery`.
`KeepsPromiseButForRework` is `Delivery` with two more steps, and TLC refutes it
with one step less: `ForgetOrigins`, which is what a migration is to a reader of the
promise, and `VouchForStranded`, a review that passes rework of forgotten origin.

**AtomicPlan.** The plan is what the commands that took effect made it, the tree what
lies on disk. One command at a time enters, repairs the tree, starts on a tree that
is the plan, and changes it file by file (a plain command) or in one `Commit`
(a recoverable one); before it returns, the tree is the plan again. `Undo` is
the one reservation: a command that died after its commit, while closing, may be
taken back as a whole by the next one, until that one settles the matter. TLC
refutes the refinement without it (see the journal, below).
The refinement mapping takes for the plan the tree, or the last finished write where
the tree is torn, and for what an undo gives back `previous`, as long as the
transaction directory is there. After an I/O error (`faulted`) the abstract
specification allows anything of the right types.

**PlanTxn.** The plan tree is a function from files to contents. A process is
at one of nine steps; being anywhere but `idle` is holding the lock, so the
kernel's release of the lock at a crash is the step to `idle`. `txn` is what is
in the transaction directory: the copies, the manifest, the marker. `Inspect`
is the decision of `recover_pending`. Restoring first removes files that are
not in the baseline, then writes the baseline back, one file a step.
`remove_dir_all` takes entries in any order. `Crash` can follow any step. An
I/O error during staging or removal returns an error and undoes nothing, which
is a crash to everybody else; an error while sealing or restoring is
`SealFails` or `RollbackFails`, after which `faulted` holds: the properties make
no claim beyond that. The history variables `settled` and `previous` remember
the plan as the last finished write left it and as it was before the last
sealed transaction.

**WatchStore.** `file` and `lock` are the two files; `lock` remembers who
created it, which the code does not, and no guard of a process but staleness
reads more of it than its existence. `tx[p]` is how far the `transition` of `p`
has come: `Open` is `create_new`, `FindStale` the look at the file's age,
`Unlink` the `remove_file` that follows it and takes whatever lock file is there
by then, `Reload` the load and the write-once check under the lock, `Save` the
replacement of the file, `Drop` the destructor of `StateLock`, which removes by
path too. A lock file is stale when its holder was killed, or at any time with
`SlowHolders`: two seconds of work under the lock are unusual and nothing rules
them out. `robbed` is a history variable: a lock file was removed under a live
holder. It becomes true with a slow holder, and also without one, when two
waiters find the lock of the same killed process. `FailSave` returns the error
before or after the rename. Nobody removes the state file, and no run id is
compared: `StoreInit` has a file or none, and the file is any of `LeftBehind`, what an
earlier run left when it ended or was killed; a process of that run may have left
its lock file too. The generation counter is left out, as are the
fields that are only displayed: no guard reads them.

**WatchRun.** `at[p]` is where a process is; a location named for a transition
is held until that transition is done, and `Event` gives what it publishes.
The client saves a first snapshot without the lock, spawns the driver, patches
its pid in. The driver saves its own first snapshot, also without the lock;
then `NextMilestone` and `Iterate` are the loops of `run_milestones` and
`drive_milestone`, with `results` for the outcomes collected so far. What the
milestone's lifecycle is when it is read, whether a pane can be spawned, whether
the agent gets anywhere or stalls is chosen freely. `End` and `Flush` are the
way out after a signal. `Hang` is a call to herdr or to `mp` that does not
return: the driver makes them with `Command::output()`, which has no limit
(`mp/watch/herdr.rs:445`), and then never looks at its flag again. A first save that
fails is logged and the run goes on over the file of an earlier run, whose list and
outcome its transitions load and keep; `Ours` says that the file is this run's. A
signal sets `shutdown` in a driver that has its handlers; any other process dies
of it (`Die`), leaving its lock file. A stop command signals the pid it reads,
waits until that process is gone or gives up, and stamps an outcome if the file
has none.

**WatchDrive.** The composition of the driver and the commands: `Next` of
`MilestoneReview` is a step of it, and between two of these steps the driver
reads, prompts, waits. `PlanStage` is `next_stage`, which takes a milestone in
progress for one that was prompted; `SendPrompt` acts on what was read before.
The wait polls the lifecycle (`PollLifecycle`) and the pane (`PollSentinel`),
and a sentinel is confirmed by one more read before it is believed
(`ConfirmComplete`) or cleared (`FindStale`, `ClearStale`). A command that
completes a milestone, by completion or by a promoting review, writes first and
reports to the pane afterwards, still under the plan lock: `unsent` is the time
in between, when the driver can already see the write. A report may be lost, a
pane may be gone, every call to it may fail. `pane` is what the driver knows of
one, not whether it is alive. `Interrupt` is a signal or a kill at any point,
after which a new drive may start, with or without a pane from the run before.
`Hang` is here too a call that does not return.

**Lanes.** Pure operators over the state of `MilestoneMigration`. `LaneExec`
is the path engine's own derivation of an execution status, which is neither the
projection of `Lifecycle` nor the reader of the gates; `Ready`, the list of
`mp next`, derives nothing and reads the stored fields. Only what is in a lane
is kept, not the order, not the cut at the horizon and not the focus.

**AcVerify.** Two threads and the processes they start. The verifier is a
location `at`; every loop turn of its poll is a step (`PollFlag`, then the
child, then the clock). The main thread is `main`: it waits for the reports,
or passes the deadline, raises the flag, copies the registry, kills what is in
the copy and joins. A pid is in one of three hands (`owner`) and its leader is
running, ended but not reaped, or gone; when it is gone and the group is empty the
kernel may give the pid to a stranger (`Take`), which is what makes a kill by
number delicate. `Take` is only modelled for pids in the registry: of all
others nobody holds the number. Children exit, fork, leave their group with the
pipes open, or hang. The criteria and then the tests of steps are one sequence
of rows, since both go through `run_one` with one cache; a row nothing is run
for is `Unchecked`. `ran`, `own` and `strangers` are history variables.

**PlanIndex.** `live` and `archive` map file names, pairs of an id and a slug,
to contents, and a content is what an index entry shows of a file. A journalled
command is one step; a plain one writes its file, is `midway`, and then writes the
index or dies. Where the code takes the first file of an id that the directory
lists, the model takes any. The next id is one more than the highest live one,
so archived ids come back, and the user may name an id.

**Raul.** `lane`, `content` and `mode` are the three fields of `App` that decide
what a key does; an action is a key or a click with everything `apply_action`
does for it, the `mp` commands and the reload included. `approved` and `notes`
are the plan, `cache` the payloads of the lanes and `shown` the lists on the screen
(each is the set of milestones `raul` approved that it has), `thread` the statuses of the
annotations loaded with a cursor over them. Other processes write annotations
between any two steps (`Others`). The approval of a co-approval runs two `mp`
commands with a redraw between them and is two steps (`CoResolve`, `CoApprove`);
every other action is one. Modelled are the Overview and the Milestones lane
under the default key bindings, by which the approval toggle is out of reach on a
detail (the previous item has the same key and comes first). Which rows a list has, and
which of them the cursor is on, is any; that somebody else approves a milestone
is one of the reasons for which `mp` refuses. `MpFails` ends `raul` at any key:
the loop propagates errors of commands and of the terminal. Left out are the
removal of annotations, the menu for sorting and the checks before the loop
starts. Keys that are queued behind a quit in one batch are still acted on by
the code; the model ends at the quit. What is left in the fields of a co-approval
after it is left is not read before it is replaced, and is forgotten.

**Install.** `tree` is what is in the skill directories of the harnesses, `local`
what is at the names of a project's, `manifest` the rows of
`installed-skills.json`; a package is the set of its files that are deployed.
Nothing is locked, so any number of processes runs any of the three commands.
Each has loaded the manifest at its start (`memory`) and works on one harness and
skill at a time (`current`), every file operation a step: an install wipes,
makes the directory, copies, remembers the row, and saves once at its end; an
uninstall checks the recorded root and the marker file, unlinks, removes, forgets
and saves, row by row; an init prunes and links. A purge also comes to the rows of
harnesses that this version does not know (`Retired`, `PassOver`), which install and check
leave alone. `Abort` ends a command at any
step: a kill, an error, a refusal. `Init` has what other versions leave, rows
without a root or without a path too, and rows of such harnesses, and the user edits at any time. `alone`
is a history variable: nobody else touched the disk since the command started.
The order in which a command takes up its harnesses and skills is any, and so
are the orders of directories. Two harnesses may resolve to one root, as
OpenCode and Pi do (`mp/harness.rs:45`, `:118`), and an override moves one.

**Steps.** The steps of one approved milestone as a function of their ids, and
`file`, the order of their array, in which inference reads them. An id is a sequence of
numbers, so that the children of a step are the ids below it. Every command is one
step, except that claims and statuses need no bound and the commands that
restructure take one of `MaxEdits`. `AddStep` may take any free id, since users may give one;
`SetStepStatus` includes the closing of the tweaks and bug fixes that steps mention
when the last one is done. The end of a lease is a release. `Offered` is what
`build_path` picks of the steps, once the milestone is in the ready list of `Lanes`.
`byHand` is a history variable: a user wrote dependencies, which no command
checks. Order numbers, which nothing but their own upkeep reads, texts, and arrays of
steps given as JSON are left out.

## The runs

| Run | Configuration | Instance | Distinct states |
|---|---|---|---|
| `review` | `WatchDrive.cfg` | 1 milestone, 3 findings, 2 iterations | 166948 |
| `migration` | `MilestoneMigration.cfg` | 2 milestones, the second a track that depends on the first, 1 finding | 167281 |
| `plan_txn` | `PlanTxn.cfg` | 2 processes, 2 files, 2 contents | 28674 |
| `watch_run` | `WatchRun.cfg` | 1 client, 1 driver, 1 stop command, 2 milestones, 1 iteration each, 4 state files of an earlier run or none | 605602 |
| `ac_verify` | `AcVerify.cfg` | 2 commands, 2 sequences of rows, 3 pids, drain threads may fail | 441381 |
| `plan_index` | `PlanIndex.cfg` | 2 ids, 2 slugs, 2 contents | 36592 |
| `raul` | `Raul.cfg` | 2 milestones, 2 annotations, 1 write by others, 2 starting plans | 1286442 |
| `install` | `Install.cfg` | 1 process, 2 harnesses with a common root or not and one of another version, 1 skill, 2 releases, 3 commands or edits | 2916627 |
| `steps` | `Steps.cfg` | 3 ids (a step and two children), 2 work packages, 5 commands that restructure | 964554 |

The state spaces are explored in full: no constraint, no depth limit. Deadlock
checking is off in the runs of `WatchRun`, in `ac_verify` and in `raul`, where
everything ends once the processes have exited, and in `install` and `steps`,
where it can end with the last command of the bound. The runs check no types: these are proved, of
every module.

* One milestone is enough for the commands of `review`: each changes one, and
  the only guard that reads another, G8, decides only whether a start is
  allowed. Three findings let one phase keep a finding while the other has one
  filed and resolved. Two iterations let a drive come back to `reading` and go
  on, and reach exhaustion; the code's bound, 10, repeats the loop.
* `migration` has two milestones because the lanes and the ready list read
  dependencies; one finding opens and closes a remediation. A second finding
  adds nothing to a lane, which does not read findings. One milestone is a track and
  no command changes the kinds (`KeptKindsSpec` of `MCLanes`): nothing this run is
  about reads them; `review` changes them.
* In `plan_txn` a second process is what takes over after a crash; two files
  are what it takes for a torn plan, one of them created or deleted by the
  operation; two contents tell before from after. An operation writes a file at
  most once.
* In `watch_run` two milestones are what it takes for a result to be lost by a
  later event and for a mixed outcome. Three processes give a killed holder with
  two waiters, and a stop that races both the client and the end of the run. One
  iteration reaches exhaustion. Slow holders and failing writes are switched on. An
  earlier run left nothing, a first-version file, a run killed on its second
  milestone, one that ended completed or one that ended in a partial failure,
  and perhaps its lock: with and without an outcome, with and without results.
* In `ac_verify` one sequence has two different commands, so that a child of an
  earlier row is in the registry while a later one runs; the other repeats a
  command around a row nothing is run for, which is what the cache is about.
  Three pids leave a free one while two are in the registry, one of them with
  a stranger.
* In `plan_index` two slugs give two files of one id, two contents tell an
  outdated entry from a current one, and the user may give both ids.
* In `raul` a second milestone is what a thread can be wrongly of. One starting
  plan has an approval request and another annotation, so that rows disappear
  from a filtered thread above and below the cursor; the other has room for a
  new one. One write by others is enough for every copy to be out of date, and
  for a command that `mp` then refuses.
* In `install` a command that is killed, one that is killed over its result and
  one that runs to its end are three. The two releases differ by a file the newer
  one has dropped. The harness of another version may have a row and a directory, which is
  all that a purge needs to pass over it. One process: the claims are about commands with the disk to
  themselves, over whatever was left, and what races leave is left by edits of the
  user as well, except for rows. The proofs are for any number.
* In `steps` five commands are a package, two or three steps, an inference and what
  spoils it: a removal, a split, a move. The two packages are interchangeable
  (symmetry), statuses and claims change without a bound. The proof is for any
  number.

`review` shows that remediation always has a finding to resolve and a way out
and returns where it began (that the flags exclude each other and that the
legacy fields follow the lifecycle is proved), that nothing is complete unvouched, that
cancelled is final, and that the commands implement `Delivery`; and that a drive that ends
as completed has a vouched milestone behind it, whatever the pane says, and
ends once the milestone stays complete, whatever the pane does not say, unless a
call without a time limit hangs.
`migration` shows that the legacy fields stay current across a migration (that
vouchers survive it and the flags stay exclusive is proved), that readings stay
outside the two phases where they do not (below), that the promise of `Delivery`
is kept but for rework under way at a migration, that every open milestone is in
one lane, that the execution lane offers only what the gates let start,
and that the ready list never runs ahead of the lifecycle. `plan_txn` shows that
a command starts on a whole plan whatever crashed before it, that a marker on
disk protects the change, that the plan is torn only behind a complete journal,
that all of it implements `AtomicPlan` (so a finished restore is complete), and that
the lock is given back.
`watch_run` shows that transitions exclude each other and lose no result until a
lock is stolen; that the first outcome of a run stands; that a snapshot of this run
that says completed had every milestone driven to complete, whatever else happens;
and that a signal ends the run, unless a call without a time limit hangs. A
snapshot that a failed first save left standing is an earlier run's, and so are
then its outcome and the head of its list (below). `ac_verify` shows that a completion ended by its
deadline leaves no process of its own behind, that one that succeeds rests on
commands that ended by themselves with exit code 0, that equal rows are run once
and get one verdict, that the verifier never kills a stranger and the main thread
only past the deadline, and that the command ends whatever its children do.
`plan_index` shows that the record of the archive and its files agree although
ids come back, that an archived file is never replaced, and that `mp validate`
reports an index that is behind, except when it is empty or an id has two files.
`raul` shows that the thread, the co-approval and the prompt are always about the
milestone that is selected, that the cursor is on a row while there is one, that
a lane that is entered or refreshed shows every approval `raul` made (one that Esc
goes back to need not, below), that the thread is current
when its keys work and nobody else writes, and that Esc leads back to a list.
`install` shows that an install that ran to its end has healed whatever was torn
before it, that rows of harnesses this version knows are let go of only when their
directories are gone, whatever failed where, and the others by a purge only, and that a project's links follow the release that was linked last.
`steps` shows that `mp next` does not run dry: as long as dependencies are inferred
and not written by hand, it offers something while steps are open, none is claimed
and none has failed, however the milestone was split, pruned and reordered.

### What the repository says and the code does not do

Each of these runs checks one statement and TLC finds it false.

| Run | Statement | Counterexample |
|---|---|---|
| `complete_without_ceremony` | complete needs the open-findings gates (`mp/milestone/spec.rs:575`) | self finding on an approved milestone, set-spec-status implemented, review pass: complete with the finding open |
| `next_writer_recovers` | termination is recovered by the next writer (`mp/mutation_txn.rs:5`) | death while staging: a directory without manifest, refused by every later writer |
| `stamp_survives` | after a signal `mp watch status` reads the outcome (`mp/commands/watch.rs:498`) | signal, stamp, then the flush of a first-version snapshot to the same file: no outcome |

Other disagreements, met while modelling and without a run of their own:

* Journal. A crash after the marker is said to keep the after-image
  (`mp/mutation_txn.rs:108`). A crash in the cleanup, after the marker was
  unlinked and before the manifest, lets the next writer undo a committed change;
  `SealedTransactionSurvives` of `PlanTxn` states the comment, and TLC refutes
  it; it is why `AtomicPlan` has `Undo`. The model of `remove_dir_all` deletes in any order because the library
  deletes in directory order, which file systems do not define.
* Lifecycle. "Terminal milestones cannot retain an active blocked overlay"
  (`mp/milestone/complete.rs:413`): blocked during remediation, a milestone
  comes back complete and blocked (`milestone.rs:327`). G8 asks for finished
  dependencies before execution starts (`mp/validate/gates.rs:50`): reopening an
  implemented milestone goes around it. A migrated executed milestone cannot be
  reviewed (`mp/reviews.rs:303`), as it reads as planned
  (`mp/validate/plan.rs:800`). The delta merge of a completion that is then
  refused stays in the domain file (`mp/milestone/complete.rs:359`) and is merged
  again by the next attempt.
* Migration. Remediations without a captured phase are said not to be wedged
  (`mp/reviews.rs:969`). A migration forgets that phase (`milestone.rs:338`), and
  the exit then fails (`milestone.rs:328`): resolving the last finding is
  refused from then on. `RemediationIsNotWedged` of `MilestoneMigration` states the
  promise, and TLC refutes it: remediation, then migrated. `ForgottenReworkStays` is
  the proof that no command gets it out. Such a milestone also reads as done
  (`mp/validate/plan.rs:800`), so a review may pass it while it is open
  (`mp/reviews.rs:303`).
* Lanes. The review lane is documented to hold executed work
  (`docs/agent-guide/reading-state.md:27`) and has no arm for that phase; it
  keeps cancelled and deferred remediation for ever. The awaiting-approval lane
  is always empty (theorem `NothingAwaitsApproval`): groomed never reads as
  ready. `mp next` is documented to show the next work (`reading-state.md:11`)
  and shows nothing on a migrated plan, whose stored fields are empty. Setting
  the focus to a milestone that is not ready empties the list, and the focus is
  never cleared; the rank of a pinned milestone is never read.
* Index. When an archived id was given out again, archiving the live milestone
  of that id reports one archived and does nothing; restoring may replace a live
  file of the same name or leave two live files of one id; creating with a given
  id replaces the file of that name. An index without entries silences W01, and
  W03 compares neither dependencies nor blockers. A plain command that is run
  again after a crash finds nothing to change and leaves the old entry.
  `mp track archive` and `restore` of a milestone do not refresh the index.
* Watch. A pane that was recorded and is gone, or was never recorded, is to be
  spawned (`mp/watch/resume.rs:50`). The driver takes a milestone in progress for
  one whose runner was prompted (`mp/watch/state_machine.rs:236`) and goes
  straight to the wait; without a pane it detects no stall (`:626`), and waits
  without a runner until somebody else completes the milestone. `WaitsForARunner`
  of `WatchDrive` states the promise, and TLC refutes it.
  The execution prompt says that completing sets the lifecycle to
  complete (`crates/mp/templates/watch/execute.md`) and the sequencer and its
  documentation speak of a coordinator (`mp/watch/sequencer.rs:13`,
  `docs/mp/commands.md:221`); completing leaves the milestone executed
  (`mp/milestone/complete.rs:334`) and no stage for a coordinator is ever
  planned, so a drive ends by somebody else's review. A milestone that becomes
  complete in the last iteration counts as exhausted. An approved milestone of
  a migrated plan is skipped, since readiness is read from the stored fields. The
  comment on `RunOutcome` (`mp/watch/run_state.rs:82`) says a skip halts the run
  and a partial failure has a complete milestone; the sequencer goes on after a
  skip and calls a skip followed by an exhaustion partial
  (`mp/watch/sequencer.rs:118`, `:148`). The comment before the stamp
  (`mp/commands/watch.rs:500`) says the sequencer already wrote the shutdown of
  the milestone; when the signal arrives in a wait, the wait fails and it did
  not (`mp/watch/state_machine.rs:612`). A stop command that comes before the
  client has patched the pid in signals the client, sees it exit and may stamp the
  outcome, while the detached driver runs on. A run outcome is documented as "`None` while
  the run is still in flight" (`mp/watch/run_state.rs:178`): when the first save of a
  driver fails, which is only logged (`mp/commands/watch.rs:420`), its transitions load
  the snapshot of the run before (`mp/watch/run_state.rs:542`), whose outcome stands
  from the start and is not replaced (`:555`), and append to that run's results. No
  run id is compared. `CompletedIsEarned` and `RecordsEveryResult` without their
  `Ours` claim more, and TLC refutes both, also when they are claimed of a driver past its
  first save only. "A wedged herdr therefore cannot
  wedge [...] the watch loop" (`mp/watch/bridge.rs:64`), and a Ctrl-C "ends the run within
  one stage-transition" (`mp/commands/watch.rs:201`): only the calls about the
  sentinel are bounded. Each lifecycle poll of the wait runs `mp`
  (`mp/watch/herdr.rs:679`) and `herdr agent wait` (`:445`) through
  `Command::output()`, as do the listing, opening and prompting of panes
  (`:201`, `:226`, `:369`, `:380`): one that does not return keeps the driver, and
  a signal is then never looked at. `InterruptEndsRun` and `CompleteIsNoticed` without
  the exception for `hung` claim that, and TLC refutes both.
* Terminal front end. After an approval both cached lanes are dropped
  (`tui/runner_helpers.rs:605`), so that a lane shows it when it is entered; Esc from the
  detail back to the list (`tui/app.rs:1080`, `tui/action.rs:1054`) loads nothing
  and shows the list from before the approval until the lane is entered again,
  which no document says or denies. The co-approval screen asks for a choice and for a key to
  confirm it (`tui/render/overlays.rs:213`); these keys are bound in Normal
  (`tui/modes/normal.rs:222`), the mode of "list / detail / co-approval
  screens" (`tui/mode.rs:163`), and entering it from a thread, the only way
  in, keeps the mode of the thread (`tui/app.rs:1647`), which has none of them
  (`tui/modes/annotation_thread.rs:44`). They work after a detour only: open a
  prompt and cancel it. `CoApprovalTakesKeys` of `Raul` states the promise, and
  TLC refutes it. In the same way a prompt that is closed over a thread leaves
  the thread in Normal, where only Esc and the lanes work. A failed `mp` command
  is documented to be shown while the loop goes on (`tui/action.rs`,
  `apply_action`) and mostly ends `raul`. The help screen is documented to close
  with Esc (`CloseHelp`), which `tui/modes/help.rs` does not bind. The request
  for grooming in the review menu is always refused: its kind is none of those of
  `mp/annotation.rs:7`. That a milestone waits for an approval is read
  after a co-approval only (`tui/action.rs:545`), kept when another milestone is
  opened and shown on its detail (`tui/render/milestone_detail.rs:247`); the
  approval toggle, which needs other key bindings to be reached, then resolves the
  request of the first one.
* Install. A row of an older version is to be uninstalled only if its path is
  the one of the current root (`mp/install.rs:339`), else after a reinstall
  (`:380`). Every install, `--toolkit-only` too, gives it the current root and
  keeps its path (`:294`); after a move the uninstall then finds nothing at the
  new root, forgets the row and leaves the old directory. What a first install
  left when it was killed is in no row, so `--check`, uninstall and
  purge do not see it. OpenCode and Pi have one root: uninstalling one removes the
  skills of the other, whose rows stay. An uninstall killed after it unlinked
  SKILL.md is refused from then on (`:716`) until the skill is installed
  again. Two installs at a time lose rows of one of them (`:1295`, `:1394`). An uninstall
  is said to remove "exactly what [the manifest] claims", across versions
  (`:1419`). For a row whose harness the registry no longer has, `skill_dir_for_uninstall`
  finds no directory (`:350`), and a purge then forgets the row and saves
  (`:1456`): the directory stays and nothing records it. The comments on a project's
  directory say "Files already in place are untouched" (`:1776`) and that user files
  survive a re-init (`:1717`), "because they aren't in source". A user's file at the name of a source file is
  replaced by a link (`:1693`), and a user's link at any other name is removed
  (`:1744`): `InitTracksSource` holds because the code does so.
* Steps. `claim_step` writes its lease over one that has not expired
  (`mp/step_claim.rs:28`; `docs/milestone-details/README.md:217` has one claimant
  per step), and `update_step` accepts dependencies on steps that do not exist
  or form a cycle. "When all steps are done/skipped, auto-close referenced TW/BF
  track items" (`mp/step.rs:218`): skipping the last one closes nothing
  (`DoneWorkIsClosed` of `Steps`). Gate G9 has the dependencies of a step in progress
  behind it (`mp/validate/plan.rs:303`), and the command that starts a step checks
  it; reopening a dependency, or an inference later, does not
  (`StartedBehindDependencies`). TLC refutes both.

## Fairness

Safety needs none. `LockIsReleased` assumes weak fairness of the steps of each
process (`Command`): a process that holds the lock and can go on is scheduled.
The code justifies it: nothing in a command waits for another process once the
lock is held. `Acquire` has no fairness (a waiter polls for a bounded time and
may give up) and `Crash` is never required. Since all steps of a process are
fair together, the property also needs that each of its loops is finite; the
bound is that each file is written once per command and each entry of the
directory is removed once.

`InterruptEndsRun` assumes weak fairness of what the driver does by itself
(`DriverRuns`) and of every process's transition (`Publish`): the wait polls the
flag every 5 ms, a waiter for the lock meets its deadline or a stale file. The
code bounds its calls about the sentinel and no others. Those that list, open and
prompt panes, that read an agent's status and that read the lifecycle may take for
ever, so fairness is assumed of a driver that is not in one: `Hang` leaves every
location with such a call for `hung`, at any time and without being required to,
and the property claims nothing of a driver that is there. `Reached`, which
needs an agent, has no fairness, nor have signals, kills and the client. Where a
fairness condition covers several actions that are enabled together, each of them
leaves the location, so the property does not depend on which one the scheduler
prefers.

`CompleteIsNoticed` assumes weak fairness of the driver (`Drive`) and strong
fairness of `PollLifecycle`: the wait may be kept busy by a pane whose stale
sentinel cannot be cleared, but it never begins a call about the sentinel that would
outlast the next lifecycle poll (`mp/watch/state_machine.rs:653`), so it comes
back to the lifecycle again and again. That poll is two calls without a limit
(`:615`, `:627`), and here too one may hang: a driver in `hung` never notices, and the
property excepts it. Nothing is assumed of agents, people, reports, or the stall
detector.

`CommandEnds` assumes weak fairness of both threads and strong fairness of
`TimeOut`: a verifier that looks at its clock again and again finds the
command's timeout over. Nothing is assumed of the children, which is the point:
one may hang, fork, keep the pipes open from outside its group, or wait for the
plan lock that the completion itself holds.

`EscGetsOut` assumes weak fairness of `EscKey`, a user who wants out and keeps
pressing Esc, and of `CoApprovalStep`: the `mp` commands of a co-approval return.
It claims something only of behaviours in which from some point on nothing but
these and writes of others happens, so it does not say what a user does. Help is
excepted, since its keys do not include Esc.

## The proofs

`PROJECT.json` lists the theorems. They hold for every set of milestones,
findings, processes, files and contents, commands and rows, every number of ids
and every length of the queue, from assumptions that name what the constants
are: `DependsOnAssumption`
(dependencies are a function on the milestones), `AbsentAssumption` (a missing
file is not a content, or not a snapshot), `ProcessesAssumption` (client, driver
and stop commands are different processes), `EarlierAssumption` (the process of an earlier
run is none of these, and what it left are snapshots of its own, without outcome and
results in the first version of the file), `QueueAssumption` and
`StoreAssumption` (types), `VerifyAssumption` (rows are sequences of commands
and unchecked rows), `IndexAssumption` (given ids are ids, no file is not a
content), `DriveAssumption` (a milestone of the plan, at least one iteration),
`PackagesHaveMarker` (a skill that is shipped has its SKILL.md, which
`mp install --check` asks of a source), `EnvironmentsResolve`, `NothingsAreApart`,
`SomethingToDo` and `NoRowIsNoRow` (types and missing values of `Install`),
`StepsAssumption` (ids are sequences of numbers, given dependencies sets of ids) and
`RaulAssumption` (finitely many milestones, the starting plans are sequences of
annotations within the bound, no payload is the missing one).

**MilestoneReview.** The inductive invariant `IInv` is the conjunction of types,
exclusive flags, agreeing legacy fields, `VouchedWorkWasExecuted` and the invariants of
`review` about the commands: none is inductive alone.
That completion is vouched needs the legacy fields to agree with the phase (`set-status done` is
gated by the legacy field), the captured phase to be a checkpoint (the exit
restores it), and vouched work to be past planning. The argument goes through
one command schema: lemmas about `After` say what an accepted event does to one
record (`AfterOK`, `AfterDelivered`, `AfterPlanning`, `AfterRemediation`),
`EventKeepsInv` lifts them to a command that applies one event and leaves
findings alone, and the commands follow, with the finding commands proved on
their own. What follows it in `MilestoneProofs` derives the action properties
`RemediationRestores` and `CancelledIsFinal`, and the refinement of `Delivery`:
every accepted event is mapped to an action of `Delivery` or a stutter
(`EventRefines`), from which `KeepsPromiseHolds` follows.

**PlanTxn.** `IInv` is type correctness, mutual exclusion and, until an I/O
error during a seal or rollback, `Sound`: what the journal holds (`JournalOK`)
and what a process at each step knows (`KnowsOK`). The step to see is the crash
during removal: copies may be gone then, so `JournalOK` only says that each
remaining copy is right, and `StartsOnWholePlan` holds because a restore that
misses a copy fails, while the plan itself was whole already or the copies were
never touched. A torn plan therefore always has all its copies, which is how
`WriteAhead` enters the induction.

`CommandsAreAtomicHolds` is the refinement: from a state of `IInv` every step is a
step of `AtomicPlan` or leaves its variables alone (`StepIsAtomic`, one lemma
for each group of steps). The
last file a restore writes is where the tree becomes a plan again: it is a `Repair`
when that plan is the last finished write and an `Undo` when it is the one
before. The steps on the journal alone are hidden, except those that take the
directory away, which settle what may be undone, and those that end a command.
`RestoreIsComplete` is also proved on its own.

**WatchRun.** Types first, with `Located`: the driver drives a milestone only
while some of the queue is left, and aggregates only when it is over; without it
the result a recording publishes need not exist. Mutual exclusion follows from
`HolderOwnsLock`: until a lock is stolen the lock file is the one of whoever is
inside. `CompletedIsEarned` needs the same of the snapshots that are about to be
published (`NothingUnearned`), and holds with stolen locks too, because only the
aggregate says completed and only a finished queue reaches the aggregate.
`OutcomeIsWriteOnce` needs `OutcomeKept`: the snapshot about to be published
repeats the outcome of the file. That is where the exclusion is used (nobody
else can save in between), and where a first-version file must have no outcome,
since loading it would lose one; `UntouchedAtStart` discharges the client's save
without the lock. `RecordsEveryResult` needs `Recorded`: while the driver drives, the
file lists exactly its results; while it records one, the file lacks exactly that
one until the save (`RecordingInStep`); and what another process is about to save
repeats the list of the file (`InStep`), because it loaded the file under the lock.
Two saves without the lock are exceptions to face: the driver's first, which comes
before there are results (`NothingDriven`), and `Flush` after a signal, which may
empty the list under a stop command that is about to save: the driver has stopped
then, and the list is still an initial part. Loading a first-version file would lose
results, so it must list none (`FirstVersionListsNothing`).

What an earlier run left is any file (`Foreign`) and any lock. `CompletedIsEarned` and
`RecordsEveryResult` need that this run's snapshots are never continuations of
it, `EarlierAlone`: while the file is an earlier run's, the client of a detached run
has not begun or is gone, no stop command has found a live pid in the file, and the driver
alone publishes; and a snapshot about to be saved carries the earlier pid exactly if
the file does. The pid of a file that is not patched stays in it
(`ReloadPid`), which is how a reader of the file, too, can tell whose it is.

**MilestoneMigration and Lanes.** `IInv` of `MilestoneReview` does not survive a
migration, which clears the captured phase and the legacy fields. What is left is
`MigratingInv`: types, exclusive overlays, a legacy pair that is either empty or
current (`StoredLegacyIsCurrent`), the two properties about vouchers, and
`OriginsAreRecalled`: a captured phase is one of a remediation no migration has
met. The
lemmas about `After` are those of the first part, the ones that a
completed or started milestone needs stated again for this weaker record. The
lane properties follow from it state by state: `OfferedWorkCanStart` needs that
a lane and a gate, which read a dependency by different functions, agree about
complete work without flags. `MigrationKeepsReading` is an action property of
the migration alone. `KeepsPromiseButForReworkHolds` shares the proof of
`KeepsPromiseHolds`: the lemmas of the refinement ask only for a typed, `Mappable`
record (one flag, a captured phase in remediation only), which both invariants
give. They part at the review that passes: what reads as done is finished work by
`IInv`, and finished or forgotten (`DoneIsFinishedOrForgotten`) by `MigratingInv`.
`ReworkStep` says how a remediation can end, from which follow
`RemediationRestores` with migrations in between and `ForgottenReworkStays`.

**WatchDrive.** `DrivenPlanIsAPlan`: every behaviour of the composition is one
of `MilestoneReview`, since the driver changes nothing of the plan, so its
theorems carry over. `CompletedDriveIsVouched` does not follow from the state in
which the driver reads complete alone: the milestone may be reopened
before the verdict is looked at. It holds because vouchers are never taken
back.

**AcVerify.** `Custody` is what the verifier knows of its child while it has not
waited for it, `Traced` where the groups that are still alive are known, in the
registry and then in main's copy, `Bookkeeping` what cache, results and history
say of each other. That an aborted command leaves nothing running
needs that every group of a child is in the registry before the verifier can see
the flag, that a verifier that saw the flag kills its own child, and that main
joins before it ends. That the verifier kills no stranger rests on the order
kill, then reap. That a completion rests on real exits goes through the
cache: what is cached as passed is in `own`.

**PlanIndex.** `ArchiveIsRecorded` is inductive with the types;
`DriftIsReported` is not a property of any history: it is proved of every state
of the right types, by the case whether the ids differ or an entry does.

**Raul.** `IInv` is in parts that different actions disturb: `ScreenOK`,
`CacheOK`, `ThreadOK`, `Selection` and `OneMilestoneAtATime`. The last needs
`Selection`: whoever is on a detail, in the review menu or in a prompt has a
milestone selected, also after a click has changed the lane below. `EntryShowsOwnWrites`
follows from `CacheOK`: a payload that is there has every approval `raul` made, so
a lane that is entered shows them whether it is read or taken from the cache
(`LoadedIsShown`). What the plan
does underneath is one relation, `Grows`: annotations are added and change their
status, never their target, so a copy stays one of the same milestone
(`Writes`, `LoadThreadWorks`). `ReanchoredInside` is about the cursor: whether it
follows its annotation or is clamped, it is inside the list it is moved to.

**Install.** `IInv` says how far a command has come, but only while it is alone:
what is done of an install is in place, what it is copying lacks the files that
are left, what a row names that was opened is at that place, a project's
directory has no stale link among what was pruned. An uninstall is at a row of a
harness it knows, or at one that only its purge passes over (`AtRow`), from which the two
halves of `ForgottenIsGone` follow. Two facts carry it.
`AloneIsAlone`: whoever is alone is the only one that runs, so that no step of
another has to be looked at (`AloneMovesAlone`). And the places of one command that
coincide, when harnesses share a root, get the same package: a second wipe takes
away what a first copy had put there and puts it back before the command ends,
which is why the invariant of an install excepts the place it is at.

**Steps.** `IInv` says that the array holds each id once and, while `byHand` is
false, that there is a ranking of the steps (`Ranked`): dependencies exist and are of
lower rank, so they have no cycle. Each command gives its own ranking from the
one before: children of a split get the rank of their step, and an inference ranks
the steps of packages by their places in the array and all others, which kept what
they had, above these. The open step of lowest rank (`WFMin`) then waits for
nothing.

Only model-checked: the liveness properties `InterruptEndsRun`,
`LockIsReleased`, `CommandEnds`, `CompleteIsNoticed` and `EscGetsOut` (liveness is out of the
prover's reach). Every other property of a passing run is the statement of a theorem. No
module uses recursion.

## Not modelled

`PROJECT.json` lists every component with what is left out of it. In short:

* Delta specs, dependency edits and the split of milestones: they are edited under
  the plan lock like any field of a milestone. The gates that read them or the steps
  (G11 to G15) are environment choices: they can only refuse.
* Tracks, backlog, ideas, brief, decisions, notes, sessions: single files with
  add, edit and close, and no decision of the modelled part depends on them. Of
  the annotations `Raul` has the three commands `raul` runs; that a milestone has
  open approval requests decides nothing, as the function that asks for it
  (`mp/annotation.rs:232`) has no caller.
* Bulk and challenge commands: loops over modelled commands inside one
  transaction, which `PlanTxn` takes as a choice.
* The activity journal: a best-effort list nothing decides by.
* Of `raul` the lanes Backlog, Ideas, Path, Watch and Settings, sorting and the
  order of rows, rebound keys and rendering. It is one thread that runs `mp` for
  every change, so to the plan it is one more process like any other.
* A rollback that rewinds the watch state file, which lies in the plan directory
  and is written without the plan lock (`mp/mutation_txn.rs:246`): `PlanTxn` and
  `WatchStore` have no file in common.
* Text: specifications, evidence, schema validation, reports, prompts, rendering,
  search, configuration, the doctor and the command-line parser.
* Of the installation the toolkit tree, the binaries, `env.sh`, the convention and
  agent files: each is overwritten or removed alone. Skills have no subdirectories,
  roots are no symbolic links, and the manifest can be read.
