------------------------------- MODULE PlanTxn -------------------------------
(***************************************************************************)
(* How mp commands write the files of a plan: PlanWriteTxn (the flock on   *)
(* .mp-write.lock, plan_io.rs) and RecoveryTxn (the before-image under     *)
(* .mp-txn, mutation_txn.rs), file by file, with a crash possible between  *)
(* any two steps.                                                          *)
(*                                                                         *)
(* One transaction directory exists at a time, because begin only runs     *)
(* after recover_pending has removed every older one.  An I/O error while  *)
(* staging or while removing the directory ends the command as a crash     *)
(* does: the error is returned, the lock released and nothing undone.      *)
(***************************************************************************)
CONSTANTS
    Writers,    \* the mp processes
    Files,      \* the regular files of the plan tree
    Contents,   \* what a file may hold
    Absent      \* no such file

ASSUME AbsentAssumption == Absent \notin Contents

VARIABLES
    disk,       \* [Files -> Image of one file]: the plan tree
    txn,        \* the transaction directory, see Txns
    pc,         \* [Writers -> Steps]
    todo,       \* the files the lock holder has still to copy, write or restore
    settled,    \* history: the plan as the last finished write left it
    previous,   \* history: the plan before the last sealed transaction
    faulted     \* history: an I/O error met a seal or a rollback

vars == <<disk, txn, pc, todo, settled, previous, faulted>>

Images == [Files -> Contents \cup {Absent}]

Steps == {"idle", "recovering", "sweeping", "ready", "plain", "staging",
          "mutating", "rollingBack", "cleaning"}

\* The entries of the transaction directory: before/ and the copies in it,
\* manifest.json (which names the baseline) and the COMMITTED marker.
Txns ==
    [dir : BOOLEAN, before : BOOLEAN, copies : Images, manifest : BOOLEAN,
     baseline : SUBSET Files, sealed : BOOLEAN]

Nothing == [f \in Files |-> Absent]

NoTxn == [dir |-> FALSE, before |-> FALSE, copies |-> Nothing, manifest |-> FALSE,
          baseline |-> {}, sealed |-> FALSE]

TypeOK ==
    /\ disk \in Images
    /\ txn \in Txns
    /\ pc \in [Writers -> Steps]
    /\ todo \subseteq Files
    /\ settled \in Images
    /\ previous \in Images
    /\ faulted \in BOOLEAN

Init ==
    /\ disk \in Images
    /\ txn = NoTxn
    /\ pc = [w \in Writers |-> "idle"]
    /\ todo = {}
    /\ settled = disk
    /\ previous = disk
    /\ faulted = FALSE

Existing(image) == {f \in Files : image[f] # Absent}

Goto(w, step) == pc' = [pc EXCEPT ![w] = step]

-----------------------------------------------------------------------------
\* Mutant: the COMMITTED marker is not looked at.
InspectWithoutMarker ==
    IF ~txn.dir THEN "ready"
    ELSE IF txn.before /\ txn.manifest THEN "recovering"
    ELSE "idle"

(***************************************************************************)
(* PlanWriteTxn::acquire: take the lock, then recover_pending.  A sealed   *)
(* transaction only has to be removed, any other one is restored first,    *)
(* and one without before/ or manifest.json is an error.                   *)
(***************************************************************************)
Inspect ==
    IF ~txn.dir THEN "ready"
    ELSE IF txn.sealed THEN "sweeping"
    ELSE IF txn.before /\ txn.manifest THEN "recovering"
    ELSE "idle"

Acquire(w) ==
    /\ \A v \in Writers : pc[v] = "idle"
    /\ Goto(w, Inspect)
    /\ todo' = IF Inspect = "recovering" THEN Files ELSE {}
    /\ UNCHANGED <<disk, txn, settled, previous, faulted>>

(***************************************************************************)
(* restore_before_image: first remove the files the transaction created,   *)
(* then write back every file of the baseline, each atomically.            *)
(***************************************************************************)
NextToRestore(f) ==
    f \in todo /\ (f \in txn.baseline => todo \subseteq txn.baseline)

\* Mutant: the files that the transaction created stay.
RestoreFileOfBaseline(w, f) ==
    /\ pc[w] \in {"recovering", "rollingBack"}
    /\ NextToRestore(f)
    /\ f \in txn.baseline => txn.copies[f] # Absent
    /\ disk' = [disk EXCEPT ![f] = IF f \in txn.baseline THEN txn.copies[f] ELSE @]
    /\ todo' = todo \ {f}
    /\ UNCHANGED <<txn, pc, settled, previous, faulted>>

RestoreFile(w, f) ==
    /\ pc[w] \in {"recovering", "rollingBack"}
    /\ NextToRestore(f)
    /\ f \in txn.baseline => txn.copies[f] # Absent
    /\ disk' = [disk EXCEPT ![f] = IF f \in txn.baseline THEN txn.copies[f] ELSE Absent]
    /\ todo' = todo \ {f}
    /\ UNCHANGED <<txn, pc, settled, previous, faulted>>

RestoreDone(w) ==
    /\ pc[w] \in {"recovering", "rollingBack"}
    /\ todo = {}
    /\ Goto(w, IF pc[w] = "recovering" THEN "sweeping" ELSE "cleaning")
    /\ UNCHANGED <<disk, txn, todo, settled, previous, faulted>>

\* Mutant: recovery waits for a copy that is missing.
RecoveryWaits(w) ==
    /\ pc[w] = "recovering"
    /\ \E f \in txn.baseline : NextToRestore(f) /\ txn.copies[f] = Absent
    /\ UNCHANGED vars

\* A copy is missing: recover_pending gives up with what it restored so far.
RecoveryFails(w) ==
    /\ pc[w] = "recovering"
    /\ \E f \in txn.baseline : NextToRestore(f) /\ txn.copies[f] = Absent
    /\ Goto(w, "idle")
    /\ todo' = {}
    /\ UNCHANGED <<disk, txn, settled, previous, faulted>>

(***************************************************************************)
(* remove_dir_all: the entries go one by one, in the order the file system *)
(* lists them, and the directory goes last.                                *)
(***************************************************************************)
RemoveEntry(w) ==
    /\ pc[w] \in {"sweeping", "cleaning"}
    /\ \/ \E f \in Existing(txn.copies) : txn' = [txn EXCEPT !.copies[f] = Absent]
       \/ txn.before /\ txn.copies = Nothing /\ txn' = [txn EXCEPT !.before = FALSE]
       \/ txn.manifest /\ txn' = [txn EXCEPT !.manifest = FALSE]
       \/ txn.sealed /\ txn' = [txn EXCEPT !.sealed = FALSE]
    /\ UNCHANGED <<disk, pc, todo, settled, previous, faulted>>

\* After recovery the command goes on; after a commit or rollback it is over.
RemoveDir(w) ==
    /\ pc[w] \in {"sweeping", "cleaning"}
    /\ ~txn.before /\ ~txn.manifest /\ ~txn.sealed
    /\ txn' = NoTxn
    /\ Goto(w, IF pc[w] = "sweeping" THEN "ready" ELSE "idle")
    /\ UNCHANGED <<disk, todo, settled, previous, faulted>>

-----------------------------------------------------------------------------
(***************************************************************************)
(* PlanWriteTxn::run: no journal, every file write stands on its own.  The *)
(* bound of both kinds of command: each file is written at most once.      *)
(***************************************************************************)
RunPlain(w) ==
    /\ pc[w] = "ready"
    /\ Goto(w, "plain")
    /\ todo' = Files
    /\ settled' = disk
    /\ previous' = disk
    /\ UNCHANGED <<disk, txn, faulted>>

WritePlain(w, f, c) ==
    /\ pc[w] = "plain"
    /\ f \in todo
    /\ disk' = [disk EXCEPT ![f] = c]
    /\ todo' = todo \ {f}
    /\ settled' = disk'
    /\ previous' = disk'
    /\ UNCHANGED <<txn, pc, faulted>>

EndPlain(w) ==
    /\ pc[w] = "plain"
    /\ Goto(w, "idle")
    /\ todo' = {}
    /\ UNCHANGED <<disk, txn, settled, previous, faulted>>

\* Mutant: the operation starts while its before-image is still empty.
BeginUnstaged(w) ==
    /\ pc[w] = "ready"
    /\ Goto(w, "mutating")
    /\ txn' = [NoTxn EXCEPT !.dir = TRUE, !.before = TRUE, !.baseline = Existing(disk)]
    /\ todo' = Files
    /\ settled' = disk
    /\ previous' = disk
    /\ UNCHANGED <<disk, faulted>>

(***************************************************************************)
(* PlanWriteTxn::run_recoverable: RecoveryTxn::begin copies every file and *)
(* writes the manifest before the operation may touch the plan.            *)
(***************************************************************************)
Begin(w) ==
    /\ pc[w] = "ready"
    /\ Goto(w, "staging")
    /\ txn' = [NoTxn EXCEPT !.dir = TRUE, !.before = TRUE, !.baseline = Existing(disk)]
    /\ todo' = Existing(disk)
    /\ settled' = disk
    /\ previous' = disk
    /\ UNCHANGED <<disk, faulted>>

StageFile(w, f) ==
    /\ pc[w] = "staging"
    /\ f \in todo
    /\ txn' = [txn EXCEPT !.copies[f] = disk[f]]
    /\ todo' = todo \ {f}
    /\ UNCHANGED <<disk, pc, settled, previous, faulted>>

WriteManifest(w) ==
    /\ pc[w] = "staging"
    /\ todo = {}
    /\ txn' = [txn EXCEPT !.manifest = TRUE]
    /\ Goto(w, "mutating")
    /\ todo' = Files
    /\ UNCHANGED <<disk, settled, previous, faulted>>

MutateFile(w, f, c) ==
    /\ pc[w] = "mutating"
    /\ f \in todo
    /\ disk' = [disk EXCEPT ![f] = c]
    /\ todo' = todo \ {f}
    /\ UNCHANGED <<txn, pc, settled, previous, faulted>>

\* The operation succeeds, or ends in an intentional ExitCode: commit.
Seal(w) ==
    /\ pc[w] = "mutating"
    /\ txn' = [txn EXCEPT !.sealed = TRUE]
    /\ Goto(w, "cleaning")
    /\ todo' = {}
    /\ previous' = settled
    /\ settled' = disk
    /\ UNCHANGED <<disk, faulted>>

\* Mutant: only the files of the baseline are put back.
FailKeepingCreated(w) ==
    /\ pc[w] = "mutating"
    /\ Goto(w, "rollingBack")
    /\ todo' = txn.baseline
    /\ UNCHANGED <<disk, txn, settled, previous, faulted>>

\* The operation fails: rollback.
Fail(w) ==
    /\ pc[w] = "mutating"
    /\ Goto(w, "rollingBack")
    /\ todo' = Files
    /\ UNCHANGED <<disk, txn, settled, previous, faulted>>

\* Writing the marker fails, before or after it is on disk: Drop restores.
SealFails(w) ==
    /\ pc[w] = "mutating"
    /\ \E written \in BOOLEAN : txn' = [txn EXCEPT !.sealed = written]
    /\ Goto(w, "rollingBack")
    /\ todo' = Files
    /\ faulted' = TRUE
    /\ UNCHANGED <<disk, settled, previous>>

\* Restoring fails, and again in Drop, which removes the directory anyway.
RollbackFails(w) ==
    /\ pc[w] = "rollingBack"
    /\ todo # {}
    /\ Goto(w, "cleaning")
    /\ todo' = {}
    /\ faulted' = TRUE
    /\ UNCHANGED <<disk, txn, settled, previous>>

\* The process dies: the kernel releases the lock, the files stay.
Crash(w) ==
    /\ pc[w] # "idle"
    /\ Goto(w, "idle")
    /\ todo' = {}
    /\ UNCHANGED <<disk, txn, settled, previous, faulted>>

-----------------------------------------------------------------------------
Recover(w) ==
    \/ \E f \in Files : RestoreFile(w, f)
    \/ RestoreDone(w)
    \/ RecoveryFails(w)
    \/ RemoveEntry(w)
    \/ RemoveDir(w)

Run(w) ==
    \/ RunPlain(w)
    \/ \E f \in Files, c \in Contents \cup {Absent} : WritePlain(w, f, c)
    \/ EndPlain(w)

RunRecoverable(w) ==
    \/ Begin(w)
    \/ \E f \in Files : StageFile(w, f)
    \/ WriteManifest(w)
    \/ \E f \in Files, c \in Contents \cup {Absent} : MutateFile(w, f, c)
    \/ Seal(w)
    \/ Fail(w)
    \/ SealFails(w)
    \/ RollbackFails(w)

Command(w) == Recover(w) \/ Run(w) \/ RunRecoverable(w)

Next == \E w \in Writers : Acquire(w) \/ Command(w) \/ Crash(w)

\* A process that holds the lock is scheduled until it lets go of it.
Spec == Init /\ [][Next]_vars /\ \A w \in Writers : WF_vars(Command(w))

-----------------------------------------------------------------------------
(* Safety *)

\* A command never starts on a torn plan: whatever crashed before it, at
\* whatever step of a commit, a rollback or an earlier recovery, the plan it
\* loads is the one the last finished write left, or the one before the last
\* transaction (PlanWriteTxn::acquire, recover_pending).
StartsOnWholePlan ==
    \A w \in Writers :
        pc[w] = "ready" /\ ~faulted => disk \in {settled, previous}

\* While the COMMITTED marker is on disk the after-image stays in place:
\* neither Drop nor a later recovery restores over it (commit).
MarkerKeepsAfterImage ==
    txn.sealed /\ ~faulted => disk = settled

\* The plan leaves a whole image only behind a complete journal: the
\* before-image is staged in full before the first file is changed (begin).
WriteAhead ==
    disk \notin {settled, previous} /\ ~faulted =>
        txn.dir /\ txn.manifest /\ ~txn.sealed /\ txn.baseline = Existing(previous)

(* Action properties *)

\* A restore that runs to its end gives back a whole image, the files created
\* by the failed operation removed and the deleted ones back: the one before
\* the failed command after a rollback.
RestoreIsComplete ==
    [][\A w \in Writers :
          /\ pc[w] = "rollingBack" /\ pc'[w] = "cleaning" /\ ~faulted' => disk' = settled
          /\ pc[w] = "recovering" /\ pc'[w] = "sweeping" /\ ~faulted'
               => disk' \in {settled, previous}]_vars

(* Refinement: what a command sees of all this. *)

\* The plan is the tree, unless the tree is torn: then it is what the last
\* finished write left, which the journal can give back.
Plan == IF disk \in {settled, previous} THEN disk ELSE settled

\* As long as its directory is there, the last transaction may be undone.
Undoable == IF txn.dir THEN previous ELSE Plan

PhaseOf(step) ==
    CASE step \in {"recovering", "sweeping", "ready"} -> "entering"
      [] step \in {"staging", "mutating"}             -> "whole"
      [] step \in {"rollingBack", "cleaning"}         -> "closing"
      [] step = "plain"                               -> "plain"
      [] step = "idle"                                -> "out"

Atomic == INSTANCE AtomicPlan WITH
    tree <- disk, plan <- Plan, before <- Undoable,
    at <- [w \in Writers |-> PhaseOf(pc[w])], broken <- faulted

\* The lock, the journal, the marker and recovery together make commands atomic:
\* a command starts on the plan the earlier ones left, a recoverable one takes
\* effect whole or not at all, and for good once it has returned; only one that
\* died while it removed its journal may be undone, as a whole (PlanWriteTxn::run,
\* run_recoverable, recover_pending).
CommandsAreAtomic == Atomic!Spec

(* Liveness *)

\* A command that got the lock gives it back, whatever it finds in .mp-txn.
LockIsReleased ==
    \A w \in Writers : pc[w] # "idle" ~> pc[w] = "idle"

(* What the repository says of recovery and a crash can falsify *)

\* mutation_txn.rs: "process termination is recovered by the next writer before
\* it loads plan state": what a dead writer left is accepted by recover_pending.
NextWriterRecovers ==
    (\A w \in Writers : pc[w] = "idle") => Inspect # "idle"

\* mutation_txn.rs: "A crash after this marker must keep the after-image": a
\* command that starts finds the last sealed transaction.
SealedTransactionSurvives ==
    \A w \in Writers : pc[w] = "ready" /\ ~faulted => disk = settled
=============================================================================
