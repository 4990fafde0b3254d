------------------------------ MODULE WatchStore ------------------------------
(***************************************************************************)
(* WatchRunStore (watch/run_state.rs): the file watch.state.json that      *)
(* describes the latest run of mp watch, and the lock file beside it.  The *)
(* file is never removed: a run meets the snapshot of the run before.      *)
(* transition() is taken apart into the system calls other processes can   *)
(* come between: create the lock file, look at its age, remove it, load,   *)
(* save, and remove the lock on the way out.                               *)
(*                                                                         *)
(* Times are abstracted to what the code compares them with: a lock file   *)
(* is taken for stale (older than 2 s) once its holder was killed, or,     *)
(* with SlowHolders, whenever a waiter looks.  A waiter runs into its      *)
(* deadline of 5 s while live processes hold the lock one after the other. *)
(***************************************************************************)
EXTENDS Naturals, Sequences

CONSTANTS
    Processes,      \* the mp processes that open the store
    Earlier,        \* the pid of a process of an earlier run, gone by now
    LeftBehind,     \* the snapshots an earlier run may have left
    SlowHolders,    \* may a live process hold the lock for seconds?
    WritesFail,     \* may a write of the file fail?
    Absent          \* no file, no lock, no outcome

ASSUME StoreAssumption == SlowHolders \in BOOLEAN /\ WritesFail \in BOOLEAN

VARIABLES
    file,       \* watch.state.json: a snapshot, or Absent
    lock,       \* watch.state.json.lock: the process that created it, or Absent
    tx,         \* [Processes -> Steps]: how far its transition() is
    known,      \* [Processes -> outcome]: run_outcome of WatchRunStore::state
    next,       \* [Processes -> Snapshots]: the snapshot a transition is to publish
    robbed      \* history: a lock file was removed under a live holder

storeVars == <<file, lock, tx, known, next, robbed>>

Outcomes ==
    {"completed", "partial-failure", "skipped", "exhausted", "gracefully-stopped"}

Steps == {"idle", "opening", "unlinking", "loading", "saving", "dropping", "failed"}

\* WatchRunState, less the fields that are only displayed, the generation among
\* them: nothing in the code compares it.  WatchState, the first version of the
\* file, knows the pid alone.
Snapshots ==
    [version : {1, 2}, pid : Processes \cup {Earlier}, active : Nat,
     staged : BOOLEAN, outcome : Outcomes \cup {Absent}, done : Seq(Outcomes)]

ASSUME AbsentAssumption == Absent \notin Snapshots

\* The first version of the file has neither an outcome nor results.
ASSUME EarlierAssumption ==
    /\ Earlier \notin Processes
    /\ \A s \in LeftBehind :
           /\ s \in Snapshots /\ s.pid = Earlier
           /\ s.version = 1 => s.outcome = Absent /\ s.done = <<>>

Fresh(p) ==
    [version |-> 2, pid |-> p, active |-> 0, staged |-> FALSE,
     outcome |-> Absent, done |-> <<>>]

FreshV1(p) == [Fresh(p) EXCEPT !.version = 1]

\* load_from: a file of the first version is migrated, with nothing made up.
Loaded(snapshot) == IF snapshot.version = 1 THEN Fresh(snapshot.pid) ELSE snapshot

StoreTypeOK ==
    /\ file \in Snapshots \cup {Absent}
    /\ lock \in Processes \cup {Earlier, Absent}
    /\ tx \in [Processes -> Steps]
    /\ known \in [Processes -> Outcomes \cup {Absent}]
    /\ next \in [Processes -> Snapshots]
    /\ robbed \in BOOLEAN

StoreInit ==
    /\ file \in LeftBehind \cup {Absent}
    /\ lock \in {Earlier, Absent}
    /\ tx = [p \in Processes |-> "idle"]
    /\ known = [p \in Processes |-> Absent]
    /\ next = [p \in Processes |-> Fresh(p)]
    /\ robbed = FALSE

-----------------------------------------------------------------------------
(***************************************************************************)
(* apply_transition: one event changes one snapshot.  LifecycleObserved    *)
(* and PaneObserved change only what is displayed.                         *)
(***************************************************************************)
Apply(event, s) ==
    CASE event.kind = "active"    -> [s EXCEPT !.active = event.index]
      [] event.kind = "stage"     -> [s EXCEPT !.staged = TRUE]
      [] event.kind = "observed"  -> s
      [] event.kind = "milestone" -> [s EXCEPT !.done = Append(@, event.outcome)]
      [] event.kind = "run"       -> [s EXCEPT !.outcome = event.outcome,
                                               !.active = 0, !.staged = FALSE]
      [] event.kind = "pid"       -> [s EXCEPT !.pid = event.pid]

\* The outcome of a run is written once.
Refuses(event, s) == event.kind = "run" /\ s.outcome # Absent

-----------------------------------------------------------------------------
\* The processes that are between the creation of the lock file and its removal.
Holding == {p \in Processes : tx[p] \in {"loading", "saving", "dropping"}}

Step(p, from, to) ==
    /\ tx[p] = from
    /\ tx' = [tx EXCEPT ![p] = to]

\* remove_file on the lock file, whoever created the one that is there.
RemoveLock(p) ==
    /\ lock' = Absent
    /\ robbed' = (robbed \/ lock \in Holding \ {p})

\* Mutant: the lock file is opened, not created new.
OpenAny(p) ==
    /\ Step(p, "opening", "loading")
    /\ lock' = p
    /\ UNCHANGED <<file, known, next, robbed>>

Open(p) ==
    /\ Step(p, "opening", "loading")
    /\ lock = Absent
    /\ lock' = p
    /\ UNCHANGED <<file, known, next, robbed>>

\* The process that created the lock file was killed, or is slow.
Stale == lock # Absent /\ (SlowHolders \/ lock \notin Holding)

FindStale(p) ==
    /\ Step(p, "opening", "unlinking")
    /\ Stale
    /\ UNCHANGED <<file, lock, known, next, robbed>>

Unlink(p) ==
    /\ Step(p, "unlinking", "opening")
    /\ RemoveLock(p)
    /\ UNCHANGED <<file, known, next>>

TimeOut(p) ==
    /\ Step(p, "opening", "failed")
    /\ lock \in Holding
    /\ UNCHANGED <<file, lock, known, next, robbed>>

(***************************************************************************)
(* Reload the file under the lock and apply the event, except that a       *)
(* second outcome is dropped.  Without a file the store goes on from its   *)
(* own copy, which is a fresh one then: the file is never removed, and the *)
(* copy changes only after a write.                                        *)
(***************************************************************************)
Current(p) == IF file = Absent THEN Fresh(p) ELSE Loaded(file)

\* Mutant: the results in the file are not reloaded, the list is the copy's.
ReloadNoResults(p, event) ==
    /\ LET copy == [Current(p) EXCEPT !.done = Fresh(p).done]
       IN  IF Refuses(event, copy)
           THEN Step(p, "loading", "dropping") /\ next' = [next EXCEPT ![p] = Current(p)]
           ELSE Step(p, "loading", "saving") /\ next' = [next EXCEPT ![p] = Apply(event, copy)]
    /\ UNCHANGED <<file, lock, known, robbed>>

\* Mutant: whether the run has an outcome is looked up in the copy.
ReloadUnchecked(p, event) ==
    /\ IF event.kind = "run" /\ known[p] # Absent
       THEN Step(p, "loading", "dropping") /\ next' = [next EXCEPT ![p] = Current(p)]
       ELSE Step(p, "loading", "saving") /\ next' = [next EXCEPT ![p] = Apply(event, Current(p))]
    /\ UNCHANGED <<file, lock, known, robbed>>

Reload(p, event) ==
    /\ IF Refuses(event, Current(p))
       THEN Step(p, "loading", "dropping") /\ next' = [next EXCEPT ![p] = Current(p)]
       ELSE Step(p, "loading", "saving") /\ next' = [next EXCEPT ![p] = Apply(event, Current(p))]
    /\ UNCHANGED <<file, lock, known, robbed>>

Save(p) ==
    /\ Step(p, "saving", "dropping")
    /\ file' = next[p]
    /\ UNCHANGED <<lock, known, next, robbed>>

\* The write fails, before or after the file is replaced; the lock goes with it.
FailSave(p) ==
    /\ WritesFail
    /\ Step(p, "saving", "failed")
    /\ file' \in {file, next[p]}
    /\ next' = [next EXCEPT ![p] = Fresh(p)]
    /\ RemoveLock(p)
    /\ UNCHANGED known

Drop(p) ==
    /\ Step(p, "dropping", "idle")
    /\ known' = [known EXCEPT ![p] = next[p].outcome]
    /\ next' = [next EXCEPT ![p] = Fresh(p)]
    /\ RemoveLock(p)
    /\ UNCHANGED file

Transition(p, event) ==
    \/ Open(p) \/ FindStale(p) \/ Unlink(p) \/ TimeOut(p)
    \/ Reload(p, event)
    \/ Save(p) \/ FailSave(p) \/ Drop(p)

-----------------------------------------------------------------------------
\* The process is killed.  Its memory is gone; a lock file it created stays.
Die(p) ==
    /\ tx' = [tx EXCEPT ![p] = "idle"]
    /\ known' = [known EXCEPT ![p] = Absent]
    /\ next' = [next EXCEPT ![p] = Fresh(p)]
    /\ UNCHANGED <<file, lock, robbed>>

\* save_to_plan: a snapshot is written without the lock; the write may fail.
SaveUnlocked(snapshot) == file' = snapshot \/ (WritesFail /\ file' = file)

=============================================================================
