------------------------------- MODULE WatchRun -------------------------------
(***************************************************************************)
(* One run of mp watch and the processes around it: the client that        *)
(* detaches a driver (commands/watch_detach.rs), the driver with its       *)
(* sequencer and drive loop (commands/watch.rs, watch/sequencer.rs,        *)
(* watch/state_machine.rs) and mp watch-control stop                       *)
(* (commands/watch_control.rs), all on one WatchStore.                     *)
(*                                                                         *)
(* A process starts a transition by going to the location named for it;    *)
(* it goes on from there when the transition is done.  What the milestone  *)
(* and the agents in their panes do is chosen freely.                      *)
(***************************************************************************)
EXTENDS WatchStore

CONSTANTS
    Client,         \* mp watch --detach
    Driver,         \* the process that drives the queue
    Stoppers,       \* mp watch-control stop
    QueueLength,    \* the number of milestones given to mp watch
    MaxIterations   \* MAX_ITERATIONS_PER_MILESTONE, 10 in the code

ASSUME ProcessesAssumption ==
    /\ Processes = {Client, Driver} \cup Stoppers
    /\ Client # Driver
    /\ Client \notin Stoppers /\ Driver \notin Stoppers
    /\ Absent \notin Processes \cup Outcomes \cup {Earlier}

ASSUME QueueAssumption == QueueLength \in Nat \ {0} /\ MaxIterations \in Nat \ {0}

VARIABLES
    at,         \* [Processes -> Locations]
    results,    \* the outcome of every milestone driven so far, in queue order
    iteration,  \* the iterations spent on the current milestone
    shutdown,   \* SHUTDOWN_REQUESTED of the driver
    target      \* [Stoppers -> Processes \cup {Absent}]: the pid that was signalled

runVars == <<at, results, iteration, shutdown, target>>
vars == <<storeVars, runVars>>

Locations ==
    {"unborn", "start", "saved", "spawned", "patching",
     "boot", "booted", "activating", "staging", "prompting", "waiting",
     "observing", "recording", "aggregating", "ending", "stamping", "flushing",
     "hung", "awaiting", "exited", "stopped"}

TypeOK ==
    /\ StoreTypeOK
    /\ at \in [Processes -> Locations]
    /\ results \in Seq(Outcomes)
    /\ iteration \in Nat
    /\ shutdown \in BOOLEAN
    /\ target \in [Stoppers -> Processes \cup {Absent}]

\* Either the driver runs in the foreground, or a client is about to detach it.
Init ==
    /\ StoreInit
    /\ \E detach \in BOOLEAN :
           at = [p \in Processes |->
                    CASE p = Client -> IF detach THEN "start" ELSE "exited"
                      [] p = Driver -> IF detach THEN "unborn" ELSE "boot"
                      [] OTHER      -> "start"]
    /\ results = <<>>
    /\ iteration = 0
    /\ shutdown = FALSE
    /\ target = [s \in Stoppers |-> Absent]

\* The process with this pid runs; the pid of an earlier run is nobody's.
Alive(p) == p \in Processes /\ at[p] \notin {"unborn", "exited", "stopped"}

\* p is at one of these locations and its transition, if any, has succeeded.
Ready(p, locations) == at[p] \in locations /\ tx[p] = "idle"

Go(p, location) == at' = [at EXCEPT ![p] = location]

Start(p, location) ==
    /\ Go(p, location)
    /\ tx' = [tx EXCEPT ![p] = "opening"]
    /\ UNCHANGED <<file, lock, known, next, robbed>>

-----------------------------------------------------------------------------
\* What each location's transition publishes.
Completed == {i \in DOMAIN results : results[i] = "completed"}
Ended(outcome) == \E i \in DOMAIN results : results[i] = outcome

\* Mutant: one completed milestone completes the run.
AggregateAny == IF Completed # {} THEN "completed" ELSE "skipped"

(***************************************************************************)
(* run_milestones, the aggregate: a shutdown wins, all completed is        *)
(* completed, some completed (or skipped, then exhausted) is partial.      *)
(***************************************************************************)
Aggregate ==
    IF Ended("gracefully-stopped") THEN "gracefully-stopped"
    ELSE IF Completed = DOMAIN results THEN "completed"
    ELSE IF Completed # {} \/ (Ended("skipped") /\ Ended("exhausted"))
    THEN "partial-failure"
    ELSE IF Ended("exhausted") THEN "exhausted"
    ELSE "skipped"

Event(p) ==
    CASE at[p] = "patching"    -> [kind |-> "pid", pid |-> Driver]
      [] at[p] = "activating"  -> [kind |-> "active", index |-> Len(results) + 1]
      [] at[p] = "staging"     -> [kind |-> "stage"]
      [] at[p] = "recording"   -> [kind |-> "milestone", outcome |-> results[Len(results)]]
      [] at[p] = "aggregating" -> [kind |-> "run", outcome |-> Aggregate]
      [] at[p] = "stamping"    -> [kind |-> "run", outcome |-> "gracefully-stopped"]
      [] OTHER                 -> [kind |-> "observed"]

Publish(p) == Transition(p, Event(p)) /\ UNCHANGED runVars

-----------------------------------------------------------------------------
(***************************************************************************)
(* cmd_watch_detached: write a first snapshot, spawn the driver, then      *)
(* patch the driver's pid into the snapshot.                               *)
(***************************************************************************)
ClientSave ==
    /\ Ready(Client, {"start"})
    /\ \/ file' = Fresh(Client) /\ Go(Client, "saved")
       \/ WritesFail /\ SaveUnlocked(Fresh(Client)) /\ Go(Client, "exited")
    /\ UNCHANGED <<lock, tx, known, next, robbed, results, iteration, shutdown, target>>

Spawn ==
    /\ Ready(Client, {"saved"})
    /\ \/ at' = [at EXCEPT ![Client] = "spawned", ![Driver] = "boot"]
       \/ Go(Client, "exited")
    /\ UNCHANGED <<storeVars, results, iteration, shutdown, target>>

PatchPid ==
    /\ Ready(Client, {"spawned"})
    /\ Start(Client, "patching")
    /\ UNCHANGED <<results, iteration, shutdown, target>>

ClientExit ==
    /\ at[Client] = "patching" /\ tx[Client] \in {"idle", "failed"}
    /\ Go(Client, "exited")
    /\ UNCHANGED <<storeVars, results, iteration, shutdown, target>>

-----------------------------------------------------------------------------
(***************************************************************************)
(* cmd_watch_drive, up to the sequencer: refuse to start beside the live   *)
(* panes of an earlier run, or write the first snapshot (without the lock; *)
(* a failure is only logged).                                              *)
(***************************************************************************)
Refuse ==
    /\ Ready(Driver, {"boot"})
    /\ Go(Driver, "exited")
    /\ UNCHANGED <<storeVars, results, iteration, shutdown, target>>

Boot ==
    /\ Ready(Driver, {"boot"})
    /\ SaveUnlocked(Fresh(Driver))
    /\ Go(Driver, "booted")
    /\ UNCHANGED <<lock, tx, known, next, robbed, results, iteration, shutdown, target>>

Halted == Ended("exhausted") \/ Ended("gracefully-stopped")

\* run_milestones: the next milestone of the queue, unless the last one halts it.
NextMilestone ==
    /\ Ready(Driver, {"booted", "recording"})
    /\ ~Halted /\ Len(results) < QueueLength
    /\ Start(Driver, "activating")
    /\ UNCHANGED <<results, iteration, shutdown, target>>

\* drive_milestone is left with an outcome, which is recorded.
Outcome(outcome) ==
    /\ results' = Append(results, outcome)
    /\ iteration' = 0
    /\ Start(Driver, "recording")

\* An error leaves run_milestones: no outcome, no aggregate.
Fail ==
    /\ Go(Driver, "ending")
    /\ iteration' = 0
    /\ UNCHANGED <<storeVars, results>>

(***************************************************************************)
(* The top of the loop of drive_milestone: stop on a signal, give up after *)
(* MaxIterations, otherwise read the milestone and take its stage.         *)
(***************************************************************************)
Iterate ==
    /\ Ready(Driver, {"activating", "observing"})
    /\ \/ shutdown /\ Outcome("gracefully-stopped")
       \/ ~shutdown /\ iteration >= MaxIterations /\ Outcome("exhausted")
       \/ /\ ~shutdown /\ iteration < MaxIterations
          /\ \/ Outcome("completed")
             \/ Outcome("skipped")
             \/ Start(Driver, "staging") /\ iteration' = iteration + 1 /\ UNCHANGED results
             \/ Fail
    /\ UNCHANGED <<shutdown, target>>

\* ensure_pane and send_prompt_to: each publishes the pane before it goes on, one
\* transition stands for both.
Prompt ==
    /\ Ready(Driver, {"staging"})
    /\ Start(Driver, "prompting")
    /\ UNCHANGED <<results, iteration, shutdown, target>>

\* A stage in progress is not prompted again; spawning a pane or sending the
\* prompt may fail.
Dispatched ==
    /\ Ready(Driver, {"staging", "prompting"})
    /\ \/ Go(Driver, "waiting") /\ UNCHANGED <<storeVars, results, iteration>>
       \/ Fail
    /\ UNCHANGED <<shutdown, target>>

\* integrated_wait: the lifecycle is reached and, if the milestone can be read,
\* published; or the agent stalls.
Reached ==
    /\ Ready(Driver, {"waiting"})
    /\ \/ Start(Driver, "observing") /\ UNCHANGED <<results, iteration>>
       \/ Go(Driver, "observing") /\ UNCHANGED <<storeVars, results, iteration>>
       \/ Fail
    /\ UNCHANGED <<shutdown, target>>

\* Mutant: the wait does not look at the shutdown flag.
DeafWait == FALSE

WaitInterrupted ==
    /\ Ready(Driver, {"waiting"})
    /\ shutdown
    /\ Fail
    /\ UNCHANGED <<shutdown, target>>

AggregateOutcome ==
    /\ Ready(Driver, {"recording"})
    /\ Halted \/ Len(results) = QueueLength
    /\ Start(Driver, "aggregating")
    /\ UNCHANGED <<results, iteration, shutdown, target>>

\* A transition of the driver fails, which ends the run.
TransitionFailed ==
    /\ tx[Driver] = "failed"
    /\ tx' = [tx EXCEPT ![Driver] = "idle"]
    /\ Go(Driver, IF at[Driver] = "stamping" THEN "flushing" ELSE "ending")
    /\ UNCHANGED <<file, lock, known, next, robbed, results, iteration, shutdown, target>>

(***************************************************************************)
(* cmd_watch_drive, after the sequencer: once a signal was seen, stamp the *)
(* outcome if the run has none, and let perform_graceful_shutdown write    *)
(* its own WatchState to the same path.                                    *)
(***************************************************************************)
End ==
    /\ Ready(Driver, {"aggregating", "ending"})
    /\ IF shutdown /\ known[Driver] = Absent
       THEN Start(Driver, "stamping")
       ELSE /\ Go(Driver, IF shutdown THEN "flushing" ELSE "exited")
            /\ UNCHANGED storeVars
    /\ UNCHANGED <<results, iteration, shutdown, target>>

Flush ==
    /\ Ready(Driver, {"stamping", "flushing"})
    /\ SaveUnlocked(FreshV1(Driver))
    /\ Go(Driver, "stopped")
    /\ UNCHANGED <<lock, tx, known, next, robbed, results, iteration, shutdown, target>>

(***************************************************************************)
(* The driver calls herdr and mp without a time limit, to list the panes,  *)
(* to open one, to prompt it, and at every poll of the wait: a call that   *)
(* does not come back keeps it, and a signal sets the flag and no more.    *)
(* Only the calls about the sentinel are bounded.                          *)
(***************************************************************************)
Hang ==
    /\ Ready(Driver, {"boot", "staging", "prompting", "waiting"})
    /\ Go(Driver, "hung")
    /\ UNCHANGED <<storeVars, results, iteration, shutdown, target>>

-----------------------------------------------------------------------------
\* SIGINT or SIGTERM, sent by a process that moves on: the driver has handlers
\* once it has booted, any other process dies.
Signal(p, moved) ==
    \/ /\ p = Driver
       /\ shutdown' = TRUE
       /\ at' = moved
       /\ UNCHANGED storeVars
    \/ /\ p # Driver \/ at[p] = "boot"
       /\ Die(p)
       /\ at' = [moved EXCEPT ![p] = "exited"]
       /\ UNCHANGED shutdown

Interrupt(p) ==
    /\ Alive(p)
    /\ Signal(p, at)
    /\ UNCHANGED <<results, iteration, target>>

Kill(p) ==
    /\ Alive(p)
    /\ Die(p)
    /\ Go(p, "exited")
    /\ UNCHANGED <<results, iteration, shutdown, target>>

(***************************************************************************)
(* cmd_watch_control_stop: signal the recorded pid, wait for it to go, and *)
(* stamp the outcome if the snapshot has none.                             *)
(***************************************************************************)
SignalRecorded(s) ==
    /\ Ready(s, {"start"})
    /\ IF file # Absent /\ Alive(file.pid)
       THEN /\ Signal(file.pid, [at EXCEPT ![s] = "awaiting"])
            /\ target' = [target EXCEPT ![s] = file.pid]
       ELSE Go(s, "exited") /\ UNCHANGED <<storeVars, shutdown, target>>
    /\ UNCHANGED <<results, iteration>>

AwaitExit(s) ==
    /\ Ready(s, {"awaiting"})
    /\ ~Alive(target[s])
    /\ IF Loaded(file).outcome = Absent
       THEN Start(s, "stamping")
       ELSE Go(s, "exited") /\ UNCHANGED storeVars
    /\ UNCHANGED <<results, iteration, shutdown, target>>

GiveUp(s) ==
    /\ Ready(s, {"awaiting"})
    /\ Alive(target[s])
    /\ Go(s, "exited")
    /\ UNCHANGED <<storeVars, results, iteration, shutdown, target>>

Stopped(s) ==
    /\ at[s] = "stamping" /\ tx[s] \in {"idle", "failed"}
    /\ Go(s, "exited")
    /\ UNCHANGED <<storeVars, results, iteration, shutdown, target>>

-----------------------------------------------------------------------------
ClientNext == ClientSave \/ Spawn \/ PatchPid \/ ClientExit

\* What the driver does without the help of the milestone's agents.
DriverRuns ==
    \/ Boot \/ NextMilestone \/ Iterate
    \/ Prompt \/ Dispatched \/ WaitInterrupted
    \/ AggregateOutcome \/ TransitionFailed \/ End \/ Flush

StopperNext(s) == SignalRecorded(s) \/ AwaitExit(s) \/ GiveUp(s) \/ Stopped(s)

Next ==
    \/ ClientNext
    \/ DriverRuns \/ Refuse \/ Reached \/ Hang
    \/ \E s \in Stoppers : StopperNext(s)
    \/ \E p \in Processes : Publish(p)
    \/ \E p \in {Client, Driver} : Interrupt(p) \/ Kill(p)

\* A process keeps running unless it waits for an agent or a call hangs: the steps
\* of a transition are bounded by its deadline, the calls of the driver by nothing.
Fairness ==
    /\ WF_vars(DriverRuns)
    /\ \A p \in Processes : WF_vars(Publish(p))

Spec == Init /\ [][Next]_vars /\ Fairness

-----------------------------------------------------------------------------
\* Two live processes are between the creation and the removal of the lock file
\* only after one of them lost it: create_new excludes, and only the removal of a
\* stale lock file breaks it (WatchRunStore::transition, StateLock::drop).
SerialUnlessRobbed ==
    ~robbed => \A p, q \in Holding : p = q

Earned ==
    /\ Len(results) = QueueLength
    /\ \A i \in DOMAIN results : results[i] = "completed"

\* Is the snapshot of this run?  While the first save has failed, it is still the
\* one an earlier run left, and the transitions of the driver go on from that.
Ours == file # Absent /\ file.pid # Earlier

\* A run is called completed only when every milestone of the queue was driven to
\* complete, whatever signals, second writers and lost locks do to the file, and
\* whatever an earlier run left (run_milestones and the write-once rule of
\* transition).  A snapshot that is still the earlier run's keeps that run's outcome.
CompletedIsEarned ==
    (Ours /\ file.outcome = "completed") => Earned

IsInitialPart(s, t) == Len(s) <= Len(t) /\ \A i \in DOMAIN s : s[i] = t[i]

\* The snapshot lists the outcomes of the milestones in the order they were
\* driven, and none is missing when the driver has turned to the next one: while
\* the lock holds, no other writer loses an event (reload under the lock), and once
\* the first save has succeeded nothing of an earlier run is left in the list.
RecordsEveryResult ==
    (~robbed /\ Ours) =>
        /\ IsInitialPart(file.done, results)
        /\ Ready(Driver, {"activating", "aggregating"}) => file.done = results

\* An outcome, once published, is not replaced by another one through a
\* transition: of a stop and the end of the run, the first to publish stands.
\* (The saves without the lock, of the client and of the driver, begin a run or end
\* it; they write the file and move their process in one step.)
OutcomeIsWriteOnce ==
    [][(/\ ~robbed /\ at'[Driver] = at[Driver] /\ at'[Client] = at[Client]
        /\ file # Absent /\ file.outcome # Absent)
       => (file' # Absent /\ file'.outcome = file.outcome)]_vars

\* A signal ends the run, unless a call without a time limit hangs: neither the wait
\* for an agent nor a lock file left by a killed process, of this run or an earlier
\* one, keeps the driver (shutdown.rs, the stale rule of transition).
InterruptEndsRun == shutdown ~> (~Alive(Driver) \/ at[Driver] = "hung")

\* What watch.rs says where it stamps the outcome after a signal: mp watch status
\* then reads it.  So an outcome the driver has published is still in the file
\* when the driver is gone.
StampSurvivesExit ==
    (at[Driver] = "stopped" /\ known[Driver] # Absent) =>
        (file # Absent /\ Loaded(file).outcome # Absent)

=============================================================================
