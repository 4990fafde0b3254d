--------------------------- MODULE WatchRunProofs ---------------------------
(***************************************************************************)
(* What holds of every run of mp watch, for every queue, every number of   *)
(* stop commands, slow or prompt holders of the lock, failing writes or    *)
(* none: the types, mutual exclusion up to a stolen lock, the write-once   *)
(* outcome, that a completed run was earned, and that no result is lost.   *)
(***************************************************************************)
EXTENDS WatchRun, TLAPS

Driving == {"activating", "staging", "prompting", "waiting", "observing"}

\* Where the processes can be, and what the driver has behind it there.
Located ==
    /\ \A p \in Processes \ {Driver} :
           at[p] \in {"start", "saved", "spawned", "patching", "awaiting", "stamping", "exited"}
    /\ at[Driver] = "recording" => Len(results) > 0
    /\ at[Driver] \in Driving => Len(results) < QueueLength
    /\ at[Driver] = "aggregating" => Halted \/ Len(results) = QueueLength

USE ProcessesAssumption, QueueAssumption, StoreAssumption

LEMMA FreshType ==
    ASSUME NEW p \in Processes \cup {Earlier}
    PROVE  /\ Fresh(p) \in Snapshots /\ FreshV1(p) \in Snapshots
           /\ Fresh(p).outcome = Absent /\ FreshV1(p).outcome = Absent
<1>1. <<>> \in Seq(Outcomes)
  OBVIOUS
<1> QED BY <1>1 DEF Fresh, FreshV1, Snapshots

LEMMA CurrentType ==
    ASSUME StoreTypeOK, NEW p \in Processes
    PROVE  /\ Current(p) \in Snapshots
           /\ file = Absent => Current(p).outcome = Absent
           /\ file # Absent =>
                  Current(p).outcome = file.outcome \/ Current(p).outcome = Absent
<1>1. ASSUME file # Absent
      PROVE  file \in Snapshots /\ file.pid \in Processes \cup {Earlier}
  BY <1>1 DEF StoreTypeOK, Snapshots
<1> QED BY <1>1, FreshType DEF Current, Loaded

\* The aggregate is an outcome, and completed only when all milestones are.
LEMMA AggregateType ==
    ASSUME results \in Seq(Outcomes)
    PROVE  /\ Aggregate \in Outcomes
           /\ Aggregate = "completed" =>
                  \A i \in DOMAIN results : results[i] = "completed"
BY DEF Aggregate, Outcomes, Completed

LEMMA StampType ==
    ASSUME NEW s \in Snapshots, NEW o \in Outcomes
    PROVE  /\ [s EXCEPT !.outcome = o, !.active = 0, !.staged = FALSE] \in Snapshots
           /\ [s EXCEPT !.outcome = o, !.active = 0, !.staged = FALSE].outcome = o
<1> DEFINE a == [s EXCEPT !.outcome = o]
<1> DEFINE b == [a EXCEPT !.active = 0]
<1> DEFINE c == [b EXCEPT !.staged = FALSE]
<1>1. a \in Snapshots /\ a.outcome = o
  BY DEF Snapshots
<1> HIDE DEF a
<1>2. b \in Snapshots /\ b.outcome = o
  BY <1>1 DEF Snapshots
<1> HIDE DEF b
<1>3. c \in Snapshots /\ c.outcome = o
  BY <1>2 DEF Snapshots
<1>4. [s EXCEPT !.outcome = o, !.active = 0, !.staged = FALSE] = c
  BY DEF a, b, c
<1> QED BY <1>3, <1>4

\* What an event that is not refused makes of a snapshot.
LEMMA ApplyType ==
    ASSUME TypeOK, Located, NEW p \in Processes, NEW s \in Snapshots,
           ~Refuses(Event(p), s)
    PROVE  /\ Apply(Event(p), s) \in Snapshots
           /\ s.outcome # Absent => Apply(Event(p), s).outcome = s.outcome
           /\ Apply(Event(p), s).outcome = "completed" =>
                  \/ s.outcome = "completed"
                  \/ p = Driver /\ at[p] = "aggregating" /\ Aggregate = "completed"
<1>1. CASE at[p] = "patching"
  <2>1. Event(p) = [kind |-> "pid", pid |-> Driver]
    BY <1>1 DEF Event
  <2>2. Apply(Event(p), s) = [s EXCEPT !.pid = Driver]
    BY <2>1 DEF Apply
  <2> QED BY <2>2 DEF Snapshots
<1>2. CASE at[p] = "activating"
  <2>1. Event(p) = [kind |-> "active", index |-> Len(results) + 1]
    BY <1>2 DEF Event
  <2>2. Apply(Event(p), s) = [s EXCEPT !.active = Len(results) + 1]
    BY <2>1 DEF Apply
  <2>3. Len(results) + 1 \in Nat
    BY DEF TypeOK
  <2> QED BY <2>2, <2>3 DEF Snapshots
<1>3. CASE at[p] = "staging"
  <2>1. Event(p) = [kind |-> "stage"]
    BY <1>3 DEF Event
  <2>2. Apply(Event(p), s) = [s EXCEPT !.staged = TRUE]
    BY <2>1 DEF Apply
  <2> QED BY <2>2 DEF Snapshots
<1>4. CASE at[p] = "recording"
  <2>1. Event(p) = [kind |-> "milestone", outcome |-> results[Len(results)]]
    BY <1>4 DEF Event
  <2>2. Apply(Event(p), s) = [s EXCEPT !.done = Append(@, results[Len(results)])]
    BY <2>1 DEF Apply
  <2>3. results[Len(results)] \in Outcomes
    BY <1>4 DEF TypeOK, Located
  <2>4. Append(s.done, results[Len(results)]) \in Seq(Outcomes)
    BY <2>3 DEF Snapshots
  <2> QED BY <2>2, <2>4 DEF Snapshots
<1>5. CASE at[p] = "aggregating"
  <2>1. Event(p) = [kind |-> "run", outcome |-> Aggregate]
    BY <1>5 DEF Event
  <2>2. Apply(Event(p), s) =
            [s EXCEPT !.outcome = Aggregate, !.active = 0, !.staged = FALSE]
    BY <2>1 DEF Apply
  <2>3. s.outcome = Absent
    BY <2>1 DEF Refuses
  <2>4. p = Driver
    BY <1>5 DEF Located
  <2>5. /\ Aggregate \in Outcomes
        /\ s.outcome \in Outcomes \cup {Absent}
    BY AggregateType DEF TypeOK, Snapshots
  <2>6. /\ [s EXCEPT !.outcome = Aggregate, !.active = 0, !.staged = FALSE] \in Snapshots
        /\ [s EXCEPT !.outcome = Aggregate, !.active = 0, !.staged = FALSE].outcome = Aggregate
    BY <2>5, StampType
  <2>7. Apply(Event(p), s) \in Snapshots /\ Apply(Event(p), s).outcome = Aggregate
    BY <2>2, <2>6
  <2> QED BY <1>5, <2>3, <2>4, <2>7
<1>6. CASE at[p] = "stamping"
  <2>1. Event(p) = [kind |-> "run", outcome |-> "gracefully-stopped"]
    BY <1>6 DEF Event
  <2>2. Apply(Event(p), s) =
            [s EXCEPT !.outcome = "gracefully-stopped", !.active = 0, !.staged = FALSE]
    BY <2>1 DEF Apply
  <2>3. s.outcome = Absent
    BY <2>1 DEF Refuses
  <2>4. "gracefully-stopped" \in Outcomes
    BY DEF Outcomes
  <2>5. Apply(Event(p), s) \in Snapshots
    BY <2>2, <2>4, StampType
  <2>6. Apply(Event(p), s).outcome = "gracefully-stopped"
    BY <2>2, <2>4, StampType
  <2> QED BY <2>3, <2>5, <2>6
<1>7. CASE at[p] \notin {"patching", "activating", "staging", "recording",
                         "aggregating", "stamping"}
  <2>1. Event(p) = [kind |-> "observed"]
    BY <1>7 DEF Event
  <2>2. Apply(Event(p), s) = s
    BY <2>1 DEF Apply
  <2> QED BY <2>2
<1> QED BY <1>1, <1>2, <1>3, <1>4, <1>5, <1>6, <1>7

-----------------------------------------------------------------------------
\* The steps the actions are put together from keep the types of the store.

LEMMA StartType ==
    ASSUME TypeOK, NEW p \in Processes, NEW l \in Locations, Start(p, l)
    PROVE  StoreTypeOK' /\ at' \in [Processes -> Locations]
<1>1. tx' \in [Processes -> Steps]
  BY DEF Start, TypeOK, StoreTypeOK, Steps
<1> QED BY <1>1 DEF Start, Go, TypeOK, StoreTypeOK

LEMMA GoType ==
    ASSUME TypeOK, NEW p \in Processes, NEW l \in Locations, Go(p, l)
    PROVE  at' \in [Processes -> Locations]
BY DEF Go, TypeOK

LEMMA SameType ==
    ASSUME TypeOK, UNCHANGED storeVars
    PROVE  StoreTypeOK'
BY DEF storeVars, TypeOK, StoreTypeOK

LEMMA SaveType ==
    ASSUME TypeOK, NEW s \in Snapshots, SaveUnlocked(s),
           UNCHANGED <<lock, tx, known, next, robbed>>
    PROVE  StoreTypeOK'
BY DEF SaveUnlocked, TypeOK, StoreTypeOK

LEMMA DieType ==
    ASSUME TypeOK, NEW p \in Processes, Die(p)
    PROVE  StoreTypeOK'
<1>1. tx' \in [Processes -> Steps]
  BY DEF Die, TypeOK, StoreTypeOK, Steps
<1>2. known' \in [Processes -> Outcomes \cup {Absent}]
  BY DEF Die, TypeOK, StoreTypeOK
<1>3. next' \in [Processes -> Snapshots]
  BY FreshType DEF Die, TypeOK, StoreTypeOK
<1> QED BY <1>1, <1>2, <1>3 DEF Die, TypeOK, StoreTypeOK

LEMMA SignalType ==
    ASSUME TypeOK, NEW p \in Processes, NEW moved \in [Processes -> Locations],
           Signal(p, moved)
    PROVE  /\ StoreTypeOK' /\ shutdown' \in BOOLEAN
           /\ at' \in [Processes -> Locations]
           /\ at' = moved \/ at' = [moved EXCEPT ![p] = "exited"]
<1>1. CASE shutdown' = TRUE /\ at' = moved /\ UNCHANGED storeVars
  BY <1>1, SameType
<1>2. CASE Die(p) /\ at' = [moved EXCEPT ![p] = "exited"] /\ UNCHANGED shutdown
  BY <1>2, DieType DEF TypeOK, Locations
<1> QED BY <1>1, <1>2 DEF Signal

\* A transition keeps the types, whatever step of it is taken.
LEMMA PublishType ==
    ASSUME TypeOK, Located, NEW p \in Processes, Publish(p)
    PROVE  TypeOK' /\ Located'
<1>1. Located'
  BY DEF Publish, runVars, Located, Halted, Ended
<1>2. StoreTypeOK' => TypeOK'
  BY DEF Publish, runVars, TypeOK
<1>3. ASSUME NEW a \in Steps, NEW b \in Steps, Step(p, a, b)
      PROVE  tx' \in [Processes -> Steps]
  BY <1>3 DEF Step, TypeOK, StoreTypeOK
<1>4. RemoveLock(p) => lock' \in Processes \cup {Absent} /\ robbed' \in BOOLEAN
  BY DEF RemoveLock, TypeOK, StoreTypeOK
<1>5. CASE Open(p) \/ FindStale(p) \/ TimeOut(p)
  BY <1>1, <1>2, <1>3, <1>5 DEF Open, FindStale, TimeOut, Steps, TypeOK, StoreTypeOK
<1>6. CASE Unlink(p)
  BY <1>1, <1>2, <1>3, <1>4, <1>6 DEF Unlink, Steps, TypeOK, StoreTypeOK
<1>7. CASE Reload(p, Event(p))
  <2>1. Current(p) \in Snapshots
    BY CurrentType DEF TypeOK
  <2>2. next' \in [Processes -> Snapshots]
    <3>1. CASE Refuses(Event(p), Current(p))
      BY <1>7, <2>1, <3>1 DEF Reload, TypeOK, StoreTypeOK
    <3>2. CASE ~Refuses(Event(p), Current(p))
      <4>1. Apply(Event(p), Current(p)) \in Snapshots
        BY <2>1, <3>2, ApplyType
      <4> QED BY <1>7, <3>2, <4>1 DEF Reload, TypeOK, StoreTypeOK
    <3> QED BY <3>1, <3>2
  <2>3. tx' \in [Processes -> Steps]
    BY <1>3, <1>7 DEF Reload, Steps
  <2> QED BY <1>1, <1>2, <1>7, <2>2, <2>3 DEF Reload, TypeOK, StoreTypeOK
<1>8. CASE Save(p)
  BY <1>1, <1>2, <1>3, <1>8 DEF Save, Steps, TypeOK, StoreTypeOK
<1>9. CASE FailSave(p)
  <2>1. next' \in [Processes -> Snapshots]
    BY <1>9, FreshType DEF FailSave, TypeOK, StoreTypeOK
  <2>2. tx' \in [Processes -> Steps] /\ file' \in Snapshots \cup {Absent}
    BY <1>3, <1>9 DEF FailSave, Steps, TypeOK, StoreTypeOK
  <2> QED BY <1>1, <1>2, <1>4, <1>9, <2>1, <2>2 DEF FailSave, TypeOK, StoreTypeOK
<1>10. CASE Drop(p)
  <2>1. next' \in [Processes -> Snapshots]
    BY <1>10, FreshType DEF Drop, TypeOK, StoreTypeOK
  <2>2. next[p].outcome \in Outcomes \cup {Absent}
    BY DEF TypeOK, StoreTypeOK, Snapshots
  <2>3. known' \in [Processes -> Outcomes \cup {Absent}]
    BY <1>10, <2>2 DEF Drop, TypeOK, StoreTypeOK
  <2>4. tx' \in [Processes -> Steps]
    BY <1>3, <1>10 DEF Drop, Steps
  <2> QED BY <1>1, <1>2, <1>4, <1>10, <2>1, <2>3, <2>4 DEF Drop, TypeOK, StoreTypeOK
<1> QED BY <1>1, <1>5, <1>6, <1>7, <1>8, <1>9, <1>10 DEF Publish, Transition

-----------------------------------------------------------------------------
LEMMA InitType == Init => TypeOK /\ Located
<1> SUFFICES ASSUME Init PROVE TypeOK /\ Located
  OBVIOUS
<1>1. PICK detach \in BOOLEAN :
          at = [p \in Processes |->
                    CASE p = Client -> IF detach THEN "start" ELSE "exited"
                      [] p = Driver -> IF detach THEN "unborn" ELSE "boot"
                      [] OTHER      -> "start"]
  BY DEF Init
<1>2. at \in [Processes -> Locations]
  BY <1>1 DEF Locations
<1>3. StoreTypeOK
  BY FreshType, EarlierAssumption DEF Init, StoreInit, StoreTypeOK, Steps
<1>4. results \in Seq(Outcomes)
  BY DEF Init
<1>5. Located
  BY <1>1 DEF Located, Driving
<1> QED BY <1>2, <1>3, <1>4, <1>5 DEF Init, TypeOK

LEMMA ClientType ==
    ASSUME TypeOK, Located, ClientNext
    PROVE  TypeOK' /\ Located'
<1>1. CASE ClientSave
  <2>1. SaveUnlocked(Fresh(Client))
    BY <1>1 DEF ClientSave, SaveUnlocked
  <2>2. at' \in [Processes -> Locations]
    BY <1>1, GoType DEF ClientSave, Locations
  <2>3. StoreTypeOK'
    BY <1>1, <2>1, FreshType, SaveType DEF ClientSave
  <2> QED BY <1>1, <2>2, <2>3 DEF ClientSave, Go, TypeOK, Located, Driving, Halted, Ended
<1>2. CASE Spawn
  <2>1. at' \in [Processes -> Locations]
    BY <1>2 DEF Spawn, Go, TypeOK, Locations
  <2> QED BY <1>2, <2>1, SameType DEF Spawn, Go, TypeOK, Located, Driving, Halted, Ended
<1>3. CASE PatchPid
  <2>1. StoreTypeOK' /\ at' \in [Processes -> Locations]
    BY <1>3, StartType DEF PatchPid, Locations
  <2> QED BY <1>3, <2>1 DEF PatchPid, Start, Go, TypeOK, Located, Driving, Halted, Ended
<1>4. CASE ClientExit
  <2>1. at' \in [Processes -> Locations]
    BY <1>4, GoType DEF ClientExit, Locations
  <2> QED BY <1>4, <2>1, SameType DEF ClientExit, Go, TypeOK, Located, Driving, Halted, Ended
<1> QED BY <1>1, <1>2, <1>3, <1>4 DEF ClientNext

\* An outcome is appended, and only while some of the queue is left.
LEMMA OutcomeType ==
    ASSUME TypeOK, Located, NEW o \in Outcomes, Outcome(o), UNCHANGED <<shutdown, target>>
    PROVE  TypeOK' /\ Located'
<1>1. results' \in Seq(Outcomes) /\ Len(results') > 0 /\ iteration' \in Nat
  BY DEF Outcome, TypeOK
<1>2. StoreTypeOK' /\ at' \in [Processes -> Locations]
  BY StartType DEF Outcome, Locations
<1>3. Located'
  BY <1>1 DEF Outcome, Start, Go, TypeOK, Located, Driving
<1> QED BY <1>1, <1>2, <1>3 DEF TypeOK

LEMMA FailType ==
    ASSUME TypeOK, Located, Fail, UNCHANGED <<shutdown, target>>
    PROVE  TypeOK' /\ Located'
<1>1. at' \in [Processes -> Locations]
  BY GoType DEF Fail, Locations
<1>2. Located'
  BY DEF Fail, Go, TypeOK, Located, Driving
<1> QED BY <1>1, <1>2, SameType DEF Fail, TypeOK

\* The driver goes on without an outcome, to a location that asks for nothing more.
LEMMA AdvanceType ==
    ASSUME TypeOK, Located, NEW l \in Locations,
           \/ Start(Driver, l)
           \/ Go(Driver, l) /\ StoreTypeOK',
           results' = results, iteration' \in Nat, UNCHANGED <<shutdown, target>>,
           l # "recording",
           l \in Driving => Len(results) < QueueLength,
           l = "aggregating" => Halted \/ Len(results) = QueueLength
    PROVE  TypeOK' /\ Located'
<1>1. StoreTypeOK' /\ at' \in [Processes -> Locations]
  BY StartType, GoType
<1>2. at' = [at EXCEPT ![Driver] = l]
  BY DEF Start, Go
<1>3. Located'
  BY <1>2 DEF TypeOK, Located, Halted, Ended
<1> QED BY <1>1, <1>3 DEF TypeOK

LEMMA DriverType ==
    ASSUME TypeOK, Located, DriverRuns \/ Refuse \/ Reached \/ Hang
    PROVE  TypeOK' /\ Located'
<1> USE DEF Locations, Driving
<1>1. CASE Boot
  <2>1. StoreTypeOK'
    BY <1>1, FreshType, SaveType DEF Boot
  <2> QED BY <1>1, <2>1, AdvanceType DEF Boot, TypeOK
<1>2. CASE NextMilestone
  BY <1>2, AdvanceType DEF NextMilestone, TypeOK
<1>3. CASE Iterate
  <2>1. CASE \E o \in Outcomes : Outcome(o)
    BY <1>3, <2>1, OutcomeType DEF Iterate
  <2>2. CASE Fail
    BY <1>3, <2>2, FailType DEF Iterate
  <2>3. CASE Start(Driver, "staging") /\ iteration' = iteration + 1 /\ UNCHANGED results
    <3>1. Len(results) < QueueLength
      BY <1>3 DEF Iterate, Ready, Located
    <3> QED BY <1>3, <2>3, <3>1, AdvanceType DEF Iterate, TypeOK
  <2> QED BY <1>3, <2>1, <2>2, <2>3 DEF Iterate, Outcomes
<1>4. CASE Prompt
  <2>1. Len(results) < QueueLength
    BY <1>4 DEF Prompt, Ready, Located
  <2> QED BY <1>4, <2>1, AdvanceType DEF Prompt, TypeOK
<1>5. CASE Dispatched
  <2>1. Len(results) < QueueLength
    BY <1>5 DEF Dispatched, Ready, Located
  <2>2. CASE Go(Driver, "waiting") /\ UNCHANGED <<storeVars, results, iteration>>
    BY <1>5, <2>1, <2>2, SameType, AdvanceType DEF Dispatched, TypeOK
  <2>3. CASE Fail
    BY <1>5, <2>3, FailType DEF Dispatched
  <2> QED BY <1>5, <2>2, <2>3 DEF Dispatched
<1>6. CASE WaitInterrupted
  BY <1>6, FailType DEF WaitInterrupted
<1>7. CASE Reached
  <2>1. Len(results) < QueueLength
    BY <1>7 DEF Reached, Ready, Located
  <2>2. CASE Fail
    BY <1>7, <2>2, FailType DEF Reached
  <2>3. CASE Start(Driver, "observing") /\ UNCHANGED <<results, iteration>>
    BY <1>7, <2>1, <2>3, AdvanceType DEF Reached, TypeOK
  <2>4. CASE Go(Driver, "observing") /\ UNCHANGED <<storeVars, results, iteration>>
    BY <1>7, <2>1, <2>4, SameType, AdvanceType DEF Reached, TypeOK
  <2> QED BY <1>7, <2>2, <2>3, <2>4 DEF Reached
<1>8. CASE AggregateOutcome
  BY <1>8, AdvanceType DEF AggregateOutcome, TypeOK
<1>9. CASE TransitionFailed
  <2>1. tx' \in [Processes -> Steps]
    BY <1>9 DEF TransitionFailed, TypeOK, StoreTypeOK, Steps
  <2>2. StoreTypeOK'
    BY <1>9, <2>1 DEF TransitionFailed, TypeOK, StoreTypeOK
  <2> QED BY <1>9, <2>2, AdvanceType DEF TransitionFailed, TypeOK
<1>10. CASE End
  BY <1>10, SameType, AdvanceType DEF End, TypeOK
<1>11. CASE Flush
  <2>1. StoreTypeOK'
    BY <1>11, FreshType, SaveType DEF Flush
  <2> QED BY <1>11, <2>1, AdvanceType DEF Flush, TypeOK
<1>12. CASE Refuse
  BY <1>12, SameType, AdvanceType DEF Refuse, TypeOK
<1>13. CASE Hang
  BY <1>13, SameType, AdvanceType DEF Hang, TypeOK
<1> QED BY <1>1, <1>2, <1>3, <1>4, <1>5, <1>6, <1>7, <1>8, <1>9, <1>10, <1>11, <1>12, <1>13
        DEF DriverRuns

LEMMA StopperType ==
    ASSUME TypeOK, Located, NEW s \in Stoppers, StopperNext(s)
    PROVE  TypeOK' /\ Located'
<1>1. s \in Processes /\ s # Driver
  OBVIOUS
<1>2. ASSUME NEW l \in Locations, at' = [at EXCEPT ![s] = l], UNCHANGED results,
             l \in {"awaiting", "stamping", "exited"}
      PROVE  Located'
  BY <1>1, <1>2 DEF TypeOK, Located, Driving, Halted, Ended
<1>3. CASE SignalRecorded(s)
  <2>1. CASE Go(s, "exited") /\ UNCHANGED <<storeVars, shutdown, target>>
    <3>1. at' \in [Processes -> Locations] /\ Located'
      BY <1>1, <1>2, <1>3, <2>1, GoType DEF SignalRecorded, Go, Locations
    <3> QED BY <1>3, <2>1, <3>1, SameType DEF SignalRecorded, TypeOK
  <2>2. CASE /\ file # Absent /\ Alive(file.pid)
             /\ Signal(file.pid, [at EXCEPT ![s] = "awaiting"])
             /\ target' = [target EXCEPT ![s] = file.pid]
    <3>1. file.pid \in Processes
      BY <2>2 DEF Alive
    <3> DEFINE moved == [at EXCEPT ![s] = "awaiting"]
    <3>2. moved \in [Processes -> Locations]
      BY <1>1 DEF TypeOK, Locations
    <3>3. moved[Driver] = at[Driver]
      BY <1>1 DEF TypeOK
    <3>4. \A q \in Processes : moved[q] = at[q] \/ moved[q] = "awaiting"
      BY <1>1 DEF TypeOK
    <3>5. Signal(file.pid, moved)
      BY <2>2
    <3> HIDE DEF moved
    <3>6. /\ StoreTypeOK' /\ shutdown' \in BOOLEAN /\ at' \in [Processes -> Locations]
          /\ at' = moved \/ at' = [moved EXCEPT ![file.pid] = "exited"]
      BY <3>1, <3>2, <3>5, SignalType
    <3>7. \A q \in Processes :
              at'[q] = at[q] \/ at'[q] = "exited" \/ (q # Driver /\ at'[q] = "awaiting")
      BY <3>1, <3>2, <3>3, <3>4, <3>6
    <3>8. Located'
      BY <1>3, <3>7 DEF SignalRecorded, Located, Driving, Halted, Ended
    <3>9. target' \in [Stoppers -> Processes \cup {Absent}]
      BY <2>2, <3>1 DEF TypeOK
    <3> QED BY <1>3, <3>6, <3>8, <3>9 DEF SignalRecorded, TypeOK
  <2> QED BY <1>3, <2>1, <2>2 DEF SignalRecorded
<1>4. CASE AwaitExit(s)
  <2>1. CASE Start(s, "stamping")
    <3>1. StoreTypeOK' /\ at' \in [Processes -> Locations] /\ Located'
      BY <1>1, <1>2, <1>4, <2>1, StartType DEF AwaitExit, Start, Go, Locations
    <3> QED BY <1>4, <3>1 DEF AwaitExit, TypeOK
  <2>2. CASE Go(s, "exited") /\ UNCHANGED storeVars
    <3>1. at' \in [Processes -> Locations] /\ Located'
      BY <1>1, <1>2, <1>4, <2>2, GoType DEF AwaitExit, Go, Locations
    <3> QED BY <1>4, <2>2, <3>1, SameType DEF AwaitExit, TypeOK
  <2> QED BY <1>4, <2>1, <2>2 DEF AwaitExit
<1>5. CASE GiveUp(s) \/ Stopped(s)
  <2>1. at' \in [Processes -> Locations] /\ Located'
    BY <1>1, <1>2, <1>5, GoType DEF GiveUp, Stopped, Go, Locations
  <2> QED BY <1>5, <2>1, SameType DEF GiveUp, Stopped, TypeOK
<1> QED BY <1>3, <1>4, <1>5 DEF StopperNext

LEMMA DeathType ==
    ASSUME TypeOK, Located, NEW p \in Processes, Interrupt(p) \/ Kill(p)
    PROVE  TypeOK' /\ Located'
<1>1. ASSUME at' = at \/ at' = [at EXCEPT ![p] = "exited"], UNCHANGED results
      PROVE  Located'
  BY <1>1 DEF TypeOK, Located, Driving, Halted, Ended
<1>2. CASE Interrupt(p)
  <2>1. /\ StoreTypeOK' /\ shutdown' \in BOOLEAN /\ at' \in [Processes -> Locations]
        /\ at' = at \/ at' = [at EXCEPT ![p] = "exited"]
    BY <1>2, SignalType DEF Interrupt, TypeOK
  <2> QED BY <1>1, <1>2, <2>1 DEF Interrupt, TypeOK
<1>3. CASE Kill(p)
  <2>1. at' \in [Processes -> Locations]
    BY <1>3, GoType DEF Kill, Locations
  <2> QED BY <1>1, <1>3, <2>1, DieType DEF Kill, Go, TypeOK
<1> QED BY <1>2, <1>3

LEMMA NextType ==
    ASSUME TypeOK, Located, [Next]_vars
    PROVE  TypeOK' /\ Located'
<1>1. CASE UNCHANGED vars
  BY <1>1, SameType DEF vars, runVars, TypeOK, Located, Driving, Halted, Ended
<1> QED BY <1>1, ClientType, DriverType, StopperType, PublishType, DeathType DEF Next

\* Every reachable state of a run has the declared types.  The index of the last
\* result that a recording publishes exists because of where the driver is.
THEOREM Types == Spec => [](TypeOK /\ Located)
BY InitType, NextType, PTL DEF Spec

\* The type invariant that the run watch_run checks.
THEOREM TypeCorrect == Spec => []TypeOK
BY Types, PTL

-----------------------------------------------------------------------------
\* The strengthening of mutual exclusion: until a lock file is removed under a
\* live holder, whoever is inside created the lock file that is there.
HolderOwnsLock == ~robbed => \A p \in Holding : lock = p

\* Steps that leave the lock alone and bring nobody inside.
LEMMA QuietLock ==
    ASSUME HolderOwnsLock, Holding' \subseteq Holding, UNCHANGED <<lock, robbed>>
    PROVE  HolderOwnsLock'
BY DEF HolderOwnsLock

LEMMA PublishLock ==
    ASSUME TypeOK, HolderOwnsLock, NEW p \in Processes, Publish(p)
    PROVE  HolderOwnsLock'
<1> USE DEF Holding, Step, TypeOK, StoreTypeOK
<1>1. CASE Open(p)
  <2>1. robbed \/ Holding = {}
    BY <1>1 DEF Open, HolderOwnsLock
  <2> QED BY <1>1, <2>1 DEF Open, HolderOwnsLock
<1>2. CASE FindStale(p) \/ TimeOut(p)
  BY <1>2 DEF FindStale, TimeOut, HolderOwnsLock
<1>3. CASE Unlink(p) \/ FailSave(p) \/ Drop(p)
  <2>1. RemoveLock(p) /\ Holding' \subseteq Holding
    BY <1>3 DEF Unlink, FailSave, Drop
  <2>2. p \notin Holding'
    BY <1>3 DEF Unlink, FailSave, Drop
  <2>3. ASSUME ~robbed', NEW q \in Holding'
        PROVE  FALSE
    <3>1. q \in Holding /\ q # p /\ lock = q
      BY <2>1, <2>2, <2>3 DEF RemoveLock, HolderOwnsLock
    <3> QED BY <2>1, <2>3, <3>1 DEF RemoveLock
  <2> QED BY <2>3 DEF HolderOwnsLock
<1>4. CASE Reload(p, Event(p)) \/ Save(p)
  <2>1. Holding' = Holding /\ UNCHANGED <<lock, robbed>>
    BY <1>4 DEF Reload, Save
  <2> QED BY <2>1, QuietLock
<1> QED BY <1>1, <1>2, <1>3, <1>4 DEF Publish, Transition

LEMMA StartLock ==
    ASSUME TypeOK, HolderOwnsLock, NEW p \in Processes, NEW l, Start(p, l)
    PROVE  HolderOwnsLock'
BY QuietLock DEF Start, Holding, TypeOK, StoreTypeOK

LEMMA SameLock ==
    ASSUME HolderOwnsLock, UNCHANGED <<lock, tx, robbed>>
    PROVE  HolderOwnsLock'
BY QuietLock DEF Holding

LEMMA DieLock ==
    ASSUME TypeOK, HolderOwnsLock, NEW p \in Processes, Die(p)
    PROVE  HolderOwnsLock'
BY QuietLock DEF Die, Holding, TypeOK, StoreTypeOK

LEMMA SignalLock ==
    ASSUME TypeOK, HolderOwnsLock, NEW p \in Processes, NEW moved, Signal(p, moved)
    PROVE  HolderOwnsLock'
BY SameLock, DieLock DEF Signal, storeVars

LEMMA NextLock ==
    ASSUME TypeOK, HolderOwnsLock, [Next]_vars
    PROVE  HolderOwnsLock'
<1>1. CASE UNCHANGED vars
  BY <1>1, SameLock DEF vars, storeVars
<1>2. CASE ClientNext
  BY <1>2, SameLock, StartLock
     DEF ClientNext, ClientSave, Spawn, PatchPid, ClientExit, storeVars
<1>3. CASE DriverRuns
  <2>1. CASE TransitionFailed
    BY <2>1, QuietLock DEF TransitionFailed, Holding, TypeOK, StoreTypeOK
  <2>2. CASE Iterate \/ Dispatched \/ WaitInterrupted
    BY <2>2, SameLock, StartLock
       DEF Iterate, Dispatched, WaitInterrupted, Outcome, Fail, storeVars
  <2>3. CASE Boot \/ NextMilestone \/ Prompt \/ AggregateOutcome \/ End \/ Flush
    BY <2>3, SameLock, StartLock
       DEF Boot, NextMilestone, Prompt, AggregateOutcome, End, Flush, storeVars
  <2> QED BY <1>3, <2>1, <2>2, <2>3 DEF DriverRuns
<1>4. CASE Refuse \/ Reached \/ Hang
  BY <1>4, SameLock, StartLock DEF Refuse, Reached, Hang, Fail, storeVars
<1>5. ASSUME NEW s \in Stoppers, StopperNext(s)
      PROVE  HolderOwnsLock'
  <2>1. CASE SignalRecorded(s)
    <3>1. CASE Alive(file.pid) /\ Signal(file.pid, [at EXCEPT ![s] = "awaiting"])
      <4>1. file.pid \in Processes
        BY <3>1 DEF Alive
      <4> QED BY <3>1, <4>1, SignalLock
    <3>2. CASE UNCHANGED storeVars
      BY <3>2, SameLock DEF storeVars
    <3> QED BY <2>1, <3>1, <3>2 DEF SignalRecorded
  <2>2. CASE AwaitExit(s) \/ GiveUp(s) \/ Stopped(s)
    BY <2>2, SameLock, StartLock DEF AwaitExit, GiveUp, Stopped, storeVars
  <2> QED BY <1>5, <2>1, <2>2 DEF StopperNext
<1>6. ASSUME NEW p \in Processes, Publish(p)
      PROVE  HolderOwnsLock'
  BY <1>6, PublishLock
<1>7. ASSUME NEW p \in Processes, Interrupt(p) \/ Kill(p)
      PROVE  HolderOwnsLock'
  BY <1>7, SignalLock, DieLock DEF Interrupt, Kill
<1> QED BY <1>1, <1>2, <1>3, <1>4, <1>5, <1>6, <1>7 DEF Next

LEMMA InitLock == Init => HolderOwnsLock
BY DEF Init, StoreInit, HolderOwnsLock, Holding

\* Whoever is inside transition() created the lock file that is there.
THEOREM LockOwned == Spec => []HolderOwnsLock
<1>1. TypeOK /\ HolderOwnsLock /\ [Next]_vars => HolderOwnsLock'
  BY NextLock
<1> QED BY <1>1, InitLock, TypeCorrect, PTL DEF Spec

\* Transitions are serial until a lock file is removed under a live holder, for
\* any number of processes, killed ones included.
THEOREM Serial == Spec => []SerialUnlessRobbed
<1>1. HolderOwnsLock => SerialUnlessRobbed
  BY DEF HolderOwnsLock, SerialUnlessRobbed
<1> QED BY <1>1, LockOwned, PTL

-----------------------------------------------------------------------------
\* The file is there and still an earlier run's.
Foreign == file # Absent /\ file.pid = Earlier

\* Before the client's first save nothing has happened yet.
UntouchedAtStart ==
    at[Client] = "start" =>
        /\ file = Absent \/ Foreign
        /\ at[Driver] = "unborn"
        /\ \A q \in Processes : tx[q] = "idle" /\ at[q] \in {"start", "exited", "unborn"}

LEMMA InitUntouched == Init => UntouchedAtStart
<1> SUFFICES ASSUME Init PROVE UntouchedAtStart
  OBVIOUS
<1>1. PICK detach \in BOOLEAN :
          at = [p \in Processes |->
                    CASE p = Client -> IF detach THEN "start" ELSE "exited"
                      [] p = Driver -> IF detach THEN "unborn" ELSE "boot"
                      [] OTHER      -> "start"]
  BY DEF Init
<1>2. \A q \in Processes : q \notin {Client, Driver} => at[q] = "start"
  BY <1>1
<1>3. at[Client] = "start" => at[Driver] = "unborn"
  BY <1>1
<1> QED BY <1>2, <1>3, EarlierAssumption, AbsentAssumption
        DEF Init, StoreInit, UntouchedAtStart, Foreign

LEMMA NextUntouched ==
    ASSUME TypeOK, UntouchedAtStart, [Next]_vars
    PROVE  UntouchedAtStart'
<1> SUFFICES ASSUME at'[Client] = "start"
             PROVE  /\ file' = Absent \/ Foreign'
                    /\ at'[Driver] = "unborn"
                    /\ \A q \in Processes :
                           tx'[q] = "idle" /\ at'[q] \in {"start", "exited", "unborn"}
  BY DEF UntouchedAtStart
<1> USE DEF TypeOK, StoreTypeOK
<1>1. CASE at[Client] # "start"
  <2>1. CASE ClientNext \/ DriverRuns \/ Refuse \/ Reached \/ Hang
    BY <1>1, <2>1
       DEF ClientNext, ClientSave, Spawn, PatchPid, ClientExit, DriverRuns, Boot,
           NextMilestone, Iterate, Outcome, Fail, Prompt, Dispatched, WaitInterrupted,
           AggregateOutcome, TransitionFailed, End, Flush, Refuse, Reached, Hang, Start, Go
  <2>2. ASSUME NEW s \in Stoppers, StopperNext(s)
        PROVE  FALSE
    BY <1>1, <2>2
       DEF StopperNext, SignalRecorded, AwaitExit, GiveUp, Stopped, Signal, Start, Go
  <2>3. ASSUME NEW p \in Processes, Publish(p) \/ Interrupt(p) \/ Kill(p)
        PROVE  FALSE
    BY <1>1, <2>3 DEF Publish, Interrupt, Kill, Signal, Go, runVars
  <2>4. CASE UNCHANGED vars
    BY <1>1, <2>4 DEF vars, runVars
  <2> QED BY <2>1, <2>2, <2>3, <2>4 DEF Next
<1>2. CASE at[Client] = "start"
  <2>1. /\ file = Absent \/ Foreign
        /\ at[Driver] = "unborn"
        /\ \A q \in Processes : tx[q] = "idle" /\ at[q] \in {"start", "exited", "unborn"}
    BY <1>2 DEF UntouchedAtStart
  <2>2. CASE ClientNext
    BY <2>1, <2>2 DEF ClientNext, ClientSave, Spawn, PatchPid, ClientExit, Ready, Start, Go
  <2>3. ~DriverRuns /\ ~Refuse /\ ~Reached /\ ~Hang
    BY <2>1
       DEF DriverRuns, Boot, NextMilestone, Iterate, Prompt, Dispatched, WaitInterrupted,
           AggregateOutcome, TransitionFailed, End, Flush, Refuse, Reached, Hang, Ready
  <2>4. ASSUME NEW s \in Stoppers, StopperNext(s)
        PROVE  Go(s, "exited") /\ UNCHANGED storeVars
    <3>1. file = Absent \/ ~Alive(file.pid)
      BY <2>1, EarlierAssumption DEF Foreign, Alive
    <3> QED BY <2>1, <2>4, <3>1
            DEF StopperNext, SignalRecorded, AwaitExit, GiveUp, Stopped, Ready
  <2>5. ASSUME NEW p \in Processes, Publish(p)
        PROVE  FALSE
    BY <2>1, <2>5
       DEF Publish, Transition, Open, FindStale, Unlink, TimeOut, Reload, Save,
           FailSave, Drop, Step
  <2>6. ASSUME NEW p \in {Client, Driver}, Interrupt(p) \/ Kill(p)
        PROVE  FALSE
    BY <1>2, <2>1, <2>6 DEF Interrupt, Kill, Alive, Signal, Go
  <2>7. CASE \E s \in Stoppers : StopperNext(s)
    BY <2>1, <2>4, <2>7 DEF Go, storeVars, Foreign
  <2>8. CASE UNCHANGED vars
    BY <2>1, <2>8 DEF vars, storeVars, runVars, Foreign
  <2> QED BY <2>2, <2>3, <2>5, <2>6, <2>7, <2>8 DEF Next
<1> QED BY <1>1, <1>2

LEMMA Untouched == Spec => []UntouchedAtStart
<1>1. TypeOK /\ UntouchedAtStart /\ [Next]_vars => UntouchedAtStart'
  BY NextUntouched
<1> QED BY <1>1, InitUntouched, TypeCorrect, PTL DEF Spec

\* While the file is an earlier run's, the driver is alone with it: the client of a
\* detached run has saved before it spawns a driver, and a stop command finds
\* nobody to signal.  A snapshot about to be saved is the earlier run's only while
\* the file is.
EarlierAlone ==
    /\ Foreign => \A p \in Processes \ {Driver} :
                      tx[p] = "idle" /\ at[p] \in {"start", "exited"}
    /\ \A p \in Processes : tx[p] = "saving" => (next[p].pid = Earlier <=> Foreign)
    /\ at[Driver] # "patching"

LEMMA CurrentPid ==
    ASSUME NEW p \in Processes
    PROVE  Current(p).pid = Earlier <=> Foreign
BY EarlierAssumption DEF Current, Loaded, Fresh, Foreign

\* Nobody patches the pid of an earlier run's snapshot, so an event leaves it.
LEMMA ReloadPid ==
    ASSUME TypeOK, EarlierAlone, NEW p \in Processes, tx[p] = "loading",
           Current(p) \in Snapshots
    PROVE  Apply(Event(p), Current(p)).pid = Earlier <=> Current(p).pid = Earlier
<1> DEFINE s == Current(p)
<1>1. s \in Snapshots
  OBVIOUS
<1>2. at[p] = "patching" => s.pid # Earlier
  BY CurrentPid DEF EarlierAlone
<1> HIDE DEF s
<1>3. CASE at[p] = "patching"
  <2>1. Event(p) = [kind |-> "pid", pid |-> Driver]
    BY <1>3 DEF Event
  <2>2. Apply(Event(p), s) = [s EXCEPT !.pid = Driver]
    BY <2>1 DEF Apply
  <2> QED BY <1>1, <1>2, <1>3, <2>2, EarlierAssumption DEF s, Snapshots
<1>4. CASE at[p] # "patching"
  <2>1. Event(p).kind \in {"active", "stage", "observed", "milestone", "run"}
    BY <1>4 DEF Event
  <2>2. CASE Event(p).kind = "run"
    <3>1. Apply(Event(p), s) =
              [s EXCEPT !.outcome = Event(p).outcome, !.active = 0, !.staged = FALSE]
      BY <2>2 DEF Apply
    <3> QED BY <1>1, <3>1 DEF s, Snapshots
  <2>3. CASE Event(p).kind # "run"
    BY <1>1, <2>1, <2>3 DEF Apply, s, Snapshots
  <2> QED BY <2>2, <2>3
<1> QED BY <1>3, <1>4

\* A transition publishes a snapshot of the run whose snapshot the file is.
LEMMA PublishForeign ==
    ASSUME TypeOK, EarlierAlone, NEW p \in Processes, Publish(p)
    PROVE  Foreign' = Foreign
<1>1. file' = file \/ (tx[p] = "saving" /\ file' = next[p])
  BY DEF Publish, Transition, Open, FindStale, Unlink, TimeOut, Reload, Save, FailSave, Drop,
         Step
<1>2. next[p] # Absent
  BY AbsentAssumption DEF TypeOK, StoreTypeOK
<1> QED BY <1>1, <1>2 DEF EarlierAlone, Foreign

LEMMA PublishAlone ==
    ASSUME TypeOK, EarlierAlone, NEW p \in Processes, Publish(p)
    PROVE  EarlierAlone'
<1> USE DEF Step, TypeOK, StoreTypeOK
<1>1. /\ UNCHANGED at /\ tx[p] # "idle"
      /\ \A q \in Processes : q # p => next'[q] = next[q] /\ tx'[q] = tx[q]
  BY DEF Publish, runVars, Transition, Open, FindStale, Unlink, TimeOut, Reload, Save,
         FailSave, Drop
<1>2. Foreign => p = Driver
  BY <1>1 DEF EarlierAlone
<1>3. Foreign' = Foreign
  BY PublishForeign
<1>4. tx'[p] = "saving" => (next'[p].pid = Earlier <=> Foreign)
  <2>1. ASSUME tx'[p] = "saving"
        PROVE  tx[p] = "loading" /\ next'[p] = Apply(Event(p), Current(p))
    BY <1>1, <2>1 DEF Publish, Transition, Open, FindStale, Unlink, TimeOut, Reload, Save,
                      FailSave, Drop
  <2>2. Current(p) \in Snapshots
    BY CurrentType
  <2> QED BY <2>1, <2>2, ReloadPid, CurrentPid
<1> QED BY <1>1, <1>2, <1>3, <1>4 DEF EarlierAlone

LEMMA SignalAlone ==
    ASSUME TypeOK, EarlierAlone, NEW p \in Processes, NEW moved \in [Processes -> Locations],
           Signal(p, moved),
           moved[Driver] = at[Driver],
           Foreign => \A q \in Processes : moved[q] = at[q]
    PROVE  EarlierAlone'
<1>1. CASE at' = moved /\ UNCHANGED storeVars
  BY <1>1 DEF storeVars, EarlierAlone, Foreign
<1>2. CASE Die(p) /\ at' = [moved EXCEPT ![p] = "exited"]
  BY <1>2 DEF Die, EarlierAlone, Foreign, TypeOK, StoreTypeOK
<1> QED BY <1>1, <1>2 DEF Signal

\* A process other than the driver moves; under an earlier run's file it exits.
LEMMA OtherAlone ==
    ASSUME TypeOK, EarlierAlone, NEW p \in Processes \ {Driver}, NEW l \in Locations,
           \/ ~Foreign /\ Start(p, l)
           \/ Go(p, l) /\ UNCHANGED storeVars /\ (Foreign => l = "exited")
    PROVE  EarlierAlone'
<1>1. UNCHANGED <<file, next>> /\ at' = [at EXCEPT ![p] = l]
  BY DEF Start, Go, storeVars
<1>2. CASE UNCHANGED tx
  BY <1>1, <1>2 DEF Foreign, EarlierAlone, TypeOK, Start, storeVars
<1>3. CASE ~Foreign /\ tx' = [tx EXCEPT ![p] = "opening"]
  BY <1>1, <1>3 DEF Foreign, EarlierAlone, TypeOK, StoreTypeOK
<1> QED BY <1>2, <1>3 DEF Start, storeVars

\* The driver moves, and at most writes a snapshot of its own while nobody else
\* is about to save under an earlier run's file.
LEMMA DriverAlone ==
    ASSUME TypeOK, EarlierAlone, DriverRuns \/ Refuse \/ Reached \/ Hang
    PROVE  EarlierAlone'
<1> USE DEF Locations
<1>1. ASSUME NEW l \in Locations \ {"patching"},
             \/ Start(Driver, l)
             \/ Go(Driver, l) /\ UNCHANGED <<file, next>>
                /\ (UNCHANGED tx \/ tx' = [tx EXCEPT ![Driver] = "idle"])
      PROVE  EarlierAlone'
  <2>1. UNCHANGED <<file, next>> /\ at' = [at EXCEPT ![Driver] = l]
    BY <1>1 DEF Start, Go
  <2>2. \A q \in Processes \ {Driver} : tx'[q] = tx[q]
    BY <1>1 DEF Start, TypeOK, StoreTypeOK
  <2>3. tx'[Driver] = "saving" => tx[Driver] = "saving"
    BY <1>1 DEF Start, TypeOK, StoreTypeOK
  <2> QED BY <2>1, <2>2, <2>3 DEF Foreign, EarlierAlone, TypeOK
<1>2. CASE Boot \/ Flush
  <2>1. /\ tx[Driver] = "idle" /\ UNCHANGED <<tx, next>>
        /\ \E l \in {"booted", "stopped"} : at' = [at EXCEPT ![Driver] = l]
        /\ file' = file \/ file' = Fresh(Driver) \/ file' = FreshV1(Driver)
    BY <1>2 DEF Boot, Flush, Ready, Go, SaveUnlocked
  <2>2. file' = file \/ ~Foreign'
    BY <2>1, EarlierAssumption DEF Foreign, Fresh, FreshV1
  <2> QED BY <2>1, <2>2 DEF Foreign, EarlierAlone, TypeOK
<1>3. CASE NextMilestone \/ Prompt \/ AggregateOutcome
  BY <1>1, <1>3 DEF NextMilestone, Prompt, AggregateOutcome
<1>4. CASE Iterate \/ Dispatched \/ WaitInterrupted \/ Reached
  BY <1>1, <1>4 DEF Iterate, Dispatched, WaitInterrupted, Reached, Outcome, Fail, storeVars
<1>5. CASE TransitionFailed
  BY <1>1, <1>5 DEF TransitionFailed
<1>6. CASE End \/ Refuse \/ Hang
  BY <1>1, <1>6 DEF End, Refuse, Hang, storeVars
<1> QED BY <1>2, <1>3, <1>4, <1>5, <1>6 DEF DriverRuns

LEMMA NextAlone ==
    ASSUME TypeOK, UntouchedAtStart, EarlierAlone, [Next]_vars
    PROVE  EarlierAlone'
<1> USE DEF Locations
<1>1. CASE UNCHANGED vars
  BY <1>1 DEF vars, storeVars, runVars, EarlierAlone, Foreign
<1>2. CASE ClientSave
  <2>1. /\ at[Client] = "start" /\ UNCHANGED <<tx, next>>
        /\ \A q \in Processes : tx[q] = "idle"
        /\ \/ file' = Fresh(Client)
           \/ file' = file /\ at' = [at EXCEPT ![Client] = "exited"]
        /\ \E l \in {"saved", "exited"} : at' = [at EXCEPT ![Client] = l]
    BY <1>2 DEF ClientSave, SaveUnlocked, Ready, Go, UntouchedAtStart
  <2>2. file' = Fresh(Client) => ~Foreign'
    BY EarlierAssumption DEF Foreign, Fresh
  <2>3. at'[Driver] # "patching" /\ \A p \in Processes : tx'[p] # "saving"
    BY <2>1 DEF EarlierAlone, TypeOK
  <2>4. ASSUME Foreign', NEW p \in Processes \ {Driver}
        PROVE  tx'[p] = "idle" /\ at'[p] \in {"start", "exited"}
    <3>1. file' = file /\ at' = [at EXCEPT ![Client] = "exited"] /\ Foreign
      BY <2>1, <2>2, <2>4 DEF Foreign
    <3> QED BY <2>1, <3>1 DEF EarlierAlone, TypeOK
  <2> QED BY <2>3, <2>4 DEF EarlierAlone
<1>3. CASE Spawn \/ PatchPid \/ ClientExit
  <2>1. ~Foreign
    BY <1>3 DEF Spawn, PatchPid, ClientExit, Ready, EarlierAlone
  <2>2. CASE Spawn /\ at' = [at EXCEPT ![Client] = "spawned", ![Driver] = "boot"]
    <3>1. UNCHANGED <<file, tx, next>>
      BY <2>2 DEF Spawn, storeVars
    <3>2. at'[Driver] = "boot" /\ ~Foreign'
      BY <2>1, <2>2, <3>1 DEF Foreign, TypeOK
    <3> QED BY <3>1, <3>2, <2>1 DEF EarlierAlone
  <2>3. CASE Go(Client, "exited") \/ Start(Client, "patching")
    BY <1>3, <2>1, <2>3, OtherAlone DEF Spawn, PatchPid, ClientExit
  <2> QED BY <1>3, <2>2, <2>3 DEF Spawn, PatchPid, ClientExit
<1>4. ASSUME NEW s \in Stoppers, StopperNext(s)
      PROVE  EarlierAlone'
  <2>1. s \in Processes \ {Driver}
    OBVIOUS
  <2>2. CASE SignalRecorded(s)
    <3>1. CASE Alive(file.pid) /\ Signal(file.pid, [at EXCEPT ![s] = "awaiting"]) /\ file # Absent
      <4>1. file.pid \in Processes /\ ~Foreign
        BY <3>1, EarlierAssumption DEF Alive, Foreign
      <4> DEFINE moved == [at EXCEPT ![s] = "awaiting"]
      <4>2. moved \in [Processes -> Locations] /\ moved[Driver] = at[Driver]
        BY <2>1 DEF TypeOK
      <4>3. Signal(file.pid, moved)
        BY <3>1
      <4> HIDE DEF moved
      <4> QED BY <4>1, <4>2, <4>3, SignalAlone
    <3>2. CASE Go(s, "exited") /\ UNCHANGED storeVars
      BY <2>1, <3>2, OtherAlone
    <3> QED BY <2>2, <3>1, <3>2 DEF SignalRecorded
  <2>3. CASE AwaitExit(s) \/ GiveUp(s) \/ Stopped(s)
    <3>1. ~Foreign
      BY <2>1, <2>3 DEF AwaitExit, GiveUp, Stopped, Ready, EarlierAlone
    <3> QED BY <2>1, <2>3, <3>1, OtherAlone DEF AwaitExit, GiveUp, Stopped
  <2> QED BY <1>4, <2>2, <2>3 DEF StopperNext
<1>5. ASSUME NEW p \in Processes, Publish(p)
      PROVE  EarlierAlone'
  BY <1>5, PublishAlone
<1>6. ASSUME NEW p \in Processes, Interrupt(p)
      PROVE  EarlierAlone'
  BY <1>6, SignalAlone DEF Interrupt, TypeOK
<1>7. ASSUME NEW p \in Processes, Kill(p)
      PROVE  EarlierAlone'
  BY <1>7 DEF Kill, Die, Go, EarlierAlone, Foreign, TypeOK, StoreTypeOK
<1> QED BY <1>1, <1>2, <1>3, <1>4, <1>5, <1>6, <1>7, DriverAlone DEF Next, ClientNext

LEMMA InitAlone == Init => EarlierAlone
<1> SUFFICES ASSUME Init PROVE EarlierAlone
  OBVIOUS
<1>1. PICK detach \in BOOLEAN :
          at = [p \in Processes |->
                    CASE p = Client -> IF detach THEN "start" ELSE "exited"
                      [] p = Driver -> IF detach THEN "unborn" ELSE "boot"
                      [] OTHER      -> "start"]
  BY DEF Init
<1>2. /\ \A p \in Processes \ {Driver} : at[p] \in {"start", "exited"}
      /\ at[Driver] \in {"unborn", "boot"}
  BY <1>1
<1> QED BY <1>2 DEF Init, StoreInit, EarlierAlone

LEMMA Alone == Spec => []EarlierAlone
<1>1. TypeOK /\ UntouchedAtStart /\ EarlierAlone /\ [Next]_vars => EarlierAlone'
  BY NextAlone
<1> QED BY <1>1, InitAlone, Untouched, TypeCorrect, PTL DEF Spec

-----------------------------------------------------------------------------
\* The strengthening of CompletedIsEarned: neither the file nor a snapshot that is
\* about to be published says completed before the queue was driven to its end,
\* except in the name of an earlier run.
NothingUnearned ==
    /\ (Ours /\ file.outcome = "completed") => Earned
    /\ \A p \in Processes :
           (next[p].pid # Earlier /\ next[p].outcome = "completed") => Earned

\* What the aggregate calls completed is a queue driven to its end.
LEMMA AggregateEarned ==
    ASSUME TypeOK, Located, at[Driver] = "aggregating", Aggregate = "completed"
    PROVE  Earned
<1>1. \A i \in DOMAIN results : results[i] = "completed"
  BY AggregateType DEF TypeOK
<1>2. ~Halted
  BY <1>1 DEF Halted, Ended
<1> QED BY <1>1, <1>2 DEF Located, Earned

LEMMA SameEarned ==
    ASSUME NothingUnearned, UNCHANGED <<file, next, results>>
    PROVE  NothingUnearned'
BY DEF NothingUnearned, Earned, Ours

LEMMA StartEarned ==
    ASSUME NothingUnearned, NEW p, NEW l, Start(p, l), UNCHANGED results
    PROVE  NothingUnearned'
BY SameEarned DEF Start

LEMMA SaveEarned ==
    ASSUME NothingUnearned, NEW p \in Processes,
           SaveUnlocked(Fresh(p)) \/ SaveUnlocked(FreshV1(p)),
           UNCHANGED <<next, results>>
    PROVE  NothingUnearned'
<1>1. file' = file \/ file'.outcome = Absent
  BY FreshType DEF SaveUnlocked
<1> QED BY <1>1 DEF NothingUnearned, Earned, Ours, Outcomes

LEMMA DieEarned ==
    ASSUME TypeOK, NothingUnearned, NEW p \in Processes, Die(p), UNCHANGED results
    PROVE  NothingUnearned'
<1>1. \A q \in Processes : next'[q] = next[q] \/ next'[q].outcome = Absent
  BY FreshType DEF Die, TypeOK, StoreTypeOK
<1> QED BY <1>1 DEF Die, NothingUnearned, Earned, Ours, Outcomes

LEMMA SignalEarned ==
    ASSUME TypeOK, NothingUnearned, NEW p \in Processes, NEW moved, Signal(p, moved),
           UNCHANGED results
    PROVE  NothingUnearned'
BY SameEarned, DieEarned DEF Signal, storeVars

\* While milestones are driven nothing is completed, so a result may be added.
LEMMA OutcomeEarned ==
    ASSUME TypeOK, Located, NothingUnearned, NEW o, Outcome(o), at[Driver] \in Driving
    PROVE  NothingUnearned'
<1>1. ~Earned
  BY DEF Located, Earned, TypeOK
<1>2. UNCHANGED <<file, next>>
  BY DEF Outcome, Start
<1> QED BY <1>1, <1>2 DEF NothingUnearned, Ours

LEMMA PublishEarned ==
    ASSUME TypeOK, Located, EarlierAlone, NothingUnearned, NEW p \in Processes, Publish(p)
    PROVE  NothingUnearned'
<1>1. UNCHANGED results
  BY DEF Publish, runVars
<1>2. CASE Open(p) \/ FindStale(p) \/ Unlink(p) \/ TimeOut(p)
  BY <1>1, <1>2, SameEarned DEF Open, FindStale, Unlink, TimeOut
<1>3. CASE Reload(p, Event(p))
  <2>1. /\ Current(p) \in Snapshots
        /\ (Current(p).pid # Earlier /\ Current(p).outcome = "completed") => Earned
    BY CurrentType, CurrentPid DEF TypeOK, NothingUnearned, Ours, Foreign, Outcomes
  <2>2. (next'[p].pid # Earlier /\ next'[p].outcome = "completed") => Earned
    <3>1. CASE Refuses(Event(p), Current(p))
      BY <1>3, <2>1, <3>1 DEF Reload, TypeOK, StoreTypeOK
    <3>2. CASE ~Refuses(Event(p), Current(p))
      <4>1. Apply(Event(p), Current(p)).pid # Earlier => Current(p).pid # Earlier
        BY <1>3, <2>1, ReloadPid DEF Reload, Step
      <4>2. (/\ Current(p).pid # Earlier
             /\ Apply(Event(p), Current(p)).outcome = "completed") => Earned
        BY <2>1, <3>2, ApplyType, AggregateEarned
      <4> QED BY <1>3, <3>2, <4>1, <4>2 DEF Reload, TypeOK, StoreTypeOK
    <3> QED BY <3>1, <3>2
  <2>3. \A q \in Processes : q # p => next'[q] = next[q]
    BY <1>3 DEF Reload, TypeOK, StoreTypeOK
  <2> QED BY <1>1, <1>3, <2>2, <2>3 DEF Reload, NothingUnearned, Earned, Ours
<1>4. CASE Save(p)
  BY <1>1, <1>4 DEF Save, NothingUnearned, Earned, Ours
<1>5. CASE FailSave(p) \/ Drop(p)
  <2>1. \A q \in Processes : next'[q] = next[q] \/ next'[q].outcome = Absent
    BY <1>5, FreshType DEF FailSave, Drop, TypeOK, StoreTypeOK
  <2>2. file' = file \/ file' = next[p]
    BY <1>5 DEF FailSave, Drop
  <2> QED BY <1>1, <2>1, <2>2 DEF NothingUnearned, Earned, Ours, Outcomes
<1> QED BY <1>2, <1>3, <1>4, <1>5 DEF Publish, Transition

LEMMA NextEarned ==
    ASSUME TypeOK, Located, EarlierAlone, NothingUnearned, [Next]_vars
    PROVE  NothingUnearned'
<1>1. CASE UNCHANGED vars
  BY <1>1, SameEarned DEF vars, storeVars, runVars
<1>2. CASE ClientNext
  <2>1. CASE ClientSave
    <3>1. SaveUnlocked(Fresh(Client))
      BY <2>1 DEF ClientSave, SaveUnlocked
    <3> QED BY <2>1, <3>1, SaveEarned DEF ClientSave
  <2>2. CASE Spawn \/ PatchPid \/ ClientExit
    BY <2>2, SameEarned, StartEarned DEF Spawn, PatchPid, ClientExit, storeVars
  <2> QED BY <1>2, <2>1, <2>2 DEF ClientNext
<1>3. CASE DriverRuns
  <2>1. CASE Iterate
    BY <2>1, SameEarned, StartEarned, OutcomeEarned
       DEF Iterate, Ready, Driving, Fail, storeVars
  <2>2. CASE Dispatched \/ WaitInterrupted \/ TransitionFailed
    BY <2>2, SameEarned
       DEF Dispatched, WaitInterrupted, TransitionFailed, Fail, storeVars
  <2>3. CASE Boot \/ Flush
    BY <2>3, SaveEarned DEF Boot, Flush
  <2>4. CASE NextMilestone \/ Prompt \/ AggregateOutcome \/ End
    BY <2>4, SameEarned, StartEarned
       DEF NextMilestone, Prompt, AggregateOutcome, End, storeVars
  <2> QED BY <1>3, <2>1, <2>2, <2>3, <2>4 DEF DriverRuns
<1>4. CASE Refuse \/ Reached \/ Hang
  BY <1>4, SameEarned, StartEarned DEF Refuse, Reached, Hang, Fail, storeVars
<1>5. ASSUME NEW s \in Stoppers, StopperNext(s)
      PROVE  NothingUnearned'
  <2>1. CASE SignalRecorded(s)
    <3>1. CASE Alive(file.pid) /\ Signal(file.pid, [at EXCEPT ![s] = "awaiting"])
      <4>1. file.pid \in Processes
        BY <3>1 DEF Alive
      <4> QED BY <2>1, <3>1, <4>1, SignalEarned DEF SignalRecorded
    <3>2. CASE UNCHANGED storeVars
      BY <2>1, <3>2, SameEarned DEF SignalRecorded, storeVars
    <3> QED BY <2>1, <3>1, <3>2 DEF SignalRecorded
  <2>2. CASE AwaitExit(s) \/ GiveUp(s) \/ Stopped(s)
    BY <2>2, SameEarned, StartEarned DEF AwaitExit, GiveUp, Stopped, storeVars
  <2> QED BY <1>5, <2>1, <2>2 DEF StopperNext
<1>6. ASSUME NEW p \in Processes, Publish(p)
      PROVE  NothingUnearned'
  BY <1>6, PublishEarned
<1>7. ASSUME NEW p \in Processes, Interrupt(p) \/ Kill(p)
      PROVE  NothingUnearned'
  BY <1>7, SignalEarned, DieEarned DEF Interrupt, Kill
<1> QED BY <1>1, <1>2, <1>3, <1>4, <1>5, <1>6, <1>7 DEF Next

LEMMA InitEarned == Init => NothingUnearned
BY FreshType, EarlierAssumption DEF Init, StoreInit, NothingUnearned, Ours, Outcomes

\* A snapshot of this run says completed only when its queue was driven to the end,
\* stolen locks, failing writes, killed processes and whatever an earlier run left
\* included.
THEOREM CompletedEarned == Spec => []CompletedIsEarned
<1>1. TypeOK /\ Located /\ EarlierAlone /\ NothingUnearned /\ [Next]_vars => NothingUnearned'
  BY NextEarned
<1>2. NothingUnearned => CompletedIsEarned
  BY DEF NothingUnearned, CompletedIsEarned
<1> QED BY <1>1, <1>2, InitEarned, Types, Alone, PTL DEF Spec

-----------------------------------------------------------------------------
\* The strengthening of OutcomeIsWriteOnce: a snapshot that is about to be
\* published repeats the outcome of the file, if the file has one.  A file of the
\* first version never has, so loading it loses none.
OutcomeKept ==
    /\ (file # Absent /\ file.version = 1) => file.outcome = Absent
    /\ \A p \in Processes : next[p].version = 2
    /\ (~robbed /\ file # Absent /\ file.outcome # Absent) =>
           \A p \in Processes : tx[p] = "saving" => next[p].outcome = file.outcome

\* Steps that write no outcome and bring nobody to the point of saving.
LEMMA QuietKept ==
    ASSUME TypeOK, OutcomeKept,
           \/ file' = file
           \/ \E p \in Processes : file' = Fresh(p) \/ file' = FreshV1(p),
           \A p \in Processes : next'[p] = next[p] \/ next'[p] = Fresh(p),
           \A p \in Processes : tx'[p] = "saving" =>
               tx[p] = "saving" /\ next'[p] = next[p],
           robbed => robbed'
    PROVE  OutcomeKept'
<1>1. \A p \in Processes : Fresh(p).version = 2
  BY DEF Fresh
<1>2. file' = file \/ file'.outcome = Absent
  BY FreshType
<1> QED BY <1>1, <1>2 DEF OutcomeKept

LEMMA SameKept ==
    ASSUME TypeOK, OutcomeKept, UNCHANGED storeVars
    PROVE  OutcomeKept'
BY QuietKept DEF storeVars

LEMMA StartKept ==
    ASSUME TypeOK, OutcomeKept, NEW p \in Processes, NEW l, Start(p, l)
    PROVE  OutcomeKept'
BY QuietKept DEF Start, TypeOK, StoreTypeOK

LEMMA SaveKept ==
    ASSUME TypeOK, OutcomeKept, NEW p \in Processes,
           SaveUnlocked(Fresh(p)) \/ SaveUnlocked(FreshV1(p)),
           UNCHANGED <<lock, tx, known, next, robbed>>
    PROVE  OutcomeKept'
BY QuietKept DEF SaveUnlocked

LEMMA DieKept ==
    ASSUME TypeOK, OutcomeKept, NEW p \in Processes, Die(p)
    PROVE  OutcomeKept'
BY QuietKept DEF Die, TypeOK, StoreTypeOK

LEMMA SignalKept ==
    ASSUME TypeOK, OutcomeKept, NEW p \in Processes, NEW moved, Signal(p, moved)
    PROVE  OutcomeKept'
BY SameKept, DieKept DEF Signal

\* Events leave a snapshot of the second version in the second version.
LEMMA ApplyVersion ==
    ASSUME NEW p \in Processes, NEW s \in Snapshots
    PROVE  Apply(Event(p), s).version = s.version
<1>1. Event(p).kind \in {"active", "stage", "observed", "milestone", "run", "pid"}
  BY DEF Event
<1>2. CASE Event(p).kind = "run"
  <2>1. Apply(Event(p), s) =
            [s EXCEPT !.outcome = Event(p).outcome, !.active = 0, !.staged = FALSE]
    BY <1>2 DEF Apply
  <2> QED BY <2>1 DEF Snapshots
<1>3. CASE Event(p).kind = "active"
  BY <1>3 DEF Apply, Snapshots
<1>4. CASE Event(p).kind = "milestone"
  BY <1>4 DEF Apply, Snapshots
<1>5. CASE Event(p).kind = "pid"
  BY <1>5 DEF Apply, Snapshots
<1>6. CASE Event(p).kind = "stage"
  BY <1>6 DEF Apply, Snapshots
<1>7. CASE Event(p).kind = "observed"
  BY <1>7 DEF Apply, Snapshots
<1> QED BY <1>1, <1>2, <1>3, <1>4, <1>5, <1>6, <1>7

LEMMA PublishKept ==
    ASSUME TypeOK, Located, HolderOwnsLock, OutcomeKept, NEW p \in Processes, Publish(p)
    PROVE  OutcomeKept'
<1> USE DEF Step, TypeOK, StoreTypeOK
<1>1. RemoveLock(p) => (robbed => robbed')
  BY DEF RemoveLock
<1>2. CASE Open(p) \/ FindStale(p) \/ Unlink(p) \/ TimeOut(p)
  BY <1>1, <1>2, QuietKept DEF Open, FindStale, Unlink, TimeOut
<1>3. CASE Reload(p, Event(p))
  <2>1. /\ Current(p) \in Snapshots
        /\ Current(p).version = 2
        /\ (file # Absent /\ file.outcome # Absent) => Current(p).outcome = file.outcome
    <3>1. Current(p) \in Snapshots
      BY CurrentType
    <3>2. Current(p).version = 2
      BY DEF Current, Loaded, Fresh, Snapshots
    <3>3. (file # Absent /\ file.outcome # Absent) => Current(p) = file
      BY DEF Current, Loaded, OutcomeKept
    <3> QED BY <3>1, <3>2, <3>3
  <2>2. /\ next'[p].version = 2
        /\ (tx'[p] = "saving" /\ file # Absent /\ file.outcome # Absent) =>
               next'[p].outcome = file.outcome
    <3>1. CASE Refuses(Event(p), Current(p))
      BY <1>3, <2>1, <3>1 DEF Reload
    <3>2. CASE ~Refuses(Event(p), Current(p))
      <4>1. /\ Apply(Event(p), Current(p)).version = 2
            /\ Current(p).outcome # Absent =>
                   Apply(Event(p), Current(p)).outcome = Current(p).outcome
        BY <2>1, <3>2, ApplyType, ApplyVersion
      <4>2. next'[p] = Apply(Event(p), Current(p))
        BY <1>3, <3>2 DEF Reload
      <4> QED BY <2>1, <4>1, <4>2
    <3> QED BY <3>1, <3>2
  <2>3. \A q \in Processes : q # p => next'[q] = next[q] /\ tx'[q] = tx[q]
    BY <1>3 DEF Reload
  <2> QED BY <1>3, <2>2, <2>3 DEF Reload, OutcomeKept
<1>4. CASE Save(p) \/ FailSave(p)
  <2>1. /\ tx[p] = "saving" /\ tx'[p] # "saving"
        /\ \A q \in Processes : q # p => next'[q] = next[q] /\ tx'[q] = tx[q]
        /\ next'[p] = next[p] \/ next'[p] = Fresh(p)
        /\ file' = file \/ file' = next[p]
        /\ robbed => robbed'
    BY <1>1, <1>4 DEF Save, FailSave
  <2>2. ASSUME ~robbed, NEW q \in Processes, tx[q] = "saving"
        PROVE  q = p
    BY <2>1, <2>2 DEF HolderOwnsLock, Holding
  <2>3. Fresh(p).version = 2
    BY DEF Fresh
  <2>4. next'[p].version = 2 /\ next[p].version = 2
    BY <2>1, <2>3 DEF OutcomeKept
  <2> QED BY <2>1, <2>2, <2>4 DEF OutcomeKept
<1>5. CASE Drop(p)
  BY <1>1, <1>5, QuietKept DEF Drop
<1> QED BY <1>2, <1>3, <1>4, <1>5 DEF Publish, Transition

LEMMA NextKept ==
    ASSUME TypeOK, Located, HolderOwnsLock, OutcomeKept, [Next]_vars
    PROVE  OutcomeKept'
<1>1. CASE UNCHANGED vars
  BY <1>1, SameKept DEF vars
<1>2. CASE ClientNext
  <2>1. CASE ClientSave
    <3>1. SaveUnlocked(Fresh(Client))
      BY <2>1 DEF ClientSave, SaveUnlocked
    <3> QED BY <2>1, <3>1, SaveKept DEF ClientSave
  <2>2. CASE Spawn \/ PatchPid \/ ClientExit
    BY <2>2, SameKept, StartKept DEF Spawn, PatchPid, ClientExit
  <2> QED BY <1>2, <2>1, <2>2 DEF ClientNext
<1>3. CASE DriverRuns
  <2>1. CASE TransitionFailed
    BY <2>1, QuietKept DEF TransitionFailed, TypeOK, StoreTypeOK
  <2>2. CASE Iterate \/ Dispatched \/ WaitInterrupted
    BY <2>2, SameKept, StartKept DEF Iterate, Dispatched, WaitInterrupted, Outcome, Fail
  <2>3. CASE Boot \/ Flush
    BY <2>3, SaveKept DEF Boot, Flush
  <2>4. CASE NextMilestone \/ Prompt \/ AggregateOutcome \/ End
    BY <2>4, SameKept, StartKept DEF NextMilestone, Prompt, AggregateOutcome, End
  <2> QED BY <1>3, <2>1, <2>2, <2>3, <2>4 DEF DriverRuns
<1>4. CASE Refuse \/ Reached \/ Hang
  BY <1>4, SameKept, StartKept DEF Refuse, Reached, Hang, Fail
<1>5. ASSUME NEW s \in Stoppers, StopperNext(s)
      PROVE  OutcomeKept'
  <2>1. CASE SignalRecorded(s)
    <3>1. CASE Alive(file.pid) /\ Signal(file.pid, [at EXCEPT ![s] = "awaiting"])
      <4>1. file.pid \in Processes
        BY <3>1 DEF Alive
      <4> QED BY <3>1, <4>1, SignalKept
    <3>2. CASE UNCHANGED storeVars
      BY <3>2, SameKept
    <3> QED BY <2>1, <3>1, <3>2 DEF SignalRecorded
  <2>2. CASE AwaitExit(s) \/ GiveUp(s) \/ Stopped(s)
    BY <2>2, SameKept, StartKept DEF AwaitExit, GiveUp, Stopped
  <2> QED BY <1>5, <2>1, <2>2 DEF StopperNext
<1>6. ASSUME NEW p \in Processes, Publish(p)
      PROVE  OutcomeKept'
  BY <1>6, PublishKept
<1>7. ASSUME NEW p \in Processes, Interrupt(p) \/ Kill(p)
      PROVE  OutcomeKept'
  BY <1>7, SignalKept, DieKept DEF Interrupt, Kill
<1> QED BY <1>1, <1>2, <1>3, <1>4, <1>5, <1>6, <1>7 DEF Next

LEMMA InitKept == Init => OutcomeKept
BY FreshType, EarlierAssumption DEF Init, StoreInit, OutcomeKept, Fresh

\* Only a save under the lock, or one without it that moves the client or the
\* driver, touches a file that has an outcome.
LEMMA StepWritesOnce ==
    ASSUME TypeOK, OutcomeKept, [Next]_vars,
           ~robbed, at'[Driver] = at[Driver], at'[Client] = at[Client],
           file # Absent, file.outcome # Absent
    PROVE  file' # Absent /\ file'.outcome = file.outcome
<1> SUFFICES ASSUME file' # file
             PROVE  file' # Absent /\ file'.outcome = file.outcome
  OBVIOUS
<1>1. ASSUME NEW p \in Processes, Publish(p)
      PROVE  file' # Absent /\ file'.outcome = file.outcome
  <2>1. tx[p] = "saving" /\ file' = next[p]
    BY <1>1
       DEF Publish, Transition, Open, FindStale, Unlink, TimeOut, Reload, Save,
           FailSave, Drop, Step
  <2>2. next[p] # Absent
    <3>1. next[p] \in Snapshots /\ next[p].outcome = file.outcome
      BY <2>1 DEF OutcomeKept, TypeOK, StoreTypeOK
    <3> QED BY <3>1, AbsentAssumption
  <2> QED BY <2>1, <2>2 DEF OutcomeKept
<1>2. ~ClientNext
  BY DEF ClientNext, ClientSave, Spawn, PatchPid, ClientExit, Ready, Start, Go, storeVars,
         TypeOK
<1>3. ~(DriverRuns \/ Refuse \/ Reached \/ Hang)
  BY DEF DriverRuns, Boot, NextMilestone, Iterate, Outcome, Fail, Prompt, Dispatched,
         WaitInterrupted, AggregateOutcome, TransitionFailed, End, Flush, Refuse,
         Reached, Hang, Ready, Start, Go, storeVars, TypeOK
<1>4. ASSUME NEW s \in Stoppers, StopperNext(s)
      PROVE  FALSE
  BY <1>4 DEF StopperNext, SignalRecorded, AwaitExit, GiveUp, Stopped, Signal, Die,
              Start, storeVars
<1>5. ASSUME NEW p \in Processes, Interrupt(p) \/ Kill(p)
      PROVE  FALSE
  BY <1>5 DEF Interrupt, Kill, Signal, Die, storeVars
<1>6. ~UNCHANGED vars
  BY DEF vars, storeVars
<1> QED BY <1>1, <1>2, <1>3, <1>4, <1>5, <1>6 DEF Next

\* Of a stop command and the end of the run, the first to publish an outcome stands,
\* for any number of stop commands, as long as no lock was stolen.
THEOREM WriteOnce == Spec => OutcomeIsWriteOnce
<1>1. TypeOK /\ Located /\ HolderOwnsLock /\ OutcomeKept /\ [Next]_vars => OutcomeKept'
  BY NextKept
<1>2. TypeOK /\ OutcomeKept /\ [Next]_vars =>
          [(/\ ~robbed /\ at'[Driver] = at[Driver] /\ at'[Client] = at[Client]
            /\ file # Absent /\ file.outcome # Absent)
           => (file' # Absent /\ file'.outcome = file.outcome)]_vars
  BY StepWritesOnce
<1> QED BY <1>1, <1>2, InitKept, Types, LockOwned, PTL DEF Spec, OutcomeIsWriteOnce

-----------------------------------------------------------------------------
\* The outcomes the file lists; a file that is not there lists none.
FileDone == IF file = Absent THEN <<>> ELSE file.done

\* Nothing has been driven before the driver has booted, and the client is past
\* its save by then.
NothingDriven ==
    /\ at[Client] \in {"start", "saved"} => at[Driver] = "unborn"
    /\ at[Driver] \in {"unborn", "boot", "booted"} => results = <<>>
    /\ at[Driver] \in {"unborn", "stopped"} => tx[Driver] = "idle"

\* A file of the first version lists nothing, so loading it loses nothing.
FirstVersionListsNothing ==
    (file # Absent /\ file.version = 1) => file.done = <<>>

\* How far the recording of the last outcome is: the file lacks exactly the last
\* outcome until the driver saves, and has all of them once it has saved.
RecordingInStep ==
    /\ tx[Driver] \in {"idle", "dropping"} => FileDone = results
    /\ tx[Driver] \in {"opening", "unlinking", "loading"} =>
           Append(FileDone, results[Len(results)]) = results
    /\ tx[Driver] = "saving" => next[Driver].done = results

\* The strengthening of RecordsEveryResult: what is about to be saved repeats the
\* list of the file, except that the driver adds the outcome it records.  (Flush
\* empties the list under the feet of a stop command that is about to save.)
InStep ==
    /\ IsInitialPart(FileDone, results)
    /\ \A p \in Processes : tx[p] = "saving" =>
           /\ IsInitialPart(next[p].done, results)
           /\ \/ at[Driver] = "stopped"
              \/ p = Driver /\ at[Driver] = "recording"
              \/ next[p].done = FileDone
    /\ at[Driver] \in Driving \cup {"aggregating"} => FileDone = results
    /\ at[Driver] = "recording" => RecordingInStep

Recorded ==
    /\ NothingDriven /\ FirstVersionListsNothing
    /\ (~robbed /\ ~Foreign) => InStep

LEMMA InitialPartFacts ==
    ASSUME NEW S, NEW s \in Seq(S), NEW t \in Seq(S)
    PROVE  /\ IsInitialPart(s, s)
           /\ IsInitialPart(<<>>, t)
           /\ IsInitialPart(s, <<>>) => s = <<>>
           /\ \A o \in S : IsInitialPart(s, t) => IsInitialPart(s, Append(t, o))
BY DEF IsInitialPart

LEMMA DoneType ==
    ASSUME StoreTypeOK
    PROVE  /\ FileDone \in Seq(Outcomes)
           /\ \A p \in Processes : next[p].done \in Seq(Outcomes)
           /\ \A p \in Processes : Fresh(p).done = <<>> /\ FreshV1(p).done = <<>>
<1>1. <<>> \in Seq(Outcomes)
  OBVIOUS
<1>2. \A p \in Processes : Fresh(p).done = <<>> /\ FreshV1(p).done = <<>>
  BY DEF Fresh, FreshV1
<1> QED BY <1>1, <1>2 DEF StoreTypeOK, FileDone, Snapshots

\* What a transition starts from lists what the file lists.
LEMMA CurrentDone ==
    ASSUME FirstVersionListsNothing, NEW p \in Processes
    PROVE  Current(p).done = FileDone
BY DEF Current, Loaded, Fresh, FileDone, FirstVersionListsNothing

\* Only the recording of an outcome adds to the list.
LEMMA ApplyDone ==
    ASSUME NEW p \in Processes, NEW s \in Snapshots
    PROVE  Apply(Event(p), s).done =
               IF at[p] = "recording" THEN Append(s.done, results[Len(results)]) ELSE s.done
<1>1. CASE at[p] = "recording"
  <2>1. Event(p) = [kind |-> "milestone", outcome |-> results[Len(results)]]
    BY <1>1 DEF Event
  <2>2. Apply(Event(p), s) = [s EXCEPT !.done = Append(@, results[Len(results)])]
    BY <2>1 DEF Apply
  <2> QED BY <1>1, <2>2 DEF Snapshots
<1>2. CASE at[p] # "recording"
  <2>1. Event(p).kind \in {"active", "stage", "observed", "run", "pid"}
    BY <1>2 DEF Event
  <2>2. CASE Event(p).kind = "run"
    <3>1. Apply(Event(p), s) =
              [s EXCEPT !.outcome = Event(p).outcome, !.active = 0, !.staged = FALSE]
      BY <2>2 DEF Apply
    <3> QED BY <1>2, <3>1 DEF Snapshots
  <2>3. CASE Event(p).kind = "active"
    BY <1>2, <2>3 DEF Apply, Snapshots
  <2>4. CASE Event(p).kind = "pid"
    BY <1>2, <2>4 DEF Apply, Snapshots
  <2>5. CASE Event(p).kind = "stage"
    BY <1>2, <2>5 DEF Apply, Snapshots
  <2>6. CASE Event(p).kind = "observed"
    BY <1>2, <2>6 DEF Apply, Snapshots
  <2> QED BY <2>1, <2>2, <2>3, <2>4, <2>5, <2>6
<1> QED BY <1>1, <1>2

\* Steps that neither write, nor record, nor bring anybody to the point of saving,
\* and leave the driver where it is or take it where less is asked.
LEMMA QuietRecorded ==
    ASSUME TypeOK, Recorded, UNCHANGED <<file, results>>,
           \A p \in Processes : tx'[p] = "saving" => tx[p] = "saving" /\ next'[p] = next[p],
           robbed => robbed',
           NothingDriven',
           \/ at'[Driver] = at[Driver]
           \/ /\ at[Driver] # "stopped"
              /\ tx'[Driver] # "saving"
              /\ at'[Driver] # "recording"
              /\ at'[Driver] \in Driving \cup {"aggregating"} =>
                     robbed \/ Foreign \/ FileDone = results,
           \/ tx'[Driver] = tx[Driver]
           \/ at'[Driver] # "recording"
    PROVE  Recorded'
<1>1. FirstVersionListsNothing'
  BY DEF Recorded, FirstVersionListsNothing
<1>2. ASSUME ~robbed', ~Foreign'
      PROVE  InStep'
  <2>1. FileDone' = FileDone /\ InStep /\ ~Foreign
    BY <1>2 DEF Recorded, FileDone, Foreign
  <2>2. RecordingInStep /\ at'[Driver] = at[Driver] /\ at'[Driver] = "recording" => RecordingInStep'
    BY <2>1 DEF RecordingInStep
  <2>3. \A p \in Processes : tx'[p] = "saving" =>
           /\ IsInitialPart(next'[p].done, results)
           /\ \/ at'[Driver] = "stopped"
              \/ p = Driver /\ at'[Driver] = "recording"
              \/ next'[p].done = FileDone
    BY <2>1 DEF InStep
  <2> QED BY <1>2, <2>1, <2>2, <2>3 DEF InStep
<1> QED BY <1>1, <1>2 DEF Recorded

\* Processes other than the driver start, move and die without touching the list.
LEMMA OthersQuiet ==
    ASSUME TypeOK, Recorded, NEW p \in Processes \ {Driver}, UNCHANGED results,
           UNCHANGED <<file, robbed>>,
           at'[Client] \in {"start", "saved"} => at[Client] \in {"start", "saved"},
           at'[Driver] = at[Driver],
           \/ UNCHANGED storeVars
           \/ Die(p)
           \/ Ready(p, Locations) /\ tx' = [tx EXCEPT ![p] = "opening"] /\ UNCHANGED next
    PROVE  Recorded'
<1>1. \A q \in Processes : tx'[q] = "saving" => tx[q] = "saving" /\ next'[q] = next[q]
  BY DEF Die, Ready, TypeOK, StoreTypeOK, storeVars
<1>2. tx'[Driver] = tx[Driver]
  BY DEF Die, Ready, TypeOK, StoreTypeOK, storeVars
<1>3. NothingDriven'
  BY <1>2 DEF Recorded, NothingDriven
<1> QED BY <1>1, <1>2, <1>3, QuietRecorded

\* The driver goes to a location that asks for no more than it has.
LEMMA DriverMoves ==
    ASSUME TypeOK, Recorded, NEW l \in Locations \ {"unborn", "start", "boot", "booted", "recording", "stopped"},
           \/ Start(Driver, l) /\ tx[Driver] = "idle"
           \/ Go(Driver, l) /\ UNCHANGED <<file, lock, known, next, robbed>> /\
                 tx' = [tx EXCEPT ![Driver] = "idle"],
           UNCHANGED results,
           at[Driver] \notin {"unborn", "stopped"},
           l \in Driving \cup {"aggregating"} => robbed \/ Foreign \/ FileDone = results
    PROVE  Recorded'
<1>1. \A q \in Processes : tx'[q] = "saving" => tx[q] = "saving" /\ next'[q] = next[q]
  BY DEF Start, Go, TypeOK, StoreTypeOK
<1>2. at'[Driver] = l /\ at'[Client] = at[Client] /\ tx'[Driver] # "saving"
  BY DEF Start, Go, TypeOK, StoreTypeOK
<1>3. NothingDriven'
  BY <1>2 DEF Recorded, NothingDriven
<1> QED BY <1>1, <1>2, <1>3, QuietRecorded DEF Start

LEMMA ClientRecorded ==
    ASSUME TypeOK, UntouchedAtStart, Recorded, ClientNext
    PROVE  Recorded'
<1>1. CASE ClientSave
  <2>1. /\ file = Absent \/ Foreign
        /\ at[Driver] = "unborn" /\ results = <<>>
        /\ \A q \in Processes : tx[q] = "idle"
    BY <1>1 DEF ClientSave, Ready, UntouchedAtStart, Recorded, NothingDriven
  <2>2. file' = Fresh(Client) \/ file' = file
    BY <1>1, <2>1 DEF ClientSave, SaveUnlocked
  <2>3. (~Foreign' => FileDone' = <<>>) /\ FirstVersionListsNothing'
    BY <2>1, <2>2 DEF FileDone, Foreign, Recorded, FirstVersionListsNothing, Fresh
  <2>4. at'[Driver] = "unborn" /\ UNCHANGED <<tx, next, results>>
    BY <1>1, <2>1 DEF ClientSave, Go, TypeOK
  <2>5. NothingDriven'
    BY <2>1, <2>4 DEF NothingDriven
  <2>6. ~Foreign' => InStep'
    BY <2>1, <2>3, <2>4 DEF InStep, IsInitialPart, Driving
  <2> QED BY <2>3, <2>5, <2>6 DEF Recorded
<1>2. CASE Spawn
  <2>1. CASE Go(Client, "exited")
    BY <1>2, <2>1, OthersQuiet DEF Spawn, Go, TypeOK, storeVars
  <2>2. CASE at' = [at EXCEPT ![Client] = "spawned", ![Driver] = "boot"]
    <3>1. at[Driver] = "unborn" /\ at'[Driver] = "boot" /\ at'[Client] = "spawned"
      BY <1>2, <2>2 DEF Spawn, Ready, Recorded, NothingDriven, TypeOK
    <3>2. UNCHANGED <<file, tx, next, robbed, results>>
      BY <1>2 DEF Spawn, storeVars
    <3>3. NothingDriven' /\ tx[Driver] = "idle"
      BY <3>1, <3>2 DEF Recorded, NothingDriven
    <3> QED BY <3>1, <3>2, <3>3, QuietRecorded DEF Driving
  <2> QED BY <1>2, <2>1, <2>2 DEF Spawn
<1>3. CASE PatchPid
  BY <1>3, OthersQuiet DEF PatchPid, Start, Go, TypeOK, Ready, Locations, storeVars
<1>4. CASE ClientExit
  BY <1>4, OthersQuiet DEF ClientExit, Go, TypeOK, storeVars
<1> QED BY <1>1, <1>2, <1>3, <1>4 DEF ClientNext

\* The first snapshot of the driver and its last one list nothing.
LEMMA BootRecorded ==
    ASSUME TypeOK, EarlierAlone, Recorded, Boot
    PROVE  Recorded'
<1>1. /\ at[Driver] = "boot" /\ results = <<>> /\ tx[Driver] = "idle"
      /\ at'[Driver] = "booted" /\ at'[Client] = at[Client]
      /\ UNCHANGED <<tx, next, robbed, results>>
  BY DEF Boot, Ready, Go, TypeOK, Recorded, NothingDriven
<1>2. file' = Fresh(Driver) \/ file' = file
  BY DEF Boot, SaveUnlocked
<1>3. NothingDriven'
  BY <1>1 DEF Recorded, NothingDriven
<1>4. FirstVersionListsNothing'
  BY <1>2 DEF Recorded, FirstVersionListsNothing, Fresh
<1>5. ASSUME ~robbed', ~Foreign'
      PROVE  InStep'
  <2>1. CASE Foreign
    <3>1. file' = Fresh(Driver) /\ \A p \in Processes : tx[p] = "idle"
      BY <1>1, <1>2, <1>5, <2>1 DEF Foreign, EarlierAlone
    <3>2. FileDone' = <<>>
      BY <3>1, DoneType DEF FileDone, TypeOK
    <3> QED BY <1>1, <3>1, <3>2 DEF InStep, IsInitialPart, Driving
  <2>2. CASE ~Foreign
    <3>1. InStep
      BY <1>1, <1>5, <2>2 DEF Recorded
    <3>2. FileDone = <<>>
      BY <1>1, <3>1, DoneType, InitialPartFacts DEF InStep, TypeOK
    <3>3. FileDone' = <<>>
      BY <1>2, <3>2, DoneType DEF FileDone, Fresh, TypeOK
    <3>4. \A p \in Processes : tx[p] = "saving" => next[p].done = <<>>
      BY <1>1, <3>1, DoneType, InitialPartFacts DEF InStep, TypeOK
    <3> QED BY <1>1, <3>3, <3>4 DEF InStep, IsInitialPart, Driving
  <2> QED BY <2>1, <2>2
<1> QED BY <1>3, <1>4, <1>5 DEF Recorded

LEMMA FlushRecorded ==
    ASSUME TypeOK, EarlierAlone, Recorded, Flush
    PROVE  Recorded'
<1>1. /\ tx[Driver] = "idle" /\ at[Driver] \in {"stamping", "flushing"}
      /\ at'[Driver] = "stopped" /\ at'[Client] = at[Client]
      /\ UNCHANGED <<tx, next, robbed, results>>
  BY DEF Flush, Ready, Go, TypeOK
<1>2. file' = FreshV1(Driver) \/ file' = file
  BY DEF Flush, SaveUnlocked
<1>3. NothingDriven'
  BY <1>1 DEF Recorded, NothingDriven
<1>4. FirstVersionListsNothing'
  BY <1>2, DoneType DEF Recorded, FirstVersionListsNothing, TypeOK
<1>5. ASSUME ~robbed', ~Foreign'
      PROVE  InStep'
  <2>1. CASE Foreign
    <3>1. file' = FreshV1(Driver) /\ \A p \in Processes : tx[p] = "idle"
      BY <1>1, <1>2, <1>5, <2>1 DEF Foreign, EarlierAlone
    <3>2. FileDone' = <<>>
      BY <3>1, DoneType DEF FileDone, TypeOK
    <3>3. IsInitialPart(FileDone', results)
      BY <3>2, InitialPartFacts DEF TypeOK
    <3> QED BY <1>1, <3>1, <3>3 DEF InStep, Driving
  <2>2. CASE ~Foreign
    <3>1. InStep
      BY <1>1, <1>5, <2>2 DEF Recorded
    <3>2. FileDone' = <<>> \/ FileDone' = FileDone
      BY <1>2, DoneType DEF FileDone, TypeOK
    <3>3. IsInitialPart(FileDone', results)
      BY <3>1, <3>2, InitialPartFacts DEF InStep, TypeOK
    <3> QED BY <1>1, <3>1, <3>3 DEF InStep, Driving
  <2> QED BY <2>1, <2>2
<1> QED BY <1>3, <1>4, <1>5 DEF Recorded

\* An outcome is appended where the file is in step with the driver.
LEMMA OutcomeRecorded ==
    ASSUME TypeOK, Recorded, NEW o \in Outcomes, Outcome(o),
           Ready(Driver, {"activating", "observing"})
    PROVE  Recorded'
<1>1. /\ results' = Append(results, o) /\ UNCHANGED <<file, next, robbed>>
      /\ at'[Driver] = "recording" /\ at'[Client] = at[Client]
      /\ tx' = [tx EXCEPT ![Driver] = "opening"]
  BY DEF Outcome, Start, Go, TypeOK
<1>2. NothingDriven'
  BY <1>1 DEF Ready, Recorded, NothingDriven
<1>3. FirstVersionListsNothing'
  BY <1>1 DEF Recorded, FirstVersionListsNothing
<1>4. ASSUME ~robbed', ~Foreign'
      PROVE  InStep'
  <2>1. InStep /\ FileDone' = FileDone /\ FileDone = results
    BY <1>1, <1>4 DEF Recorded, FileDone, Foreign, InStep, Ready, Driving
  <2>2. IsInitialPart(FileDone, results')
    BY <1>1, <2>1, InitialPartFacts DEF TypeOK
  <2>3. \A p \in Processes : tx'[p] = "saving" =>
            tx[p] = "saving" /\ IsInitialPart(next[p].done, results') /\ next[p].done = FileDone
    BY <1>1, <2>1, DoneType, InitialPartFacts DEF InStep, TypeOK, StoreTypeOK, Ready
  <2>4. results'[Len(results')] = o /\ tx'[Driver] = "opening"
    BY <1>1 DEF TypeOK, StoreTypeOK
  <2> QED BY <1>1, <2>1, <2>2, <2>3, <2>4 DEF InStep, RecordingInStep, Driving
<1> QED BY <1>2, <1>3, <1>4 DEF Recorded

LEMMA DriverDies ==
    ASSUME TypeOK, Recorded, Die(Driver), UNCHANGED results, Alive(Driver),
           at'[Driver] = "exited",
           at'[Client] \in {"start", "saved"} => at[Client] \in {"start", "saved"}
    PROVE  Recorded'
<1>1. \A q \in Processes : tx'[q] = "saving" => tx[q] = "saving" /\ next'[q] = next[q]
  BY DEF Die, TypeOK, StoreTypeOK
<1>2. tx'[Driver] = "idle" /\ UNCHANGED <<file, robbed>>
  BY DEF Die, TypeOK, StoreTypeOK
<1>3. NothingDriven'
  BY DEF Recorded, NothingDriven, Alive
<1> QED BY <1>1, <1>2, <1>3, QuietRecorded DEF Alive, Driving

\* A signal reaches a process; moved is where the sender has gone.
LEMMA SignalLeavesRecord ==
    ASSUME TypeOK, Recorded, NEW p \in Processes, Alive(p), NEW s \in Processes \ {Driver},
           NEW moved \in [Processes -> Locations], Signal(p, moved), UNCHANGED results,
           \A q \in Processes \ {s} : moved[q] = at[q],
           moved[s] \in {at[s], "awaiting"}
    PROVE  Recorded'
<1>1. CASE p = Driver /\ at' = moved /\ UNCHANGED storeVars
  BY <1>1, OthersQuiet DEF storeVars
<1>2. CASE Die(p) /\ at' = [moved EXCEPT ![p] = "exited"]
  <2>1. at'[Client] \in {"start", "saved"} => at[Client] \in {"start", "saved"}
    BY <1>2 DEF TypeOK
  <2>2. at'[p] = "exited" /\ (p # Driver => at'[Driver] = at[Driver])
    BY <1>2 DEF TypeOK
  <2> QED BY <1>2, <2>1, <2>2, OthersQuiet, DriverDies DEF Die
<1> QED BY <1>1, <1>2 DEF Signal

LEMMA DriverRecorded ==
    ASSUME TypeOK, EarlierAlone, Recorded, DriverRuns \/ Refuse \/ Reached \/ Hang
    PROVE  Recorded'
<1> USE DEF Locations, Driving
<1> DEFINE Resting == {"activating", "staging", "prompting", "waiting", "observing", "aggregating"}
<1>1. ASSUME at[Driver] \in Resting
      PROVE  robbed \/ Foreign \/ FileDone = results
  BY <1>1 DEF Recorded, InStep
<1>2. ASSUME Fail, UNCHANGED <<shutdown, target>>, tx[Driver] = "idle", at[Driver] \in Resting
      PROVE  Recorded'
  BY <1>2, DriverMoves DEF Fail, storeVars, TypeOK, StoreTypeOK
<1>3. ASSUME NEW l \in Resting, Start(Driver, l), Ready(Driver, Resting), UNCHANGED results
      PROVE  Recorded'
  BY <1>1, <1>3, DriverMoves DEF Ready
<1>4. ASSUME NEW l \in {"waiting", "observing"}, Go(Driver, l), Ready(Driver, Resting),
             UNCHANGED <<storeVars, results>>
      PROVE  Recorded'
  BY <1>1, <1>4, DriverMoves DEF Ready, storeVars, TypeOK, StoreTypeOK
<1>5. CASE NextMilestone \/ AggregateOutcome
  <2>1. /\ Ready(Driver, {"booted", "recording"}) /\ UNCHANGED results
        /\ Start(Driver, "activating") \/ Start(Driver, "aggregating")
    BY <1>5 DEF NextMilestone, AggregateOutcome, Ready
  <2>2. robbed \/ Foreign \/ FileDone = results
    BY <2>1, DoneType, InitialPartFacts
       DEF Recorded, NothingDriven, InStep, RecordingInStep, Ready, TypeOK
  <2> QED BY <2>1, <2>2, DriverMoves DEF Ready
<1>6. CASE Iterate
  <2>1. CASE \E o \in Outcomes : Outcome(o)
    BY <1>6, <2>1, OutcomeRecorded DEF Iterate
  <2>2. CASE Fail
    BY <1>2, <1>6, <2>2 DEF Iterate, Ready
  <2>3. CASE Start(Driver, "staging") /\ UNCHANGED results
    BY <1>3, <1>6, <2>3 DEF Iterate, Ready
  <2> QED BY <1>6, <2>1, <2>2, <2>3 DEF Iterate, Outcomes
<1>7. CASE Prompt \/ Dispatched \/ WaitInterrupted \/ Reached
  <2>1. Ready(Driver, Resting)
    BY <1>7 DEF Prompt, Dispatched, WaitInterrupted, Reached, Ready
  <2>2. CASE Fail
    BY <1>2, <1>7, <2>1, <2>2 DEF Prompt, Dispatched, WaitInterrupted, Reached, Ready, Start
  <2>3. CASE ~Fail
    BY <1>3, <1>4, <1>7, <2>1, <2>3 DEF Prompt, Dispatched, WaitInterrupted, Reached
  <2> QED BY <2>2, <2>3
<1>8. CASE TransitionFailed
  <2>1. /\ at[Driver] \notin {"unborn", "stopped"}
        /\ Go(Driver, "flushing") \/ Go(Driver, "ending")
    BY <1>8 DEF TransitionFailed, Recorded, NothingDriven
  <2> QED BY <1>8, <2>1, DriverMoves DEF TransitionFailed
<1>9. CASE End
  <2>1. /\ Ready(Driver, {"aggregating", "ending"}) /\ UNCHANGED results
        /\ \/ Start(Driver, "stamping")
           \/ UNCHANGED storeVars /\ (Go(Driver, "flushing") \/ Go(Driver, "exited"))
    BY <1>9 DEF End
  <2>2. CASE Start(Driver, "stamping")
    BY <2>1, <2>2, DriverMoves DEF Ready
  <2>3. ASSUME NEW l \in {"flushing", "exited"}, Go(Driver, l), UNCHANGED storeVars
        PROVE  Recorded'
    <3>1. tx' = [tx EXCEPT ![Driver] = "idle"] /\ UNCHANGED <<file, lock, known, next, robbed>>
      BY <2>1, <2>3 DEF Ready, storeVars, TypeOK, StoreTypeOK
    <3> QED BY <2>1, <2>3, <3>1, DriverMoves DEF Ready
  <2> QED BY <2>1, <2>2, <2>3
<1>10. CASE Refuse
  BY <1>10, DriverMoves DEF Refuse, Ready, storeVars, TypeOK, StoreTypeOK
<1>11. CASE Hang
  BY <1>11, DriverMoves DEF Hang, Ready, storeVars, TypeOK, StoreTypeOK
<1> QED BY <1>5, <1>6, <1>7, <1>8, <1>9, <1>10, <1>11, BootRecorded, FlushRecorded DEF DriverRuns

LEMMA StopperRecorded ==
    ASSUME TypeOK, Recorded, NEW s \in Stoppers, StopperNext(s)
    PROVE  Recorded'
<1>1. s \in Processes \ {Driver} /\ s # Client
  OBVIOUS
<1>2. CASE SignalRecorded(s)
  <2>1. CASE /\ file # Absent /\ Alive(file.pid)
             /\ Signal(file.pid, [at EXCEPT ![s] = "awaiting"])
    <3> DEFINE moved == [at EXCEPT ![s] = "awaiting"]
    <3>1. file.pid \in Processes
      BY <2>1 DEF Alive
    <3>2. /\ moved \in [Processes -> Locations] /\ moved[s] = "awaiting"
          /\ \A q \in Processes \ {s} : moved[q] = at[q]
      BY <1>1 DEF TypeOK, Locations
    <3>3. Signal(file.pid, moved) /\ UNCHANGED results
      BY <1>2, <2>1 DEF SignalRecorded
    <3> HIDE DEF moved
    <3> QED BY <1>1, <2>1, <3>1, <3>2, <3>3, SignalLeavesRecord
  <2>2. CASE Go(s, "exited") /\ UNCHANGED <<storeVars, shutdown, target>>
    BY <1>1, <1>2, <2>2, OthersQuiet DEF SignalRecorded, Go, TypeOK, storeVars
  <2> QED BY <1>2, <2>1, <2>2 DEF SignalRecorded
<1>3. CASE AwaitExit(s) \/ GiveUp(s) \/ Stopped(s)
  <2>1. CASE Start(s, "stamping")
    BY <1>1, <1>3, <2>1, OthersQuiet
       DEF AwaitExit, GiveUp, Stopped, Start, Go, TypeOK, Ready, Locations, storeVars
  <2>2. CASE Go(s, "exited") /\ UNCHANGED storeVars
    BY <1>1, <1>3, <2>2, OthersQuiet DEF AwaitExit, GiveUp, Stopped, Go, TypeOK, storeVars
  <2> QED BY <1>3, <2>1, <2>2 DEF AwaitExit, GiveUp, Stopped
<1> QED BY <1>2, <1>3 DEF StopperNext

LEMMA DeathRecorded ==
    ASSUME TypeOK, Recorded, NEW p \in {Client, Driver}, Interrupt(p) \/ Kill(p)
    PROVE  Recorded'
<1>1. CASE Interrupt(p)
  BY <1>1, SignalLeavesRecord DEF Interrupt, TypeOK
<1>2. CASE Kill(p)
  <2>1. /\ at'[p] = "exited" /\ (p # Driver => at'[Driver] = at[Driver])
        /\ at'[Client] \in {"start", "saved"} => at[Client] \in {"start", "saved"}
    BY <1>2 DEF Kill, Go, TypeOK
  <2> QED BY <1>2, <2>1, OthersQuiet, DriverDies DEF Kill, Die
<1> QED BY <1>1, <1>2

\* A step of a transition: the holder of the lock is alone with the file.
LEMMA PublishRecorded ==
    ASSUME TypeOK, Located, HolderOwnsLock, EarlierAlone, OutcomeKept, Recorded,
           NEW p \in Processes, Publish(p)
    PROVE  Recorded'
<1> USE DEF Step, TypeOK, StoreTypeOK
<1>1. /\ UNCHANGED <<at, results>> /\ tx[p] # "idle"
      /\ \A q \in Processes : q # p => next'[q] = next[q] /\ tx'[q] = tx[q]
      /\ robbed => robbed'
    BY DEF Publish, runVars, Transition, Open, FindStale, Unlink, TimeOut, Reload, Save,
           FailSave, Drop, RemoveLock
<1>2. NothingDriven'
  BY <1>1 DEF Recorded, NothingDriven
<1>3. ASSUME ~robbed
      PROVE  \A q \in Processes : tx[q] = "saving" /\ p \in Holding => q = p
  BY <1>3 DEF HolderOwnsLock, Holding
<1>4. at[p] = "recording" => p = Driver /\ Len(results) > 0
  BY DEF Located
<1>5. CASE Open(p) \/ FindStale(p) \/ Unlink(p) \/ TimeOut(p) \/ Drop(p)
  <2>1. /\ file' = file /\ tx'[p] # "saving"
        /\ \/ tx[p] = "dropping" /\ tx'[p] = "idle"
           \/ /\ tx[p] \in {"opening", "unlinking", "loading"}
              /\ tx'[p] \in {"opening", "unlinking", "loading", "failed"}
    BY <1>5 DEF Open, FindStale, Unlink, TimeOut, Drop
  <2>2. FirstVersionListsNothing'
    BY <2>1 DEF Recorded, FirstVersionListsNothing
  <2>3. ASSUME ~robbed', ~Foreign
        PROVE  InStep'
    <3>1. InStep /\ FileDone' = FileDone
      BY <1>1, <2>1, <2>3 DEF Recorded, FileDone
    <3>2. at[Driver] = "recording" => RecordingInStep'
      BY <1>1, <2>1, <3>1 DEF InStep, RecordingInStep
    <3> QED BY <1>1, <2>1, <3>1, <3>2 DEF InStep
  <2> QED BY <1>2, <2>2, <2>3, PublishForeign DEF Recorded
<1>6. CASE Reload(p, Event(p))
  <2>1. /\ file' = file /\ robbed' = robbed
        /\ tx[p] = "loading" /\ tx'[p] \in {"saving", "dropping"}
    BY <1>6 DEF Reload
  <2>2. FirstVersionListsNothing' /\ Current(p) \in Snapshots /\ Current(p).done = FileDone
    BY <2>1, CurrentDone, CurrentType DEF Recorded, FirstVersionListsNothing
  <2>3. tx'[p] = "saving" => next'[p] = Apply(Event(p), Current(p))
    BY <1>6 DEF Reload
  <2>4. at[p] = "recording" => tx'[p] = "saving"
    <3>1. at[p] = "recording" => Event(p).kind = "milestone"
      BY DEF Event
    <3> QED BY <1>6, <3>1 DEF Reload, Refuses
  <2>5. ASSUME ~robbed', ~Foreign
        PROVE  InStep'
    <3>1. InStep /\ FileDone' = FileDone
      BY <2>1, <2>5 DEF Recorded, FileDone
    <3>2. CASE at[p] = "recording"
      <4>1. p = Driver /\ tx'[p] = "saving"
        BY <1>4, <2>4, <3>2
      <4>2. next'[p].done = results
        <5>1. next'[p].done = Append(FileDone, results[Len(results)])
          BY <2>2, <2>3, <3>2, <4>1, ApplyDone
        <5>2. Append(FileDone, results[Len(results)]) = results
          BY <2>1, <3>1, <3>2, <4>1 DEF InStep, RecordingInStep
        <5> QED BY <5>1, <5>2
      <4>3. IsInitialPart(next'[p].done, results)
        BY <4>2, InitialPartFacts
      <4>4. RecordingInStep'
        BY <1>1, <4>1, <4>2 DEF RecordingInStep
      <4> QED BY <1>1, <3>1, <3>2, <4>1, <4>3, <4>4 DEF InStep, Driving
    <3>3. CASE at[p] # "recording"
      <4>1. tx'[p] = "saving" => next'[p].done = FileDone
        BY <2>2, <2>3, <3>3, ApplyDone
      <4>2. at[Driver] = "recording" => p # Driver /\ RecordingInStep'
        BY <1>1, <3>1, <3>3 DEF InStep, RecordingInStep
      <4> QED BY <1>1, <3>1, <4>1, <4>2 DEF InStep
    <3> QED BY <3>2, <3>3
  <2> QED BY <1>2, <2>2, <2>5, PublishForeign DEF Recorded
<1>7. CASE Save(p) \/ FailSave(p)
  <2>1. /\ tx[p] = "saving" /\ tx'[p] \in {"dropping", "failed"}
        /\ file' = file \/ file' = next[p]
        /\ tx'[p] = "dropping" => file' = next[p]
    BY <1>7 DEF Save, FailSave
  <2>2. next[p] # Absent /\ next[p].version = 2
    BY AbsentAssumption DEF OutcomeKept
  <2>3. FirstVersionListsNothing'
    BY <2>1, <2>2 DEF Recorded, FirstVersionListsNothing
  <2>4. ASSUME ~robbed', ~Foreign
        PROVE  InStep'
    <3>1. InStep
      BY <1>1, <2>4 DEF Recorded
    <3>2. FileDone' = FileDone \/ FileDone' = next[p].done
      BY <2>1, <2>2 DEF FileDone
    <3>3. IsInitialPart(FileDone', results)
      BY <2>1, <3>1, <3>2 DEF InStep
    <3>4. \A q \in Processes : tx'[q] # "saving"
      BY <1>1, <1>3, <2>1, <2>4 DEF Holding
    <3>5. at[Driver] \in Driving \cup {"aggregating"} => FileDone' = results
      BY <2>1, <3>1, <3>2 DEF InStep, Driving
    <3>6. at[Driver] = "recording" => RecordingInStep'
      <4>1. CASE p = Driver
        BY <1>1, <2>1, <2>2, <3>1, <4>1 DEF InStep, RecordingInStep, FileDone
      <4>2. CASE p # Driver /\ at[Driver] = "recording"
        <5>1. next[p].done = FileDone
          BY <2>1, <3>1, <4>2 DEF InStep
        <5> QED BY <1>1, <3>1, <3>2, <4>2, <5>1 DEF InStep, RecordingInStep
      <4> QED BY <4>1, <4>2
    <3> QED BY <1>1, <3>3, <3>4, <3>5, <3>6 DEF InStep
  <2> QED BY <1>2, <2>3, <2>4, PublishForeign DEF Recorded
<1> QED BY <1>5, <1>6, <1>7 DEF Publish, Transition

LEMMA NextRecorded ==
    ASSUME TypeOK, Located, HolderOwnsLock, UntouchedAtStart, EarlierAlone, OutcomeKept,
           Recorded, [Next]_vars
    PROVE  Recorded'
<1>1. CASE UNCHANGED vars
  <2>1. UNCHANGED <<file, tx, next, robbed, at, results>>
    BY <1>1 DEF vars, storeVars, runVars
  <2>2. NothingDriven'
    BY <2>1 DEF Recorded, NothingDriven
  <2> QED BY <2>1, <2>2, QuietRecorded
<1>2. ASSUME NEW p \in Processes, Publish(p)
      PROVE  Recorded'
  BY <1>2, PublishRecorded
<1>3. ASSUME NEW s \in Stoppers, StopperNext(s)
      PROVE  Recorded'
  BY <1>3, StopperRecorded
<1>4. ASSUME NEW p \in {Client, Driver}, Interrupt(p) \/ Kill(p)
      PROVE  Recorded'
  BY <1>4, DeathRecorded
<1> QED BY <1>1, <1>2, <1>3, <1>4, ClientRecorded, DriverRecorded DEF Next

LEMMA InitRecorded == Init => Recorded
<1> SUFFICES ASSUME Init PROVE Recorded
  OBVIOUS
<1>1. PICK detach \in BOOLEAN :
          at = [p \in Processes |->
                    CASE p = Client -> IF detach THEN "start" ELSE "exited"
                      [] p = Driver -> IF detach THEN "unborn" ELSE "boot"
                      [] OTHER      -> "start"]
  BY DEF Init
<1>2. /\ at[Client] \in {"start", "exited"} /\ at[Driver] \in {"unborn", "boot"}
      /\ at[Client] = "start" => at[Driver] = "unborn"
  BY <1>1
<1>3. file = Absent \/ Foreign
  BY EarlierAssumption, AbsentAssumption DEF Init, StoreInit, Foreign
<1>4. FirstVersionListsNothing
  BY EarlierAssumption DEF Init, StoreInit, FirstVersionListsNothing
<1> QED BY <1>2, <1>3, <1>4
        DEF Init, StoreInit, Recorded, NothingDriven, InStep, FileDone, IsInitialPart, Driving

\* A snapshot of this run lists the outcomes in the order they were driven, none of
\* an earlier run's among them, and none is missing when the driver has turned to the next milestone, for every queue and any number
\* of stop commands, as long as no lock was stolen: the reload under the lock loses
\* no event of another writer.
THEOREM ResultsRecorded == Spec => []RecordsEveryResult
<1>1. TypeOK /\ Located /\ HolderOwnsLock /\ OutcomeKept /\ [Next]_vars => OutcomeKept'
  BY NextKept
<1>2. /\ TypeOK /\ Located /\ HolderOwnsLock /\ UntouchedAtStart /\ EarlierAlone
      /\ OutcomeKept /\ Recorded /\ [Next]_vars
      => Recorded'
  BY NextRecorded
<1>3. Recorded => RecordsEveryResult
  BY DEF Recorded, InStep, FileDone, Ours, Foreign, RecordsEveryResult, Ready, Driving
<1> QED BY <1>1, <1>2, <1>3, InitKept, InitRecorded, Types, LockOwned, Untouched, Alone,
           PTL DEF Spec

=============================================================================
