-------------------------------- MODULE Lanes --------------------------------
(***************************************************************************)
(* What the path engine (path_engine.rs) makes of the milestones, while    *)
(* the commands and the migration change them: the lanes of `mp path` and  *)
(* `mp next --lane`, from the lifecycle, and the ready milestones of       *)
(* `mp next`, from the stored legacy fields.  Both only read, so they are  *)
(* sets over the current state: neither the order in which a lane shows    *)
(* its members nor its cut to the first `horizon` of them is kept here.    *)
(***************************************************************************)
EXTENDS MilestoneMigration

Parked == {"blocked", "deferred", "cancelled"}

\* MilestoneFile::effective_execution_status: the stored field wins, here too,
\* but the derivation is not the one of the gates (EffectiveExec).
LaneExec(s) ==
    IF s.exec # Unset THEN s.exec
    ELSE IF "cancelled" \in s.overlays THEN "cancelled"
    ELSE IF "blocked" \in s.overlays THEN "blocked"
    ELSE IF "deferred" \in s.overlays THEN "deferred"
    ELSE CASE s.phase \in Planning -> "planned"
           [] s.phase = "in-progress" -> "in-progress"
           [] s.phase \in Checkpoints \cup {"remediation"} -> "done"

\* Mutant: a dependency is met when its execution is done.
DependenciesExecuted(m) ==
    \A d \in DependsOn[m] : LaneExec(meta[d]) = "done"

\* milestone_deps_met, with the ids of complete_ids.
DependenciesComplete(m) ==
    \A d \in DependsOn[m] : meta[d].phase = "complete"

-----------------------------------------------------------------------------
(* The lanes. *)

ExecutionLane ==
    {m \in Milestones :
        /\ meta[m].phase \in {"approved", "in-progress"}
        /\ LaneExec(meta[m]) \notin Parked
        /\ DependenciesComplete(m)}

\* Of the phases today's commands write, only remediation has an arm.
ReviewLane == {m \in Milestones : meta[m].phase = "remediation"}

\* Mutant: the dependencies of a groomed milestone are waited for, too.
BlockedLaneFromGrooming ==
    {m \in Milestones :
        /\ meta[m].phase # "complete" /\ "cancelled" \notin meta[m].overlays
        /\ LaneExec(meta[m]) \notin {"deferred", "cancelled"}
        /\ \/ LaneExec(meta[m]) = "blocked"
           \/ /\ meta[m].phase \in {"groomed", "approved", "in-progress"}
              /\ ~DependenciesComplete(m)}

BlockedLane ==
    {m \in Milestones :
        /\ meta[m].phase # "complete" /\ "cancelled" \notin meta[m].overlays
        /\ LaneExec(meta[m]) \notin {"deferred", "cancelled"}
        /\ \/ LaneExec(meta[m]) = "blocked"
           \/ /\ meta[m].phase \in {"approved", "in-progress"}
              /\ ~DependenciesComplete(m)}

\* The lifecycle of an unreadable draft is "cancelled", which no lane takes.
BeforeApproval ==
    {m \in Milestones :
        /\ Readable(meta[m]) /\ meta[m].phase \in {"draft", "groomed"}
        /\ LaneExec(meta[m]) \notin Parked}

AwaitingApprovalLane ==
    {m \in BeforeApproval : EffectiveSpec(meta[m]) = "ready"}

GroomingLane ==
    {m \in BeforeApproval : EffectiveSpec(meta[m]) # "ready"}

LanesOf(m) ==
    {lane \in {"execution", "review", "blocked", "awaiting-approval", "grooming"} :
        m \in CASE lane = "execution" -> ExecutionLane
                [] lane = "review" -> ReviewLane
                [] lane = "blocked" -> BlockedLane
                [] lane = "awaiting-approval" -> AwaitingApprovalLane
                [] lane = "grooming" -> GroomingLane}

-----------------------------------------------------------------------------
(* The ready milestones of build_path: the fields as they are stored. *)

Executable(m) ==
    /\ meta[m].spec \in {"ready", "implemented", "verified"}
    /\ meta[m].exec \in {"planned", "in-progress"}

\* Mutant: a dependency is met as soon as nothing of it is planned.
ReadyBehindStarted ==
    {m \in Milestones :
        Executable(m) /\ \A d \in DependsOn[m] : meta[d].exec # "planned"}

Ready ==
    {m \in Milestones :
        Executable(m) /\ \A d \in DependsOn[m] : meta[d].exec = "done"}

-----------------------------------------------------------------------------
(* Properties *)

(***************************************************************************)
(* Every milestone that is still to be worked on is in exactly one lane:   *)
(* work waits for grooming, for its dependencies, for an executor or for   *)
(* findings to be resolved.  Blocked remediation is in two lanes; executed *)
(* work, which waits for its review, is in none and not claimed here.      *)
(***************************************************************************)
InOneLane ==
    \A m \in Milestones :
        /\ meta[m].phase \notin Checkpoints
        /\ meta[m].overlays \cap {"deferred", "cancelled"} = {}
        => IF meta[m].phase = "remediation" /\ "blocked" \in meta[m].overlays
           THEN LanesOf(m) = {"review", "blocked"}
           ELSE \E lane \in LanesOf(m) : LanesOf(m) = {lane}

(***************************************************************************)
(* What the execution lane offers can be started: the gates G1 and G8 of   *)
(* set-status and the transition accept it.  The lane and the gates read   *)
(* the dependencies by different functions; they part only over complete   *)
(* work that carries a flag, which the gate does not take for done.        *)
(***************************************************************************)
OfferedWorkCanStart ==
    \A m \in ExecutionLane :
        (\A d \in DependsOn[m] : meta[d].overlays = {})
            => StartGates(m) /\ Accepts(meta[m], "Start")

(***************************************************************************)
(* The stored fields `mp next` reads never send an executor ahead of the   *)
(* lifecycle: a ready milestone is approved or under way, unflagged, and   *)
(* everything it depends on has been executed.                             *)
(***************************************************************************)
ReadyWorkIsDue ==
    \A m \in Ready :
        /\ meta[m].phase \in {"approved", "in-progress", "remediation"}
        /\ meta[m].overlays = {}
        /\ \A d \in DependsOn[m] : meta[d].phase \in Checkpoints
=============================================================================
