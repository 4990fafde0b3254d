----------------------------- MODULE WatchDrive -----------------------------
(***************************************************************************)
(* One milestone driven by `mp watch` (watch/state_machine.rs) while       *)
(* agents and people run the commands of MilestoneReview.  The driver      *)
(* reads the milestone without the plan lock, prompts the runner in its    *)
(* pane, and waits until the lifecycle is complete.  It polls two things:  *)
(* the lifecycle, and the pane's custom status, which `mp milestone        *)
(* complete` and `mp reviews pass` set to a sentinel after their write     *)
(* (watch/bridge.rs) and which only wakes the driver up.                   *)
(*                                                                         *)
(* WatchRun is about the queue, the state file and the signals; there the  *)
(* lifecycle is chosen freely, here the rest is left out.                  *)
(***************************************************************************)
EXTENDS MilestoneReview, Naturals

CONSTANTS
    Driven,         \* the milestone that is driven
    MaxIterations   \* MAX_ITERATIONS_PER_MILESTONE

ASSUME DriveAssumption ==
    Driven \in Milestones /\ MaxIterations \in Nat \ {0}

VARIABLES
    driver,     \* where drive_milestone is; "idle" when no driver runs
    iteration,  \* the iterations begun so far
    pane,       \* does the driver know a pane of the runner?
    sentinel,   \* is the sentinel in the runner's pane?
    unsent,     \* has a command of that pane written, but not yet reported?
    verdict     \* the outcome of the last drive, "none" while there is none

driveVars == <<driver, iteration, pane, verdict>>
paneVars == <<sentinel, unsent>>
allVars == <<vars, driveVars, paneVars>>

Locations == {"idle", "reading", "prompting", "waiting", "confirming", "clearing",
              "hung"}
Verdicts == {"none", "complete", "skipped", "exhausted", "failed"}

DriveTypeOK ==
    /\ driver \in Locations /\ iteration \in 0 .. MaxIterations
    /\ pane \in BOOLEAN /\ sentinel \in BOOLEAN /\ unsent \in BOOLEAN
    /\ verdict \in Verdicts

-----------------------------------------------------------------------------
(***************************************************************************)
(* The commands.  One that reports does so before it gives the plan lock   *)
(* back, so that no other command comes between its write and its report.  *)
(***************************************************************************)
Emits ==
    \E m \in Milestones :
        \/ \E skipReview \in BOOLEAN : CompleteMilestone(m, skipReview)
        \/ PromotedByReview(m) /\ RecordReviewPass(m)

\* A command that has nothing to report, or runs outside the runner's pane.
QuietCommand == ~unsent /\ Next /\ UNCHANGED <<driveVars, paneVars>>

ReportingCommand ==
    /\ ~unsent /\ unsent' = TRUE
    /\ Emits
    /\ UNCHANGED <<driveVars, sentinel>>

\* emit_stage_done_best_effort: the call may fail or time out.
EmitStageDone ==
    /\ unsent /\ unsent' = FALSE
    /\ sentinel' \in {sentinel, TRUE}
    /\ UNCHANGED <<vars, driveVars>>

-----------------------------------------------------------------------------
(* The driver. *)

\* mp watch; with --resume or --force it may know a pane from the start.
StartDrive ==
    /\ driver = "idle" /\ driver' = "reading"
    /\ iteration' = 0 /\ verdict' = "none"
    /\ pane' \in BOOLEAN
    /\ UNCHANGED <<vars, paneVars>>

EndDrive(outcome) ==
    /\ driver' = "idle" /\ verdict' = outcome
    /\ iteration' = 0 /\ pane' = FALSE
    /\ UNCHANGED <<vars, paneVars>>

\* Mutant: work that is done will be reviewed.
AtGoalWhenDone(s) == s.phase \in Checkpoints

AtGoal(s) == s.phase = "complete"

ShouldSkip(s) ==
    \/ s.overlays # {}
    \/ s.phase = "approved" /\ ~(s.spec = "ready" /\ s.exec = "planned")
    \/ s.phase \notin {"approved", "in-progress", "remediation"}

Exhaust ==
    /\ driver = "reading" /\ iteration = MaxIterations
    /\ EndDrive("exhausted")

Reach ==
    /\ driver = "reading" /\ iteration < MaxIterations
    /\ AtGoal(meta[Driven])
    /\ EndDrive("complete")

Skip ==
    /\ driver = "reading" /\ iteration < MaxIterations
    /\ ~AtGoal(meta[Driven]) /\ ShouldSkip(meta[Driven])
    /\ EndDrive("skipped")

\* next_stage: a milestone in progress is taken for prompted already.
PlanStage ==
    /\ driver = "reading" /\ iteration < MaxIterations
    /\ ~AtGoal(meta[Driven]) /\ ~ShouldSkip(meta[Driven])
    /\ driver' = IF meta[Driven].phase = "in-progress" THEN "waiting" ELSE "prompting"
    /\ iteration' = iteration + 1
    /\ UNCHANGED <<vars, pane, verdict, paneVars>>

\* ensure_pane and send_prompt_to, on what was read before.
SendPrompt ==
    /\ driver = "prompting" /\ driver' = "waiting"
    /\ pane' = TRUE
    /\ UNCHANGED <<vars, iteration, verdict, paneVars>>

\* A read, a pane, a prompt or a write of the run state fails.
Fail ==
    /\ driver \in {"reading", "prompting"}
    /\ EndDrive("failed")

\* Mutant: the lifecycle is looked at when the pane says so.
PollLifecycleOnSentinel ==
    /\ driver = "waiting" /\ driver' = "reading"
    /\ AtGoal(meta[Driven]) /\ sentinel
    /\ UNCHANGED <<vars, iteration, pane, verdict, paneVars>>

\* integrated_wait's poll of the lifecycle; nothing is past complete.
PollLifecycle ==
    /\ driver = "waiting" /\ driver' = "reading"
    /\ AtGoal(meta[Driven])
    /\ UNCHANGED <<vars, iteration, pane, verdict, paneVars>>

\* The pane's agent status has not changed for the stall timeout; a read of the
\* lifecycle that fails counts as one that is not there yet.
Stall ==
    /\ driver = "waiting" /\ pane
    /\ EndDrive("failed")

PollSentinel ==
    /\ driver = "waiting" /\ pane /\ sentinel
    /\ driver' = "confirming"
    /\ UNCHANGED <<vars, iteration, pane, verdict, paneVars>>

\* The lifecycle is read once more; the sentinel of an earlier stage is stale.
ConfirmComplete ==
    /\ driver = "confirming" /\ AtGoal(meta[Driven])
    /\ driver' = "reading"
    /\ sentinel' \in {sentinel, FALSE}
    /\ UNCHANGED <<vars, iteration, pane, verdict, unsent>>

FindStale ==
    /\ driver = "confirming" /\ ~AtGoal(meta[Driven])
    /\ driver' = "clearing"
    /\ UNCHANGED <<vars, iteration, pane, verdict, paneVars>>

\* Clears whatever is in the pane by now; the call may fail.
ClearStale ==
    /\ driver = "clearing" /\ driver' = "waiting"
    /\ sentinel' \in {sentinel, FALSE}
    /\ UNCHANGED <<vars, iteration, pane, verdict, unsent>>

FailConfirm ==
    /\ driver = "confirming" /\ driver' = "waiting"
    /\ UNCHANGED <<vars, iteration, pane, verdict, paneVars>>

\* The calls that open a pane, send the prompt, and read the agent's status and the
\* lifecycle at every poll of the wait have no time limit: one may not come back.
Hang ==
    /\ driver \in {"prompting", "waiting", "confirming"} /\ driver' = "hung"
    /\ UNCHANGED <<vars, iteration, pane, verdict, paneVars>>

\* A signal or a kill, at any point; in a call that hangs it takes a kill.
Interrupt == driver # "idle" /\ EndDrive("none")

Drive ==
    \/ Exhaust \/ Reach \/ Skip \/ PlanStage \/ SendPrompt \/ Fail
    \/ PollLifecycle \/ Stall
    \/ PollSentinel \/ ConfirmComplete \/ FindStale \/ ClearStale \/ FailConfirm

-----------------------------------------------------------------------------
DriveInit ==
    /\ Init
    /\ driver = "idle" /\ iteration = 0 /\ pane = FALSE /\ verdict = "none"
    /\ sentinel \in BOOLEAN /\ unsent = FALSE

DriveNext ==
    \/ QuietCommand \/ ReportingCommand \/ EmitStageDone
    \/ StartDrive \/ Drive \/ Hang \/ Interrupt

(***************************************************************************)
(* The driver is scheduled while no call hangs, and the wait comes back to *)
(* the lifecycle whatever the sentinel says: the calls about the sentinel  *)
(* are bounded, and none is begun that would not be over before the next   *)
(* poll is due.  This does not keep Hang from happening: a poll of the     *)
(* lifecycle calls mp and then herdr, without a time limit.                *)
(***************************************************************************)
DriveFairness == WF_allVars(Drive) /\ SF_allVars(PollLifecycle)

DriveSpec == DriveInit /\ [][DriveNext]_allVars /\ DriveFairness

-----------------------------------------------------------------------------
(***************************************************************************)
(* A drive that ends as completed has a milestone behind it that was       *)
(* reviewed, or whose review was waived: neither finished work, nor a      *)
(* sentinel of an earlier stage, nor a completion that was taken back      *)
(* between two reads passes for it.                                        *)
(***************************************************************************)
CompletedDriveIsVouched ==
    verdict = "complete" => Driven \in passed \cup waived

(***************************************************************************)
(* Once the milestone stays complete, every drive of it ends, though       *)
(* reports are lost, cleared unread or left over from earlier stages,      *)
(* unless a call without a time limit hangs: then it never notices.        *)
(***************************************************************************)
CompleteIsNoticed ==
    <>[](meta[Driven].phase = "complete") => []<>(driver \in {"idle", "hung"})

(* What the repository says of the driver and it does not do *)

\* resume.rs, of a pane that was recorded and is gone, "Resume must re-spawn", and
\* of one that was never recorded, "Resume must spawn": a driver that waits has a
\* runner's pane.
WaitsForARunner == driver = "waiting" => pane
=============================================================================
