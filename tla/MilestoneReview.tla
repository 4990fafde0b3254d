--------------------------- MODULE MilestoneReview ---------------------------
(***************************************************************************)
(* The life of the milestones of one plan, from draft to the reviewed end  *)
(* state and back through remediation: the commands of `mp milestone` and  *)
(* `mp reviews` that move a milestone, with the reviews registry they      *)
(* read.  One action is one command: commands are serialised by the plan   *)
(* lock, and a command that refuses leaves the files modelled here as they *)
(* are (PlanTxn is about commands that fail or die half way).              *)
(*                                                                         *)
(* Gates on the content of a milestone (scope, acceptance criteria, open   *)
(* approval requests, verifier results, code review) are left to the       *)
(* environment: a gate that refuses leaves the state as it is.             *)
(***************************************************************************)
EXTENDS Lifecycle

CONSTANTS
    Milestones,     \* the milestone ids of the plan
    DependsOn,      \* [Milestones -> SUBSET Milestones]: meta.depends_on
    Findings        \* finding ids: at most this many are open at a time

ASSUME DependsOnAssumption == DependsOn \in [Milestones -> SUBSET Milestones]

VARIABLES
    meta,       \* [Milestones -> Metas]: lifecycle, overlays, legacy fields
    tracks,     \* the milestones whose change_kind is "track"
    open,       \* [Milestones -> [FindingPhases -> SUBSET Findings]]: open findings
    passed,     \* the milestones with an "ok" row in reviews.json
    waived      \* history: completed as a track or with --skip-review

vars == <<meta, tracks, open, passed, waived>>

\* An empty phase counts as "self".
FindingPhases == {"self", "external"}

OpenFindings(m) == open[m]["self"] \cup open[m]["external"]

TypeOK ==
    /\ meta \in [Milestones -> Metas]
    /\ tracks \subseteq Milestones
    /\ open \in [Milestones -> [FindingPhases -> SUBSET Findings]]
    /\ passed \subseteq Milestones
    /\ waived \subseteq Milestones

-----------------------------------------------------------------------------
\* A milestone fresh from create_milestone: a draft with empty legacy fields.
NewMeta ==
    [phase |-> "draft", overlays |-> {}, pre |-> NoPhase,
     spec |-> Unset, exec |-> Unset]

Init ==
    /\ meta = [m \in Milestones |-> NewMeta]
    /\ tracks \in SUBSET Milestones
    /\ open = [m \in Milestones |-> [p \in FindingPhases |-> {}]]
    /\ passed = {}
    /\ waived = {}

\* apply_transition: refuse an illegal event, otherwise write its effects.
ApplyTransition(m, e) ==
    /\ Accepts(meta[m], e)
    /\ meta' = [meta EXCEPT ![m] = After(meta[m], e)]

-----------------------------------------------------------------------------
\* Mutant: "implemented" is taken for the reviewed end state.
SpecStatusEventsCompleting ==
    [draft |-> "Sync", interview |-> "Groom", review |-> "Groom",
     ready |-> "Approve", implemented |-> "Complete"]

(***************************************************************************)
(* mp milestone set-spec-status / approve.  "verified" is always refused.  *)
(***************************************************************************)
SpecStatusEvents ==
    [draft |-> "Sync", interview |-> "Groom", review |-> "Groom",
     ready |-> "Approve", implemented |-> "FinishExecution"]

SetSpecStatus(m, status) ==
    /\ status = "draft" => meta[m].phase = "draft"
    /\ ApplyTransition(m, SpecStatusEvents[status])
    /\ UNCHANGED <<tracks, open, passed, waived>>

(***************************************************************************)
(* mp milestone set-status: the legacy execution setter with its terminal  *)
(* guard, the start gates G1 and G8, and the "done needs verified" gate.   *)
(***************************************************************************)
ExecStatusEvent(m, status) ==
    CASE status = "planned" ->
            IF "deferred" \in meta[m].overlays THEN "Resume" ELSE "Sync"
      [] status = "in-progress" -> "Start"
      [] status = "done" -> "Complete"
      [] status = "blocked" -> "Block"
      [] status = "deferred" -> "Defer"
      [] status = "cancelled" -> "Cancel"

GateG1(m) == EffectiveSpec(meta[m]) \in {"ready", "implemented", "verified"}

GateG8(m) == \A d \in DependsOn[m] : EffectiveExec(meta[d]) = "done"

StartGates(m) == GateG1(m) /\ GateG8(m)

SetStatus(m, status) ==
    /\ IsTerminal(meta[m]) => status \in {"done", "cancelled"}
    /\ status = "in-progress" => StartGates(m)
    /\ status = "done" => EffectiveSpec(meta[m]) = "verified"
    /\ ApplyTransition(m, ExecStatusEvent(m, status))
    /\ UNCHANGED <<tracks, open, passed, waived>>

(***************************************************************************)
(* mp milestone block / unblock / defer / reopen.                          *)
(***************************************************************************)
Block(m) ==
    /\ ApplyTransition(m, "Block")
    /\ UNCHANGED <<tracks, open, passed, waived>>

Unblock(m) ==
    /\ ApplyTransition(m, "Unblock")
    /\ UNCHANGED <<tracks, open, passed, waived>>

Defer(m) ==
    /\ ApplyTransition(m, "Defer")
    /\ UNCHANGED <<tracks, open, passed, waived>>

Reopen(m) ==
    /\ EffectiveExec(meta[m]) = "done"
    /\ ApplyTransition(m, "Reopen")
    /\ UNCHANGED <<tracks, open, passed, waived>>

(***************************************************************************)
(* mp milestone complete: refused while self findings are open; reaches    *)
(* "complete" for a track, with --skip-review, or when any ok review was   *)
(* ever recorded, and stops at "executed" otherwise.                       *)
(***************************************************************************)
ReviewWaived(m, skipReview) == skipReview \/ m \in tracks

PromotesToComplete(m, skipReview) == ReviewWaived(m, skipReview) \/ m \in passed

CompleteMilestone(m, skipReview) ==
    /\ open[m]["self"] = {}
    /\ ApplyTransition(m, IF PromotesToComplete(m, skipReview)
                          THEN "Complete" ELSE "FinishExecution")
    /\ waived' = IF ReviewWaived(m, skipReview) THEN waived \cup {m} ELSE waived
    /\ UNCHANGED <<tracks, open, passed>>

\* mp milestone update --change-kind
UpdateChangeKind(m) ==
    /\ tracks' = IF m \in tracks THEN tracks \ {m} ELSE tracks \cup {m}
    /\ UNCHANGED <<meta, open, passed, waived>>

-----------------------------------------------------------------------------
(***************************************************************************)
(* mp reviews pass --verdict ok: needs finished execution, promotes an     *)
(* executed milestone and appends the row.  A "changes-needed" verdict     *)
(* promotes nothing and leaves no row that any of these commands reads.    *)
(***************************************************************************)
PromotedByReview(m) ==
    /\ meta[m].phase = "executed"
    /\ EffectiveSpec(meta[m]) \in {"verified", "implemented", "ready"}


\* Mutant: the review does not ask whether execution is done.
RecordReviewPassUngated(m) ==
    /\ IF PromotedByReview(m) THEN ApplyTransition(m, "Complete") ELSE UNCHANGED meta
    /\ passed' = passed \cup {m}
    /\ UNCHANGED <<tracks, open, waived>>

RecordReviewPass(m) ==
    /\ EffectiveExec(meta[m]) = "done"
    /\ IF PromotedByReview(m) THEN ApplyTransition(m, "Complete") ELSE UNCHANGED meta
    /\ passed' = passed \cup {m}
    /\ UNCHANGED <<tracks, open, waived>>

(***************************************************************************)
(* mp reviews finding add: a finding on executed or complete work enters   *)
(* remediation; if that is refused the whole command is.                   *)
(***************************************************************************)
AddFinding(m, f, p) ==
    /\ f \notin OpenFindings(m)
    /\ IF meta[m].phase \in Checkpoints
       THEN ApplyTransition(m, "EnterRemediation")
       ELSE UNCHANGED meta
    /\ open' = [open EXCEPT ![m][p] = @ \cup {f}]
    /\ UNCHANGED <<tracks, passed, waived>>

\* Mutant: the open findings are counted before the resolution is written.
LeavesRemediationTooLate(m, fs) ==
    meta[m].phase = "remediation" /\ OpenFindings(m) = {}

(***************************************************************************)
(* mp reviews finding resolve, for the findings `fs`: one of them, or all  *)
(* that are open with --all (one transaction).  The last one leaves        *)
(* remediation; if that is refused nothing is resolved.                    *)
(***************************************************************************)
LeavesRemediation(m, fs) ==
    meta[m].phase = "remediation" /\ OpenFindings(m) \subseteq fs

ResolveFindings(m, fs) ==
    /\ IF LeavesRemediation(m, fs)
       THEN ApplyTransition(m, "ExitRemediation")
       ELSE UNCHANGED meta
    /\ open' = [open EXCEPT ![m] = [p \in FindingPhases |-> open[m][p] \ fs]]
    /\ UNCHANGED <<tracks, passed, waived>>

ResolveFinding(m, f) == f \in OpenFindings(m) /\ ResolveFindings(m, {f})

ResolveAllOpenFindings(m) ==
    OpenFindings(m) # {} /\ ResolveFindings(m, OpenFindings(m))

-----------------------------------------------------------------------------
MilestoneCommand(m) ==
    \/ \E status \in DOMAIN SpecStatusEvents : SetSpecStatus(m, status)
    \/ \E status \in ExecStatuses : SetStatus(m, status)
    \/ Block(m)
    \/ Unblock(m)
    \/ Defer(m)
    \/ Reopen(m)
    \/ \E skipReview \in BOOLEAN : CompleteMilestone(m, skipReview)
    \/ UpdateChangeKind(m)

ReviewCommand(m) ==
    \/ RecordReviewPass(m)
    \/ \E f \in Findings, p \in FindingPhases : AddFinding(m, f, p)
    \/ \E f \in Findings : ResolveFinding(m, f)
    \/ ResolveAllOpenFindings(m)

Next == \E m \in Milestones : MilestoneCommand(m) \/ ReviewCommand(m)

Spec == Init /\ [][Next]_vars

-----------------------------------------------------------------------------
(* Safety *)

\* A milestone in remediation always has a finding to resolve and the phase to
\* go back to, and no other milestone carries a captured phase: filing and
\* resolving findings, cancelling and blocking in between never leave a
\* milestone in remediation with no way out (add_finding, resolve_finding).
RemediationHasCause ==
    \A m \in Milestones :
        IF meta[m].phase = "remediation"
        THEN meta[m].pre \in Checkpoints /\ OpenFindings(m) # {}
        ELSE meta[m].pre = NoPhase

\* The overlays exclude each other, and delivered work is never cancelled: all
\* the setters together (block, defer, set-status, reviews) keep this.
OverlaysExclusive ==
    \A m \in Milestones :
        /\ \A a, b \in meta[m].overlays : a = b
        /\ meta[m].phase = "complete" => "cancelled" \notin meta[m].overlays

\* A reader of the legacy fields and a reader of the lifecycle agree: past the
\* untouched draft the stored fields are the projection of phase and overlays,
\* so the two gates that read "done" see only unflagged checkpoints.
LegacyFieldsAgree ==
    \A m \in Milestones :
        LET s == meta[m] IN
        \/ s.phase = "draft" /\ s.overlays = {} /\ s.spec = Unset /\ s.exec = Unset
        \/ s.spec = LegacySpec(s.phase) /\ s.exec = LegacyExec(s.phase, s.overlays)

\* Work counts as complete, or will be restored to complete when remediation
\* ends, only if an ok review was recorded or the review was waived: through
\* every command, the set-status "done" and remediation exits included.
CompletionIsVouched ==
    \A m \in Milestones :
        "complete" \in {meta[m].phase, meta[m].pre} => m \in passed \cup waived

\* A milestone that was reviewed, or whose review was waived, has been executed
\* and never goes back to planning.
VouchedWorkWasExecuted ==
    \A m \in passed \cup waived : meta[m].phase \notin Planning

(* Action properties *)

\* Remediation ends only when the last open finding is resolved, and it ends in
\* the phase that was captured when it began.
RemediationRestores ==
    [][\A m \in Milestones :
          meta[m].phase = "remediation" /\ meta'[m].phase # "remediation"
            => /\ meta'[m].phase = meta[m].pre
               /\ open'[m]["self"] \cup open'[m]["external"] = {}]_vars

\* A cancelled milestone is final: no command moves it, flags it, unflags it or
\* vouches for it.
CancelledIsFinal ==
    [][\A m \in Milestones :
          "cancelled" \in meta[m].overlays
            => meta'[m] = meta[m] /\ (m \in passed' <=> m \in passed)]_vars

(* Refinement *)

Stage(phase) ==
    CASE phase \in Planning -> "planned"
      [] phase = "in-progress" -> "active"
      [] phase = "executed" -> "finished"
      [] phase = "complete" -> "delivered"
      [] phase = "remediation" -> "rework"

Origin(pre) == IF pre = NoPhase THEN "nowhere" ELSE Stage(pre)

StageMap == [m \in Milestones |-> Stage(meta[m].phase)]
OriginMap == [m \in Milestones |-> Origin(meta[m].pre)]
Dropped == {m \in Milestones : "cancelled" \in meta[m].overlays}

Promise == INSTANCE Delivery WITH
    stage <- StageMap, origin <- OriginMap, dropped <- Dropped,
    vouched <- passed \cup waived

\* Every command keeps the promise of Delivery.
KeepsPromise == Promise!Spec

(* What the repository says of completion and the commands do not keep *)

\* spec.rs: "Complete requires the complete_milestone ceremony (AC verify,
\* open-findings gates, evidence)."
CompleteHasNoOpenSelfFinding ==
    \A m \in Milestones :
        meta[m].phase = "complete" => open[m]["self"] = {}
=============================================================================
