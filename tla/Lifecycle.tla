----------------------------- MODULE Lifecycle -----------------------------
(***************************************************************************)
(* The pure delivery state machine of a milestone, as decided by           *)
(* `transition` in crates/mp-model/src/milestone.rs, and the two legacy    *)
(* status fields that are projected from it.                               *)
(*                                                                         *)
(* A milestone's metadata is a record                                      *)
(*   phase     the canonical lifecycle                                     *)
(*   overlays  the set of flags that ride alongside it                     *)
(*   pre       the phase captured when remediation was entered             *)
(*   spec,exec the legacy fields, Unset while the file leaves them empty   *)
(* `needs_regrooming` is left out: no command of mp ever sets it.          *)
(***************************************************************************)
Planning == {"draft", "groomed", "approved"}

\* The phases at which work may be sent back: the executor's end state and
\* the reviewed end state.
Checkpoints == {"executed", "complete"}

Phases == Planning \cup {"in-progress", "remediation"} \cup Checkpoints

Overlays == {"blocked", "deferred", "cancelled"}

NoPhase == "none"
Unset == ""

Events ==
    {"Sync", "Groom", "Approve", "Start", "FinishExecution", "Complete",
     "Reopen", "Block", "Unblock", "Defer", "Resume", "Cancel",
     "EnterRemediation", "ExitRemediation"}

(***************************************************************************)
(* The projections onto the legacy fields.                                 *)
(***************************************************************************)
LegacySpec(phase) ==
    CASE phase = "draft" -> "draft"
      [] phase = "groomed" -> "review"
      [] phase \in {"approved", "in-progress"} -> "ready"
      [] phase \in {"executed", "remediation"} -> "implemented"
      [] phase = "complete" -> "verified"

PhaseExec(phase) ==
    CASE phase \in Planning -> "planned"
      [] phase \in {"in-progress", "remediation"} -> "in-progress"
      [] phase \in Checkpoints -> "done"

LegacyExec(phase, overlays) ==
    IF "cancelled" \in overlays THEN "cancelled"
    ELSE IF "blocked" \in overlays THEN "blocked"
    ELSE IF "deferred" \in overlays THEN "deferred"
    ELSE PhaseExec(phase)

SpecStatuses == {"draft", "review", "ready", "implemented", "verified"}
ExecStatuses ==
    {"planned", "in-progress", "done", "blocked", "deferred", "cancelled"}

Metas ==
    [phase : Phases, overlays : SUBSET Overlays, pre : Phases \cup {NoPhase},
     spec : SpecStatuses \cup {Unset}, exec : ExecStatuses \cup {Unset}]

(***************************************************************************)
(* What a reader makes of the legacy fields: the stored value wins, and an *)
(* empty field is derived from the lifecycle.  The derivation has no arm   *)
(* for "executed" and reads remediation as finished.                       *)
(***************************************************************************)
EffectiveSpec(s) ==
    IF s.spec # Unset THEN s.spec
    ELSE IF s.phase = "executed" THEN "executed"
    ELSE LegacySpec(s.phase)

EffectiveExec(s) ==
    IF s.exec # Unset THEN s.exec
    ELSE IF "blocked" \in s.overlays THEN "blocked"
    ELSE IF "deferred" \in s.overlays THEN "deferred"
    ELSE IF "cancelled" \in s.overlays THEN "cancelled"
    ELSE CASE s.phase \in Planning \cup {"executed"} -> "planned"
           [] s.phase = "in-progress" -> "in-progress"
           [] s.phase \in {"complete", "remediation"} -> "done"

\* A draft whose legacy field says "cancelled" has no readable lifecycle.
Readable(s) == ~(s.phase = "draft" /\ s.exec = "cancelled")

IsTerminal(s) == s.phase = "complete" \/ "cancelled" \in s.overlays

\* Mutant: approval does not check where the milestone is.
SourcesApprovingAnything(e) ==
    CASE e = "Groom" -> {"draft", "groomed"}
      [] e \in {"Approve", "Sync", "Unblock", "Resume"} -> Phases
      [] e = "Start" -> {"approved", "in-progress"}
      [] e = "FinishExecution" -> {"approved", "in-progress", "executed"}
      [] e = "Complete" -> {"approved", "in-progress"} \cup Checkpoints
      [] e \in {"Reopen", "EnterRemediation"} -> Checkpoints
      [] e \in {"Block", "Defer", "Cancel"} -> Phases \ {"complete"}
      [] e = "ExitRemediation" -> {"remediation"}

(***************************************************************************)
(* The transition table.                                                   *)
(***************************************************************************)
Sources(e) ==
    CASE e = "Groom" -> {"draft", "groomed"}
      [] e = "Approve" -> Planning
      [] e = "Start" -> {"approved", "in-progress"}
      [] e = "FinishExecution" -> {"approved", "in-progress", "executed"}
      [] e = "Complete" -> {"approved", "in-progress"} \cup Checkpoints
      [] e \in {"Reopen", "EnterRemediation"} -> Checkpoints
      [] e \in {"Block", "Defer", "Cancel"} -> Phases \ {"complete"}
      [] e = "ExitRemediation" -> {"remediation"}
      [] e \in {"Sync", "Unblock", "Resume"} -> Phases

\* Mutant: leaving remediation always lands in the executor's end state.
NextPhaseForgettingOrigin(s, e) ==
    CASE e = "Groom" -> "groomed"
      [] e = "Approve" -> "approved"
      [] e \in {"Start", "Reopen"} -> "in-progress"
      [] e \in {"FinishExecution", "ExitRemediation"} -> "executed"
      [] e = "Complete" -> "complete"
      [] e = "EnterRemediation" -> "remediation"
      [] e \in {"Sync", "Block", "Unblock", "Defer", "Resume", "Cancel"} -> s.phase

NextPhase(s, e) ==
    CASE e = "Groom" -> "groomed"
      [] e = "Approve" -> "approved"
      [] e \in {"Start", "Reopen"} -> "in-progress"
      [] e = "FinishExecution" -> "executed"
      [] e = "Complete" -> "complete"
      [] e = "EnterRemediation" -> "remediation"
      [] e = "ExitRemediation" -> s.pre
      [] e \in {"Sync", "Block", "Unblock", "Defer", "Resume", "Cancel"} -> s.phase

NextOverlays(s, e) ==
    CASE e \in {"Start", "Complete", "Reopen"} -> s.overlays \ {"blocked", "deferred"}
      [] e = "Block" -> (s.overlays \ {"deferred"}) \cup {"blocked"}
      [] e = "Defer" -> (s.overlays \ {"blocked"}) \cup {"deferred"}
      [] e = "Cancel" -> {"cancelled"}
      [] e = "Unblock" -> s.overlays \ {"blocked"}
      [] e = "Resume" -> s.overlays \ {"deferred"}
      [] e \in {"Sync", "Groom", "Approve", "FinishExecution",
                "EnterRemediation", "ExitRemediation"} -> s.overlays

NextPre(s, e) ==
    CASE e = "EnterRemediation" -> s.phase
      [] e \in {"Reopen", "ExitRemediation"} -> NoPhase
      [] e \in Events \ {"EnterRemediation", "Reopen", "ExitRemediation"} -> s.pre

\* Mutant: the cancelled guard is gone.
AcceptsCancelled(s, e) ==
    /\ Readable(s)
    /\ s.phase \in Sources(e)
    /\ e = "Unblock" => "blocked" \in s.overlays
    /\ e = "Resume" => "deferred" \in s.overlays
    /\ e = "ExitRemediation" => s.pre \in Checkpoints
    /\ ~({"blocked", "deferred"} \subseteq NextOverlays(s, e))

\* The event is legal in this state: every early return of `transition`.
Accepts(s, e) ==
    /\ Readable(s)
    /\ "cancelled" \in s.overlays => e = "Unblock"
    /\ s.phase \in Sources(e)
    /\ e = "Unblock" => "blocked" \in s.overlays
    /\ e = "Resume" => "deferred" \in s.overlays
    /\ e = "ExitRemediation" => s.pre \in Checkpoints
    /\ ~({"blocked", "deferred"} \subseteq NextOverlays(s, e))

\* The state after a legal event; the legacy fields are always rewritten.
After(s, e) ==
    LET phase == NextPhase(s, e)
        overlays == NextOverlays(s, e)
    IN  [phase |-> phase, overlays |-> overlays, pre |-> NextPre(s, e),
         spec |-> LegacySpec(phase), exec |-> LegacyExec(phase, overlays)]
=============================================================================
