-------------------------- MODULE MilestoneMigration --------------------------
(***************************************************************************)
(* `mp edit migrate-lifecycle` running between the ordinary commands.  It  *)
(* rewrites every milestone whose legacy fields are set: the phase goes    *)
(* through MilestoneEvent::MigrateRaw and the legacy fields are emptied,   *)
(* so that readers derive them from the lifecycle from then on.  The plans *)
(* considered are those that today's commands write; files from before the *)
(* lifecycle field existed are not.                                        *)
(***************************************************************************)
EXTENDS MilestoneReview

\* Mutant: only one of the two legacy fields is emptied.
MigratedKeepingExec(s) ==
    IF s.spec = Unset /\ s.exec = Unset THEN s
    ELSE [s EXCEPT !.overlays = @ \cup ({s.exec} \cap Overlays),
                   !.pre = NoPhase, !.spec = Unset]

\* Mutant: the flags are lost.
MigratedWithoutOverlays(s) ==
    IF s.spec = Unset /\ s.exec = Unset THEN s
    ELSE [s EXCEPT !.overlays = {}, !.pre = NoPhase, !.spec = Unset, !.exec = Unset]

\* migrate_milestone_to_lifecycle, for a milestone whose lifecycle is readable.
\* MigrateRaw keeps the phase and the overlays and forgets the captured phase.
Migrated(s) ==
    IF s.spec = Unset /\ s.exec = Unset THEN s
    ELSE [s EXCEPT !.overlays = @ \cup ({s.exec} \cap Overlays),
                   !.pre = NoPhase, !.spec = Unset, !.exec = Unset]

\* The whole command fails, and writes nothing, if one milestone is unreadable.
MigrateLifecycle ==
    /\ \A m \in Milestones : Readable(meta[m])
    /\ meta' = [m \in Milestones |-> Migrated(meta[m])]
    /\ UNCHANGED <<tracks, open, passed, waived>>

MigratingNext == Next \/ MigrateLifecycle

MigratingSpec == Init /\ [][MigratingNext]_vars

-----------------------------------------------------------------------------
(* Safety *)

\* Emptied or not, the legacy fields never contradict the lifecycle: a stored
\* value is always the projection of the current phase and overlays.
StoredLegacyIsCurrent ==
    \A m \in Milestones :
        LET s == meta[m] IN
        \/ s.spec = Unset /\ s.exec = Unset
        \/ s.spec = LegacySpec(s.phase) /\ s.exec = LegacyExec(s.phase, s.overlays)

\* A migration does not change what the gates read of a milestone outside the
\* two phases that the derivation of effective_execution_status treats apart.
MigrationKeepsReading ==
    [][MigrateLifecycle =>
          \A m \in Milestones :
              meta[m].phase \notin {"executed", "remediation"} =>
                  /\ EffectiveSpec(meta'[m]) = EffectiveSpec(meta[m])
                  /\ EffectiveExec(meta'[m]) = EffectiveExec(meta[m])]_vars

\* Rework whose origin a migration made forgotten never ends: no command finds
\* the phase to restore, and none enters remediation anew (resolve_finding,
\* MilestoneEvent::ExitRemediation).
ForgottenReworkStays ==
    [][\A m \in Milestones :
          meta[m].phase = "remediation" /\ meta[m].pre = NoPhase
            => meta'[m].phase = "remediation" /\ meta'[m].pre = NoPhase]_vars

(* Refinement: what is left of Delivery *)

\* A migration forgets where the rework that is under way came from.
ForgetOrigins ==
    /\ OriginMap' = [m \in Milestones |-> Promise!Nowhere]
    /\ UNCHANGED <<StageMap, Dropped, passed, waived>>

\* Rework of unknown origin reads as done, and a review may pass it.
VouchForStranded(m) ==
    /\ m \notin Dropped
    /\ StageMap[m] = "rework" /\ OriginMap[m] = Promise!Nowhere
    /\ passed' = passed \cup {m}
    /\ UNCHANGED <<StageMap, OriginMap, Dropped, waived>>

\* With migrations in between the commands keep the promise of Delivery, but for
\* rework under way at a migration: its origin is forgotten, and it may be vouched
\* for (migrate_milestone_to_lifecycle, effective_execution_status).
KeepsPromiseButForRework ==
    /\ Promise!Init
    /\ [][\/ UNCHANGED Promise!vars
          \/ ForgetOrigins
          \/ \E m \in Milestones : VouchForStranded(m)
          \/ Promise!Next]_vars

(* What the repository says of migrated milestones and does not hold *)

\* reviews.rs: remediations with no captured phase "aren't wedged": the exit is
\* still legal for a milestone in remediation that is not cancelled.
RemediationIsNotWedged ==
    \A m \in Milestones :
        meta[m].phase = "remediation" /\ "cancelled" \notin meta[m].overlays
            => Accepts(meta[m], "ExitRemediation")
=============================================================================
