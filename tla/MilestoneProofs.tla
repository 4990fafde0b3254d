-------------------------- MODULE MilestoneProofs --------------------------
(***************************************************************************)
(* Proofs about MilestoneReview, for any set of milestones, any dependency *)
(* relation and any set of finding ids, and about those who read the plan: *)
(* the lanes, between commands and migrations (MilestoneMigration, Lanes), *)
(* and the watch driver (WatchDrive), which only reads it, so that what is *)
(* proved of MilestoneReview holds while it runs, whatever the bound on    *)
(* its iterations.                                                         *)
(***************************************************************************)
EXTENDS Lanes, WatchDrive, TLAPS

-----------------------------------------------------------------------------
(* The milestone commands: MilestoneReview *)

(***************************************************************************)
(* The part of the invariant that speaks of one milestone's metadata.      *)
(***************************************************************************)
CapturedOK(s) ==
    IF s.phase = "remediation" THEN s.pre \in Checkpoints ELSE s.pre = NoPhase

OverlaysOK(s) ==
    /\ \A a, b \in s.overlays : a = b
    /\ s.phase = "complete" => "cancelled" \notin s.overlays

Projected(s) ==
    s.spec = LegacySpec(s.phase) /\ s.exec = LegacyExec(s.phase, s.overlays)

Untouched(s) ==
    s.phase = "draft" /\ s.overlays = {} /\ s.spec = Unset /\ s.exec = Unset

MetaOK(s) == CapturedOK(s) /\ OverlaysOK(s) /\ (Untouched(s) \/ Projected(s))

\* The inductive invariant: the safety properties need each other.  The gates
\* that read legacy fields are only as good as LegacyFieldsAgree, and the exit
\* of remediation is only vouched for because the captured phase was.
IInv ==
    /\ TypeOK
    /\ RemediationHasCause
    /\ OverlaysExclusive
    /\ LegacyFieldsAgree
    /\ CompletionIsVouched
    /\ VouchedWorkWasExecuted

(***************************************************************************)
(* Lemmas about the transition table.                                      *)
(***************************************************************************)

\* The projections always produce legacy values.
LEMMA ProjectionTypes ==
    ASSUME NEW phase \in Phases, NEW overlays \in SUBSET Overlays
    PROVE  /\ LegacySpec(phase) \in SpecStatuses
           /\ LegacyExec(phase, overlays) \in ExecStatuses
  BY SMT DEF LegacySpec, LegacyExec, PhaseExec, SpecStatuses, ExecStatuses, Phases,
         Planning, Checkpoints

\* A legal event leads to a well-formed record.
LEMMA AfterType ==
    ASSUME NEW s \in Metas, NEW e \in Events, Accepts(s, e)
    PROVE  After(s, e) \in Metas
  <1>1. NextPhase(s, e) \in Phases
    BY DEF NextPhase, Accepts, Metas, Events, Phases, Planning, Checkpoints
  <1>2. NextOverlays(s, e) \in SUBSET Overlays
    BY DEF NextOverlays, Metas, Events, Overlays
  <1>3. NextPre(s, e) \in Phases \cup {NoPhase}
    BY DEF NextPre, Metas, Events
  <1>4. /\ LegacySpec(NextPhase(s, e)) \in SpecStatuses
        /\ LegacyExec(NextPhase(s, e), NextOverlays(s, e)) \in ExecStatuses
    BY <1>1, <1>2, ProjectionTypes
  <1> QED
    BY <1>1, <1>2, <1>3, <1>4 DEF After, Metas

\* The phase is captured exactly on entry to remediation and dropped on exit.
LEMMA AfterCaptured ==
    ASSUME NEW s \in Metas, NEW e \in Events, Accepts(s, e), CapturedOK(s)
    PROVE  CapturedOK(After(s, e))
  BY DEF CapturedOK, After, NextPhase, NextPre, Accepts, Sources, Metas, Events,
         Phases, Planning, Checkpoints, NoPhase

\* No event sets a second overlay, and no event cancels delivered work.
LEMMA AfterOverlays ==
    ASSUME NEW s \in Metas, NEW e \in Events, Accepts(s, e), OverlaysOK(s)
    PROVE  OverlaysOK(After(s, e))
  <1>1. \A a, b \in NextOverlays(s, e) : a = b
    BY DEF OverlaysOK, Accepts, NextOverlays, Metas, Events, Overlays
  <1>2. NextPhase(s, e) = "complete" => "cancelled" \notin NextOverlays(s, e)
    BY DEF OverlaysOK, NextPhase, NextOverlays, Accepts, Sources, Metas, Events,
           Overlays, Phases, Planning, Checkpoints
  <1> QED
    BY <1>1, <1>2 DEF OverlaysOK, After

LEMMA AfterOK ==
    ASSUME NEW s \in Metas, NEW e \in Events, Accepts(s, e), MetaOK(s)
    PROVE  MetaOK(After(s, e)) /\ Projected(After(s, e))
  <1>1. Projected(After(s, e))
    BY DEF Projected, After
  <1> QED
    BY <1>1, AfterCaptured, AfterOverlays DEF MetaOK

\* Delivered or about-to-be-restored work comes from delivered work or from
\* the Complete event alone.
LEMMA AfterDelivered ==
    ASSUME NEW s \in Metas, NEW e \in Events, Accepts(s, e), e # "Complete",
           "complete" \in {After(s, e).phase, After(s, e).pre}
    PROVE  "complete" \in {s.phase, s.pre}
  BY DEF After, NextPhase, NextPre, Accepts, Sources, Metas, Events, Phases,
         Planning, Checkpoints, NoPhase

\* Nothing goes back to planning, and the Complete and FinishExecution events
\* leave it.
LEMMA AfterPlanning ==
    ASSUME NEW s \in Metas, NEW e \in Events, Accepts(s, e),
           After(s, e).phase \in Planning
    PROVE  s.phase \in Planning /\ e \notin {"Complete", "FinishExecution"}
  BY DEF After, NextPhase, Accepts, Sources, Metas, Events, Phases, Planning,
         Checkpoints

\* Remediation is entered and left by its own two events only.
LEMMA AfterRemediation ==
    ASSUME NEW s \in Metas, NEW e \in Events, Accepts(s, e)
    PROVE  /\ e = "EnterRemediation" => After(s, e).phase = "remediation"
           /\ e = "ExitRemediation" => After(s, e).phase = s.pre
           /\ e \notin {"EnterRemediation", "ExitRemediation"}
                => (After(s, e).phase = "remediation" <=> s.phase = "remediation")
  BY DEF After, NextPhase, Accepts, Sources, Metas, Events, Phases, Planning,
         Checkpoints

\* What a gate that reads "done" or "verified" really knows.
LEMMA DoneMeansExecuted ==
    ASSUME NEW s \in Metas, MetaOK(s), EffectiveExec(s) = "done"
    PROVE  s.phase \in Checkpoints /\ s.overlays = {}
  <1>1. CASE Untouched(s)
    BY <1>1 DEF Untouched, EffectiveExec, Planning, Unset
  <1>2. CASE Projected(s)
    BY <1>2 DEF Projected, EffectiveExec, LegacyExec, PhaseExec, Unset, Metas, Phases,
           Planning, Checkpoints, Overlays
  <1> QED
    BY <1>1, <1>2 DEF MetaOK

LEMMA VerifiedMeansComplete ==
    ASSUME NEW s \in Metas, MetaOK(s), EffectiveSpec(s) = "verified"
    PROVE  s.phase = "complete"
  BY DEF MetaOK, Untouched, Projected, EffectiveSpec, LegacySpec, Unset, Metas,
         Phases, Planning, Checkpoints

-----------------------------------------------------------------------------
(***************************************************************************)
(* The invariant.                                                          *)
(***************************************************************************)
LEMMA InvMetaOK ==
    ASSUME IInv, NEW m \in Milestones
    PROVE  meta[m] \in Metas /\ MetaOK(meta[m])
  BY DEF IInv, TypeOK, RemediationHasCause, OverlaysExclusive, LegacyFieldsAgree,
         MetaOK, CapturedOK, OverlaysOK, Untouched, Projected

\* The invariant from its parts, for the state a command leads to.
LEMMA InvFromParts ==
    ASSUME TypeOK',
           \A m \in Milestones :
               /\ MetaOK(meta'[m])
               /\ meta'[m].phase = "remediation"
                    => open'[m]["self"] \cup open'[m]["external"] # {}
               /\ "complete" \in {meta'[m].phase, meta'[m].pre}
                    => m \in passed' \cup waived'
               /\ m \in passed' \cup waived' => meta'[m].phase \notin Planning
    PROVE  IInv'
  BY DEF IInv, TypeOK, RemediationHasCause, OverlaysExclusive, LegacyFieldsAgree,
         CompletionIsVouched, VouchedWorkWasExecuted, OpenFindings,
         MetaOK, CapturedOK, OverlaysOK, Untouched, Projected

LEMMA InitInv == Init => IInv
  <1>1. NewMeta \in Metas
    BY DEF NewMeta, Metas, Phases, Planning
  <1>2. /\ NewMeta.phase = "draft" /\ NewMeta.overlays = {}
        /\ NewMeta.pre = NoPhase /\ NewMeta.spec = Unset /\ NewMeta.exec = Unset
    BY DEF NewMeta
  <1> SUFFICES ASSUME Init PROVE IInv
    OBVIOUS
  <1>3. TypeOK
    BY <1>1 DEF Init, TypeOK
  <1>4. \A m \in Milestones : meta[m] = NewMeta /\ m \notin passed \cup waived
    BY DEF Init
  <1>5. RemediationHasCause /\ OverlaysExclusive /\ LegacyFieldsAgree
    BY <1>2, <1>4 DEF RemediationHasCause, OverlaysExclusive, LegacyFieldsAgree
  <1>6. CompletionIsVouched /\ VouchedWorkWasExecuted
    BY <1>2, <1>4 DEF Init, NoPhase, CompletionIsVouched, VouchedWorkWasExecuted
  <1> QED
    BY <1>3, <1>5, <1>6 DEF IInv

\* A command that only runs one event through the transition table.
LEMMA EventKeepsInv ==
    ASSUME IInv, NEW m \in Milestones, NEW e \in Events, ApplyTransition(m, e),
           e \notin {"EnterRemediation", "ExitRemediation"},
           e = "Complete" => m \in passed' \cup waived',
           UNCHANGED <<tracks, open>>,
           passed' \in {passed, passed \cup {m}},
           waived' \in {waived, waived \cup {m}},
           m \in passed' \cup waived' => m \in passed \cup waived
                                         \/ e \in {"Complete", "FinishExecution"}
    PROVE  IInv'
  <1>1. meta[m] \in Metas /\ MetaOK(meta[m]) /\ Accepts(meta[m], e)
    BY InvMetaOK DEF ApplyTransition
  <1>2. /\ meta' = [meta EXCEPT ![m] = After(meta[m], e)]
        /\ After(meta[m], e) \in Metas
        /\ MetaOK(After(meta[m], e))
    BY <1>1, AfterType, AfterOK DEF ApplyTransition
  <1>3. TypeOK'
    BY <1>2 DEF IInv, TypeOK
  <1>4. ASSUME NEW n \in Milestones
        PROVE  /\ MetaOK(meta'[n])
               /\ meta'[n].phase = "remediation"
                    => open'[n]["self"] \cup open'[n]["external"] # {}
               /\ "complete" \in {meta'[n].phase, meta'[n].pre}
                    => n \in passed' \cup waived'
               /\ n \in passed' \cup waived' => meta'[n].phase \notin Planning
    <2>1. CASE n # m
      <3>1. meta'[n] = meta[n]
        BY <1>2, <2>1 DEF IInv, TypeOK
      <3>2. MetaOK(meta[n])
        BY InvMetaOK
      <3> QED
        BY <2>1, <3>1, <3>2 DEF IInv, RemediationHasCause, OpenFindings,
               CompletionIsVouched, VouchedWorkWasExecuted
    <2>2. CASE n = m
      <3>1. meta'[m] = After(meta[m], e)
        BY <1>2 DEF IInv, TypeOK
      <3>2. After(meta[m], e).phase = "remediation" => OpenFindings(m) # {}
        BY <1>1, AfterRemediation DEF IInv, RemediationHasCause
      <3>3. "complete" \in {After(meta[m], e).phase, After(meta[m], e).pre}
              => m \in passed' \cup waived'
        BY <1>1, AfterDelivered DEF IInv, CompletionIsVouched
      <3>4. m \in passed' \cup waived' => After(meta[m], e).phase \notin Planning
        BY <1>1, AfterPlanning DEF IInv, VouchedWorkWasExecuted
      <3> QED
        BY <1>2, <2>2, <3>1, <3>2, <3>3, <3>4 DEF OpenFindings
    <2> QED
      BY <2>1, <2>2
  <1> QED
    BY <1>3, <1>4, InvFromParts

-----------------------------------------------------------------------------
(* One lemma per command. *)

LEMMA SetSpecStatusInv ==
    ASSUME IInv, NEW m \in Milestones, NEW status \in DOMAIN SpecStatusEvents,
           SetSpecStatus(m, status)
    PROVE  IInv'
  <1>1. SpecStatusEvents[status] \in {"Sync", "Groom", "Approve", "FinishExecution"}
    BY DEF SpecStatusEvents
  <1> QED
    BY <1>1, EventKeepsInv DEF SetSpecStatus, Events

LEMMA SetStatusInv ==
    ASSUME IInv, NEW m \in Milestones, NEW status \in ExecStatuses,
           SetStatus(m, status)
    PROVE  IInv'
  <1>1. /\ ExecStatusEvent(m, status) \in Events
        /\ ExecStatusEvent(m, status) \notin {"EnterRemediation", "ExitRemediation"}
        /\ ExecStatusEvent(m, status) = "Complete" => status = "done"
    BY DEF ExecStatusEvent, ExecStatuses, Events
  <1>2. status = "done" => m \in passed \cup waived
    BY InvMetaOK, VerifiedMeansComplete DEF SetStatus, IInv, CompletionIsVouched
  <1> QED
    BY <1>1, <1>2, EventKeepsInv DEF SetStatus

LEMMA OverlayCommandInv ==
    ASSUME IInv, NEW m \in Milestones,
           Block(m) \/ Unblock(m) \/ Defer(m) \/ Reopen(m)
    PROVE  IInv'
  <1>1. PICK e \in {"Block", "Unblock", "Defer", "Reopen"} :
            ApplyTransition(m, e) /\ UNCHANGED <<tracks, open, passed, waived>>
    BY DEF Block, Unblock, Defer, Reopen
  <1> QED
    BY <1>1, EventKeepsInv DEF Events

LEMMA CompleteMilestoneInv ==
    ASSUME IInv, NEW m \in Milestones, NEW skipReview \in BOOLEAN,
           CompleteMilestone(m, skipReview)
    PROVE  IInv'
  <1> DEFINE e == IF PromotesToComplete(m, skipReview)
                  THEN "Complete" ELSE "FinishExecution"
  <1>1. e \in Events /\ e \in {"Complete", "FinishExecution"}
    BY DEF Events
  <1>2. ApplyTransition(m, e) /\ UNCHANGED <<tracks, open, passed>>
    BY DEF CompleteMilestone
  <1>3. waived' \in {waived, waived \cup {m}}
    BY DEF CompleteMilestone
  <1>4. e = "Complete" => m \in passed' \cup waived'
    BY <1>2 DEF CompleteMilestone, PromotesToComplete
  <1> QED
    BY <1>1, <1>2, <1>3, <1>4, EventKeepsInv

LEMMA UpdateChangeKindInv ==
    ASSUME IInv, NEW m \in Milestones, UpdateChangeKind(m)
    PROVE  IInv'
  BY DEF UpdateChangeKind, IInv, TypeOK, RemediationHasCause, OverlaysExclusive,
         LegacyFieldsAgree, CompletionIsVouched, VouchedWorkWasExecuted,
         OpenFindings

LEMMA RecordReviewPassInv ==
    ASSUME IInv, NEW m \in Milestones, RecordReviewPass(m)
    PROVE  IInv'
  <1>1. /\ meta[m] \in Metas /\ MetaOK(meta[m])
        /\ meta[m].phase \in Checkpoints
    BY InvMetaOK, DoneMeansExecuted DEF RecordReviewPass
  <1>2. CASE PromotedByReview(m)
    BY <1>2, EventKeepsInv DEF RecordReviewPass, Events
  <1>3. CASE ~PromotedByReview(m)
    <2>1. UNCHANGED <<meta, tracks, open, waived>> /\ passed' = passed \cup {m}
      BY <1>3 DEF RecordReviewPass
    <2>2. meta[m].phase \notin Planning
      BY <1>1 DEF Checkpoints, Planning
    <2> QED
      BY <2>1, <2>2 DEF IInv, TypeOK, RemediationHasCause, OverlaysExclusive,
         LegacyFieldsAgree, CompletionIsVouched, VouchedWorkWasExecuted, OpenFindings
  <1> QED
    BY <1>2, <1>3

\* A command of the finding registry on milestone m: the metadata of the other
\* milestones and the two registers of vouched work stay as they are.
LEMMA FindingCommandInv ==
    ASSUME IInv, NEW m \in Milestones, TypeOK', UNCHANGED <<tracks, passed, waived>>,
           \A n \in Milestones \ {m} : meta'[n] = meta[n] /\ open'[n] = open[n],
           MetaOK(meta'[m]),
           meta'[m].phase = "remediation"
             => open'[m]["self"] \cup open'[m]["external"] # {},
           "complete" \in {meta'[m].phase, meta'[m].pre}
             => "complete" \in {meta[m].phase, meta[m].pre},
           meta'[m].phase \in Planning => meta[m].phase \in Planning
    PROVE  IInv'
  <1>1. ASSUME NEW n \in Milestones
        PROVE  /\ MetaOK(meta'[n])
               /\ meta'[n].phase = "remediation"
                    => open'[n]["self"] \cup open'[n]["external"] # {}
               /\ "complete" \in {meta'[n].phase, meta'[n].pre}
                    => n \in passed' \cup waived'
               /\ n \in passed' \cup waived' => meta'[n].phase \notin Planning
    <2>1. CASE n = m
      BY <2>1 DEF IInv, CompletionIsVouched, VouchedWorkWasExecuted
    <2>2. CASE n # m
      <3>1. meta'[n] = meta[n] /\ open'[n] = open[n] /\ MetaOK(meta[n])
        BY <2>2, InvMetaOK
      <3> QED
        BY <3>1 DEF IInv, RemediationHasCause, OpenFindings, CompletionIsVouched,
               VouchedWorkWasExecuted
    <2> QED
      BY <2>1, <2>2
  <1> QED
    BY <1>1, InvFromParts

LEMMA AddFindingInv ==
    ASSUME IInv, NEW m \in Milestones, NEW f \in Findings, NEW p \in FindingPhases,
           AddFinding(m, f, p)
    PROVE  IInv'
  <1>1. meta[m] \in Metas /\ MetaOK(meta[m])
    BY InvMetaOK
  <1>2. /\ open' = [open EXCEPT ![m][p] = @ \cup {f}]
        /\ open' \in [Milestones -> [FindingPhases -> SUBSET Findings]]
        /\ \A n \in Milestones \ {m} : open'[n] = open[n]
        /\ f \in open'[m][p]
    BY DEF AddFinding, IInv, TypeOK
  <1>3. open'[m]["self"] \cup open'[m]["external"] # {}
    BY <1>2 DEF FindingPhases
  <1>4. CASE meta[m].phase \in Checkpoints
    <2>1. ApplyTransition(m, "EnterRemediation") /\ "EnterRemediation" \in Events
      BY <1>4 DEF AddFinding, Events
    <2>2. /\ Accepts(meta[m], "EnterRemediation")
          /\ After(meta[m], "EnterRemediation") \in Metas
          /\ MetaOK(After(meta[m], "EnterRemediation"))
      BY <1>1, <2>1, AfterType, AfterOK DEF ApplyTransition
    <2>3. /\ meta'[m] = After(meta[m], "EnterRemediation")
          /\ \A n \in Milestones \ {m} : meta'[n] = meta[n]
          /\ meta' \in [Milestones -> Metas]
      BY <2>1, <2>2 DEF ApplyTransition, IInv, TypeOK
    <2>4. TypeOK'
      BY <1>2, <2>3 DEF AddFinding, IInv, TypeOK
    <2>5. "complete" \in {meta'[m].phase, meta'[m].pre}
            => "complete" \in {meta[m].phase, meta[m].pre}
      BY <1>1, <2>1, <2>2, <2>3, AfterDelivered
    <2>6. meta'[m].phase \in Planning => meta[m].phase \in Planning
      BY <1>1, <2>1, <2>2, <2>3, AfterPlanning
    <2> QED
      BY <1>2, <1>3, <2>2, <2>3, <2>4, <2>5, <2>6, FindingCommandInv DEF AddFinding
  <1>5. CASE meta[m].phase \notin Checkpoints
    <2>1. meta' = meta /\ TypeOK'
      BY <1>2, <1>5 DEF AddFinding, IInv, TypeOK
    <2> QED
      BY <1>1, <1>2, <1>3, <2>1, FindingCommandInv DEF AddFinding
  <1> QED
    BY <1>4, <1>5

LEMMA ResolveFindingsInv ==
    ASSUME IInv, NEW m \in Milestones, NEW fs \in SUBSET Findings,
           ResolveFindings(m, fs)
    PROVE  IInv'
  <1>1. meta[m] \in Metas /\ MetaOK(meta[m])
    BY InvMetaOK
  <1>2. /\ open' \in [Milestones -> [FindingPhases -> SUBSET Findings]]
        /\ \A n \in Milestones \ {m} : open'[n] = open[n]
        /\ \A p \in FindingPhases : open'[m][p] = open[m][p] \ fs
    BY DEF ResolveFindings, IInv, TypeOK
  <1>3. open'[m]["self"] \cup open'[m]["external"] = OpenFindings(m) \ fs
    BY <1>2 DEF FindingPhases, OpenFindings
  <1>4. CASE LeavesRemediation(m, fs)
    <2>1. ApplyTransition(m, "ExitRemediation") /\ "ExitRemediation" \in Events
      BY <1>4 DEF ResolveFindings, Events
    <2>2. /\ Accepts(meta[m], "ExitRemediation")
          /\ After(meta[m], "ExitRemediation") \in Metas
          /\ MetaOK(After(meta[m], "ExitRemediation"))
      BY <1>1, <2>1, AfterType, AfterOK DEF ApplyTransition
    <2>3. /\ meta'[m] = After(meta[m], "ExitRemediation")
          /\ \A n \in Milestones \ {m} : meta'[n] = meta[n]
          /\ meta' \in [Milestones -> Metas]
      BY <2>1, <2>2 DEF ApplyTransition, IInv, TypeOK
    <2>4. TypeOK'
      BY <1>2, <2>3 DEF ResolveFindings, IInv, TypeOK
    <2>5. meta'[m].phase # "remediation"
      BY <1>1, <2>2, <2>3, <2>1, AfterRemediation DEF Accepts, Checkpoints
    <2>6. "complete" \in {meta'[m].phase, meta'[m].pre}
            => "complete" \in {meta[m].phase, meta[m].pre}
      BY <1>1, <2>1, <2>2, <2>3, AfterDelivered
    <2>7. meta'[m].phase \in Planning => meta[m].phase \in Planning
      BY <1>1, <2>1, <2>2, <2>3, AfterPlanning
    <2> QED
      BY <1>2, <2>2, <2>3, <2>4, <2>5, <2>6, <2>7, FindingCommandInv
      DEF ResolveFindings
  <1>5. CASE ~LeavesRemediation(m, fs)
    <2>1. meta' = meta /\ TypeOK'
      BY <1>2, <1>5 DEF ResolveFindings, IInv, TypeOK
    <2>2. meta'[m].phase = "remediation"
            => open'[m]["self"] \cup open'[m]["external"] # {}
      BY <1>3, <1>5, <2>1 DEF LeavesRemediation
    <2> QED
      BY <1>1, <1>2, <2>1, <2>2, FindingCommandInv DEF ResolveFindings
  <1> QED
    BY <1>4, <1>5

LEMMA ResolveCommandInv ==
    ASSUME IInv, NEW m \in Milestones,
           (\E f \in Findings : ResolveFinding(m, f)) \/ ResolveAllOpenFindings(m)
    PROVE  IInv'
  <1>1. OpenFindings(m) \in SUBSET Findings
    BY DEF IInv, TypeOK, OpenFindings, FindingPhases
  <1>2. PICK fs \in SUBSET Findings : ResolveFindings(m, fs)
    BY <1>1 DEF ResolveFinding, ResolveAllOpenFindings
  <1> QED
    BY <1>2, ResolveFindingsInv

-----------------------------------------------------------------------------
\* Every command keeps the invariant.
THEOREM NextKeepsInv == IInv /\ [Next]_vars => IInv'
  <1> SUFFICES ASSUME IInv, [Next]_vars PROVE IInv'
    OBVIOUS
  <1>1. CASE UNCHANGED vars
    BY <1>1 DEF vars, IInv, TypeOK, RemediationHasCause, OverlaysExclusive,
         LegacyFieldsAgree, CompletionIsVouched, VouchedWorkWasExecuted, OpenFindings
  <1>2. ASSUME NEW m \in Milestones, MilestoneCommand(m) PROVE IInv'
    <2>1. CASE \E status \in DOMAIN SpecStatusEvents : SetSpecStatus(m, status)
      BY <2>1, SetSpecStatusInv
    <2>2. CASE \E status \in ExecStatuses : SetStatus(m, status)
      BY <2>2, SetStatusInv
    <2>3. CASE Block(m) \/ Unblock(m) \/ Defer(m) \/ Reopen(m)
      BY <2>3, OverlayCommandInv
    <2>4. CASE \E skipReview \in BOOLEAN : CompleteMilestone(m, skipReview)
      BY <2>4, CompleteMilestoneInv
    <2>5. CASE UpdateChangeKind(m)
      BY <2>5, UpdateChangeKindInv
    <2> QED
      BY <1>2, <2>1, <2>2, <2>3, <2>4, <2>5 DEF MilestoneCommand
  <1>3. ASSUME NEW m \in Milestones, ReviewCommand(m) PROVE IInv'
    <2>1. CASE RecordReviewPass(m)
      BY <2>1, RecordReviewPassInv
    <2>2. CASE \E f \in Findings, p \in FindingPhases : AddFinding(m, f, p)
      BY <2>2, AddFindingInv
    <2>3. CASE (\E f \in Findings : ResolveFinding(m, f)) \/ ResolveAllOpenFindings(m)
      BY <2>3, ResolveCommandInv
    <2> QED
      BY <1>3, <2>1, <2>2, <2>3 DEF ReviewCommand
  <1> QED
    BY <1>1, <1>2, <1>3 DEF Next

THEOREM Invariance == Spec => []IInv
  BY InitInv, NextKeepsInv, PTL DEF Spec

\* The state is always of its type.
THEOREM TypeCorrect == Spec => []TypeOK
  BY Invariance, PTL DEF IInv

\* Remediation always has a finding to resolve and a phase to return to.
THEOREM RemediationHasCauseHolds == Spec => []RemediationHasCause
  BY Invariance, PTL DEF IInv

\* The stored legacy fields are always the projection of the lifecycle.
THEOREM LegacyFieldsAgreeHolds == Spec => []LegacyFieldsAgree
  BY Invariance, PTL DEF IInv

\* The flags exclude each other and delivered work is never cancelled.
THEOREM OverlaysExclusiveHolds == Spec => []OverlaysExclusive
  BY Invariance, PTL DEF IInv

\* Work that somebody vouched for is past planning and stays there.
THEOREM VouchedWorkWasExecutedHolds == Spec => []VouchedWorkWasExecuted
  BY Invariance, PTL DEF IInv

\* Nothing is ever complete, or restored to complete, without a voucher.
THEOREM CompletionIsVouchedHolds == Spec => []CompletionIsVouched
  BY Invariance, PTL DEF IInv

-----------------------------------------------------------------------------
(***************************************************************************)
(* What a single step does to one milestone, the action properties that    *)
(* follow, and the proof that MilestoneReview implements Delivery.         *)
(***************************************************************************)

\* Milestone n goes through one event of the transition table, and through the
\* exit of remediation only when nothing is left open.
TakesEvent(n, e) ==
    /\ Accepts(meta[n], e)
    /\ meta'[n] = After(meta[n], e)
    /\ e = "ExitRemediation" => open'[n]["self"] \cup open'[n]["external"] = {}

\* Whatever the command, a milestone keeps its metadata or takes one event, and
\* a review row is added for unflagged finished work only.
LEMMA StepOfMilestone ==
    ASSUME TypeOK, [Next]_vars, NEW n \in Milestones
    PROVE  /\ meta'[n] = meta[n] \/ \E e \in Events : TakesEvent(n, e)
           /\ n \in passed' \ passed => EffectiveExec(meta[n]) = "done"
           /\ passed \subseteq passed'
  <1>1. ASSUME NEW m \in Milestones, NEW e \in Events, ApplyTransition(m, e),
               m = n /\ e = "ExitRemediation"
                 => open'[n]["self"] \cup open'[n]["external"] = {}
        PROVE  meta'[n] = meta[n] \/ \E d \in Events : TakesEvent(n, d)
    BY <1>1 DEF ApplyTransition, TakesEvent, TypeOK
  <1>2. CASE UNCHANGED vars
    BY <1>2 DEF vars
  <1>3. ASSUME NEW m \in Milestones, MilestoneCommand(m)
        PROVE  /\ meta'[n] = meta[n] \/ \E e \in Events : TakesEvent(n, e)
               /\ passed' = passed
    <2>1. CASE UpdateChangeKind(m)
      BY <2>1 DEF UpdateChangeKind
    <2>2. CASE \E status \in DOMAIN SpecStatusEvents : SetSpecStatus(m, status)
      <3>1. PICK status \in DOMAIN SpecStatusEvents : SetSpecStatus(m, status)
        BY <2>2
      <3>2. SpecStatusEvents[status] \in Events \ {"ExitRemediation"}
        BY DEF SpecStatusEvents, Events
      <3> QED
        BY <1>1, <3>1, <3>2 DEF SetSpecStatus
    <2>3. CASE \E status \in ExecStatuses : SetStatus(m, status)
      <3>1. PICK status \in ExecStatuses : SetStatus(m, status)
        BY <2>3
      <3>2. ExecStatusEvent(m, status) \in Events \ {"ExitRemediation"}
        BY DEF ExecStatusEvent, ExecStatuses, Events
      <3> QED
        BY <1>1, <3>1, <3>2 DEF SetStatus
    <2>4. CASE Block(m) \/ Unblock(m) \/ Defer(m) \/ Reopen(m)
      BY <1>1, <2>4 DEF Block, Unblock, Defer, Reopen, Events
    <2>5. CASE \E skipReview \in BOOLEAN : CompleteMilestone(m, skipReview)
      BY <1>1, <2>5 DEF CompleteMilestone, Events
    <2> QED
      BY <1>3, <2>1, <2>2, <2>3, <2>4, <2>5 DEF MilestoneCommand
  <1>4. ASSUME NEW m \in Milestones, ReviewCommand(m)
        PROVE  /\ meta'[n] = meta[n] \/ \E e \in Events : TakesEvent(n, e)
               /\ n \in passed' \ passed => EffectiveExec(meta[n]) = "done"
               /\ passed \subseteq passed'
    <2>1. CASE RecordReviewPass(m)
      BY <1>1, <2>1 DEF RecordReviewPass, Events
    <2>2. CASE \E f \in Findings, p \in FindingPhases : AddFinding(m, f, p)
      BY <1>1, <2>2 DEF AddFinding, Events
    <2>3. CASE (\E f \in Findings : ResolveFinding(m, f)) \/ ResolveAllOpenFindings(m)
      <3>1. OpenFindings(m) \in SUBSET Findings
        BY DEF TypeOK, OpenFindings, FindingPhases
      <3>2. PICK fs \in SUBSET Findings : ResolveFindings(m, fs)
        BY <2>3, <3>1 DEF ResolveFinding, ResolveAllOpenFindings
      <3>3. CASE LeavesRemediation(m, fs)
        <4>1. open'[m]["self"] \cup open'[m]["external"] = {}
          BY <3>2, <3>3 DEF LeavesRemediation, OpenFindings, ResolveFindings,
                 FindingPhases, TypeOK
        <4> QED
          BY <1>1, <3>2, <3>3, <4>1 DEF ResolveFindings, Events
      <3>4. CASE ~LeavesRemediation(m, fs)
        BY <3>2, <3>4 DEF ResolveFindings
      <3> QED
        BY <3>2, <3>3, <3>4 DEF ResolveFindings
    <2> QED
      BY <1>4, <2>1, <2>2, <2>3 DEF ReviewCommand
  <1> QED
    BY <1>2, <1>3, <1>4 DEF Next

\* Remediation ends with nothing open, in the phase captured when it began.
THEOREM RemediationRestoresHolds == Spec => RemediationRestores
  <1>1. ASSUME IInv, [Next]_vars, NEW m \in Milestones,
               meta[m].phase = "remediation", meta'[m].phase # "remediation"
        PROVE  /\ meta'[m].phase = meta[m].pre
               /\ open'[m]["self"] \cup open'[m]["external"] = {}
    <2>1. meta[m] \in Metas
      BY <1>1, InvMetaOK
    <2>2. PICK e \in Events : TakesEvent(m, e)
      BY <1>1, StepOfMilestone DEF IInv
    <2>3. e = "ExitRemediation"
      BY <1>1, <2>1, <2>2, AfterRemediation DEF TakesEvent
    <2> QED
      BY <2>1, <2>2, <2>3, AfterRemediation DEF TakesEvent
  <1>2. IInv /\ [Next]_vars =>
          [\A m \in Milestones :
             meta[m].phase = "remediation" /\ meta'[m].phase # "remediation"
               => /\ meta'[m].phase = meta[m].pre
                  /\ open'[m]["self"] \cup open'[m]["external"] = {}]_vars
    BY <1>1
  <1> QED
    BY <1>2, Invariance, PTL DEF Spec, RemediationRestores

\* A cancelled milestone is never moved, flagged, unflagged or vouched for.
THEOREM CancelledIsFinalHolds == Spec => CancelledIsFinal
  <1>1. ASSUME IInv, [Next]_vars, NEW m \in Milestones,
               "cancelled" \in meta[m].overlays
        PROVE  meta'[m] = meta[m] /\ (m \in passed' <=> m \in passed)
    <2>1. meta[m] \in Metas /\ MetaOK(meta[m])
      BY <1>1, InvMetaOK
    <2>2. ASSUME NEW e \in Events, TakesEvent(m, e) PROVE FALSE
      BY <1>1, <2>1, <2>2 DEF TakesEvent, Accepts, MetaOK, OverlaysOK
    <2>3. EffectiveExec(meta[m]) # "done"
      BY <1>1, <2>1, DoneMeansExecuted
    <2>4. meta'[m] = meta[m]
      BY <1>1, <2>2, StepOfMilestone DEF IInv
    <2> QED
      BY <1>1, <2>3, <2>4, StepOfMilestone DEF IInv
  <1>2. IInv /\ [Next]_vars =>
          [\A m \in Milestones :
             "cancelled" \in meta[m].overlays
               => meta'[m] = meta[m] /\ (m \in passed' <=> m \in passed)]_vars
    BY <1>1
  <1> QED
    BY <1>2, Invariance, PTL DEF Spec, CancelledIsFinal

-----------------------------------------------------------------------------
(***************************************************************************)
(* The refinement.  A command is one event on one milestone; the event     *)
(* fixes the step of Delivery that it is.                                  *)
(***************************************************************************)
Vouched == passed \cup waived

\* What the mapping needs of a record: one flag at most, and a captured phase in
\* remediation only.
Mappable(s) ==
    /\ OverlaysOK(s)
    /\ s.pre # NoPhase => s.phase = "remediation" /\ s.pre \in Checkpoints

\* What an event on milestone m does to the mapped state.
LEMMA MappedEvent ==
    ASSUME meta \in [Milestones -> Metas], NEW m \in Milestones, Mappable(meta[m]),
           NEW e \in Events, ApplyTransition(m, e)
    PROVE  /\ StageMap' = [StageMap EXCEPT ![m] = Stage(NextPhase(meta[m], e))]
           /\ OriginMap' = [OriginMap EXCEPT ![m] = Origin(NextPre(meta[m], e))]
           /\ Dropped' = IF e = "Cancel" THEN Dropped \cup {m} ELSE Dropped
           /\ StageMap[m] = Stage(meta[m].phase)
           /\ OriginMap[m] = Origin(meta[m].pre)
           /\ m \notin Dropped
  <1>1. /\ meta[m] \in Metas /\ Accepts(meta[m], e)
        /\ meta' = [meta EXCEPT ![m] = After(meta[m], e)]
    BY DEF ApplyTransition
  <1>2. /\ meta'[m].phase = NextPhase(meta[m], e)
        /\ meta'[m].pre = NextPre(meta[m], e)
        /\ meta'[m].overlays = NextOverlays(meta[m], e)
        /\ \A n \in Milestones \ {m} : meta'[n] = meta[n]
    BY <1>1 DEF After
  <1>3. "cancelled" \in NextOverlays(meta[m], e)
          <=> e = "Cancel" \/ "cancelled" \in meta[m].overlays
    BY DEF NextOverlays, Events
  <1>4. "cancelled" \notin meta[m].overlays
    BY <1>1 DEF Accepts, Mappable, OverlaysOK
  <1>5. StageMap' = [StageMap EXCEPT ![m] = Stage(NextPhase(meta[m], e))]
    BY <1>2 DEF StageMap
  <1>6. OriginMap' = [OriginMap EXCEPT ![m] = Origin(NextPre(meta[m], e))]
    BY <1>2 DEF OriginMap
  <1>7. Dropped' = IF e = "Cancel" THEN Dropped \cup {m} ELSE Dropped
    BY <1>2, <1>3 DEF Dropped
  <1> QED
    BY <1>4, <1>5, <1>6, <1>7 DEF StageMap, OriginMap, Dropped

\* The mapping is onto functions, so setting a value to itself changes nothing.
LEMMA MappedSelf ==
    ASSUME NEW m \in Milestones
    PROVE  /\ [StageMap EXCEPT ![m] = StageMap[m]] = StageMap
           /\ [OriginMap EXCEPT ![m] = OriginMap[m]] = OriginMap
  BY DEF StageMap, OriginMap

\* An event that does not vouch for anything, or the completion of work that
\* somebody vouches for, is a step of Delivery or a stutter.
LEMMA EventRefines ==
    ASSUME meta \in [Milestones -> Metas], NEW m \in Milestones, Mappable(meta[m]),
           NEW e \in Events, ApplyTransition(m, e),
           Vouched' \in {Vouched, Vouched \cup {m}},
           IF e = "Complete" THEN m \in Vouched' ELSE Vouched' = Vouched
    PROVE  [Promise!Next]_(Promise!vars)
  <1> DEFINE s == meta[m]
  <1>1. s \in Metas /\ Mappable(s) /\ Accepts(s, e)
    BY DEF ApplyTransition
  <1>2. CASE e \in {"Sync", "Groom", "Approve", "Block", "Unblock", "Defer", "Resume"}
    <2>1. Stage(NextPhase(s, e)) = Stage(s.phase) /\ NextPre(s, e) = s.pre
      BY <1>1, <1>2 DEF Stage, NextPhase, NextPre, Accepts, Sources, Events, Planning
    <2> QED
      BY <1>2, <2>1, MappedEvent, MappedSelf DEF Promise!vars, Vouched
  <1>3. CASE e \in {"Start", "Reopen", "FinishExecution"}
    <2> DEFINE to == IF e = "FinishExecution" THEN "finished" ELSE "active"
    <2>1. Stage(NextPhase(s, e)) = to /\ NextPre(s, e) = s.pre
      BY <1>1, <1>3 DEF Stage, NextPhase, NextPre, Accepts, Sources, Events,
             Planning, Checkpoints, Mappable
    <2>2. \/ /\ Stage(s.phase) \in {"planned", "active"}
             /\ to \in {"active", "finished"}
          \/ Stage(s.phase) \in {"finished", "delivered"} /\ to = "active"
          \/ Stage(s.phase) = to
      BY <1>1, <1>3 DEF Stage, Accepts, Sources, Planning, Checkpoints
    <2>3. CASE Stage(s.phase) = to
      BY <1>3, <2>1, <2>3, MappedEvent, MappedSelf DEF Promise!vars, Vouched
    <2>4. CASE Stage(s.phase) # to
      <3>1. Promise!Work(m, to)
        BY <1>3, <2>1, <2>2, <2>4, MappedEvent, MappedSelf DEF Promise!Work, Vouched
      <3> QED
        BY <3>1, MappedEvent DEF Promise!Next
    <2> QED
      BY <2>3, <2>4
  <1>4. CASE e = "Complete"
    <2>1. Stage(NextPhase(s, e)) = "delivered" /\ NextPre(s, e) = s.pre
      BY <1>4 DEF Stage, NextPhase, NextPre, Events, Planning
    <2>2. Stage(s.phase) \in {"planned", "active", "finished", "delivered"}
      BY <1>1, <1>4 DEF Stage, Accepts, Sources, Planning, Checkpoints
    <2>3. CASE Stage(s.phase) = "delivered"
      <3>1. Promise!Vouch(m)
        BY <1>4, <2>1, <2>3, MappedEvent, MappedSelf DEF Promise!Vouch, Vouched
      <3> QED
        BY <3>1, MappedEvent DEF Promise!Next
    <2>4. CASE Stage(s.phase) # "delivered"
      <3>1. Promise!Deliver(m)
        BY <1>4, <2>1, <2>2, <2>4, MappedEvent, MappedSelf DEF Promise!Deliver, Vouched
      <3> QED
        BY <3>1, MappedEvent DEF Promise!Next
    <2> QED
      BY <2>3, <2>4
  <1>5. CASE e = "Cancel"
    <2>1. /\ NextPhase(s, e) = s.phase /\ NextPre(s, e) = s.pre
          /\ Stage(s.phase) # "delivered"
      BY <1>1, <1>5 DEF Stage, NextPhase, NextPre, Accepts, Sources, Events,
             Metas, Phases, Planning, Checkpoints
    <2>2. Promise!Abandon(m)
      BY <1>5, <2>1, MappedEvent, MappedSelf DEF Promise!Abandon, Vouched
    <2> QED
      BY <2>2, MappedEvent DEF Promise!Next
  <1>6. CASE e = "EnterRemediation"
    <2>1. /\ Stage(NextPhase(s, e)) = "rework"
          /\ Origin(NextPre(s, e)) = Stage(s.phase)
          /\ Stage(s.phase) \in {"finished", "delivered"}
      BY <1>1, <1>6 DEF Stage, Origin, NextPhase, NextPre, Accepts, Sources,
             Planning, Checkpoints, NoPhase
    <2>2. Promise!SendBack(m)
      BY <1>6, <2>1, MappedEvent DEF Promise!SendBack, Vouched
    <2> QED
      BY <2>2, MappedEvent DEF Promise!Next
  <1>7. CASE e = "ExitRemediation"
    <2>1. /\ Stage(s.phase) = "rework"
          /\ Stage(NextPhase(s, e)) = Origin(s.pre)
          /\ Origin(NextPre(s, e)) = "nowhere"
      BY <1>1, <1>7 DEF Stage, Origin, NextPhase, NextPre, Accepts, Sources,
             Planning, Checkpoints, NoPhase
    <2>2. Promise!Restore(m)
      BY <1>7, <2>1, MappedEvent DEF Promise!Restore, Promise!Nowhere, Vouched
    <2> QED
      BY <2>2, MappedEvent DEF Promise!Next
  <1> QED
    BY <1>2, <1>3, <1>4, <1>5, <1>6, <1>7 DEF Events

LEMMA MilestoneCommandRefines ==
    ASSUME meta \in [Milestones -> Metas], NEW m \in Milestones, Mappable(meta[m]),
           EffectiveSpec(meta[m]) = "verified" => m \in Vouched,
           MilestoneCommand(m)
    PROVE  [Promise!Next]_(Promise!vars)
  <1>1. CASE UpdateChangeKind(m)
    BY <1>1 DEF UpdateChangeKind, Promise!vars, StageMap, OriginMap, Dropped
  <1>2. CASE \E status \in DOMAIN SpecStatusEvents : SetSpecStatus(m, status)
    <2>1. PICK status \in DOMAIN SpecStatusEvents : SetSpecStatus(m, status)
      BY <1>2
    <2>2. SpecStatusEvents[status] \in Events \ {"Complete"}
      BY DEF SpecStatusEvents, Events
    <2> QED
      BY <2>1, <2>2, EventRefines DEF SetSpecStatus, Vouched
  <1>3. CASE \E status \in ExecStatuses : SetStatus(m, status)
    <2>1. PICK status \in ExecStatuses : SetStatus(m, status)
      BY <1>3
    <2>2. /\ ExecStatusEvent(m, status) \in Events
          /\ ExecStatusEvent(m, status) = "Complete" => status = "done"
      BY DEF ExecStatusEvent, ExecStatuses, Events
    <2>3. status = "done" => m \in Vouched
      BY <2>1 DEF SetStatus
    <2> QED
      BY <2>1, <2>2, <2>3, EventRefines DEF SetStatus, Vouched
  <1>4. CASE Block(m) \/ Unblock(m) \/ Defer(m) \/ Reopen(m)
    BY <1>4, EventRefines DEF Block, Unblock, Defer, Reopen, Events, Vouched
  <1>5. CASE \E skipReview \in BOOLEAN : CompleteMilestone(m, skipReview)
    <2>1. PICK skipReview \in BOOLEAN : CompleteMilestone(m, skipReview)
      BY <1>5
    <2>2. CASE PromotesToComplete(m, skipReview)
      <3>1. ApplyTransition(m, "Complete") /\ "Complete" \in Events
        BY <2>1, <2>2 DEF CompleteMilestone, Events
      <3>2. Vouched' \in {Vouched, Vouched \cup {m}} /\ m \in Vouched'
        BY <2>1, <2>2 DEF CompleteMilestone, PromotesToComplete, Vouched
      <3> QED
        BY <3>1, <3>2, EventRefines
    <2>3. CASE ~PromotesToComplete(m, skipReview)
      <3>1. ApplyTransition(m, "FinishExecution") /\ "FinishExecution" \in Events
        BY <2>1, <2>3 DEF CompleteMilestone, Events
      <3>2. Vouched' = Vouched
        BY <2>1, <2>3 DEF CompleteMilestone, PromotesToComplete, Vouched
      <3> QED
        BY <3>1, <3>2, EventRefines
    <2> QED
      BY <2>2, <2>3
  <1> QED
    BY <1>1, <1>2, <1>3, <1>4, <1>5 DEF MilestoneCommand

\* A review that passes finished work vouches for it.
LEMMA ReviewPassRefines ==
    ASSUME meta \in [Milestones -> Metas], NEW m \in Milestones, Mappable(meta[m]),
           meta[m].phase \in Checkpoints, m \notin Dropped, RecordReviewPass(m)
    PROVE  [Promise!Next]_(Promise!vars)
  <1>1. Vouched' = Vouched \cup {m}
    BY DEF RecordReviewPass, Vouched
  <1>2. CASE PromotedByReview(m)
    BY <1>1, <1>2, EventRefines DEF RecordReviewPass, Events
  <1>3. CASE ~PromotedByReview(m)
    <2>1. StageMap[m] \in {"finished", "delivered"}
      BY DEF StageMap, Stage, Planning, Checkpoints
    <2>2. UNCHANGED <<StageMap, OriginMap, Dropped>>
      BY <1>3 DEF RecordReviewPass, StageMap, OriginMap, Dropped
    <2>3. Promise!Vouch(m)
      BY <1>1, <2>1, <2>2 DEF Promise!Vouch, Vouched
    <2> QED
      BY <2>3 DEF Promise!Next
  <1> QED
    BY <1>2, <1>3

\* The commands on findings send work back, restore it, or change no stage.
LEMMA FindingCommandRefines ==
    ASSUME meta \in [Milestones -> Metas], NEW m \in Milestones, Mappable(meta[m]),
           ReviewCommand(m), ~RecordReviewPass(m)
    PROVE  [Promise!Next]_(Promise!vars)
  <1>1. CASE \E f \in Findings, p \in FindingPhases : AddFinding(m, f, p)
    <2>1. CASE ApplyTransition(m, "EnterRemediation")
      BY <1>1, <2>1, EventRefines DEF AddFinding, Events, Vouched
    <2>2. CASE ~ApplyTransition(m, "EnterRemediation")
      BY <1>1, <2>2 DEF AddFinding, Promise!vars, StageMap, OriginMap, Dropped
    <2> QED
      BY <2>1, <2>2
  <1>2. CASE (\E f \in Findings : ResolveFinding(m, f)) \/ ResolveAllOpenFindings(m)
    <2>1. PICK fs : ResolveFindings(m, fs)
      BY <1>2 DEF ResolveFinding, ResolveAllOpenFindings
    <2>2. CASE ApplyTransition(m, "ExitRemediation")
      BY <2>1, <2>2, EventRefines DEF ResolveFindings, Events, Vouched
    <2>3. CASE ~ApplyTransition(m, "ExitRemediation")
      BY <2>1, <2>3 DEF ResolveFindings, Promise!vars, StageMap, OriginMap, Dropped
    <2> QED
      BY <2>2, <2>3
  <1> QED
    BY <1>1, <1>2 DEF ReviewCommand

\* In a state of the invariant every command is a step of Delivery or a stutter.
LEMMA CommandRefines ==
    ASSUME IInv, NEW m \in Milestones, MilestoneCommand(m) \/ ReviewCommand(m)
    PROVE  [Promise!Next]_(Promise!vars)
  <1>1. meta \in [Milestones -> Metas] /\ meta[m] \in Metas /\ MetaOK(meta[m])
    BY InvMetaOK DEF IInv, TypeOK
  <1>2. Mappable(meta[m])
    BY <1>1 DEF Mappable, MetaOK, CapturedOK, NoPhase
  <1>3. EffectiveSpec(meta[m]) = "verified" => m \in Vouched
    BY <1>1, VerifiedMeansComplete DEF IInv, CompletionIsVouched, Vouched
  <1>4. ASSUME RecordReviewPass(m)
        PROVE  meta[m].phase \in Checkpoints /\ m \notin Dropped
    BY <1>1, <1>4, DoneMeansExecuted DEF RecordReviewPass, Dropped
  <1> QED
    BY <1>1, <1>2, <1>3, <1>4, MilestoneCommandRefines, ReviewPassRefines,
       FindingCommandRefines

\* Every behaviour of the commands keeps the promise of Delivery.
THEOREM KeepsPromiseHolds == Spec => KeepsPromise
  <1>1. Init => Promise!Init
    BY DEF Init, NewMeta, Promise!Init, Promise!Nowhere, StageMap, OriginMap,
           Dropped, Stage, Origin, Planning
  <1>2. IInv /\ [Next]_vars => [Promise!Next]_(Promise!vars)
    <2>1. CASE UNCHANGED vars
      BY <2>1 DEF vars, Promise!vars, StageMap, OriginMap, Dropped
    <2> QED
      BY <2>1, CommandRefines DEF Next
  <1> QED
    BY <1>1, <1>2, Invariance, PTL DEF Spec, KeepsPromise, Promise!Spec

-----------------------------------------------------------------------------
(* The readers: MilestoneMigration, Lanes, WatchDrive *)

Emptied(s) == s.spec = Unset /\ s.exec = Unset

\* A phase that is still known was captured when the rework that is under way
\* began, and no migration has come since.
Recalls(s) ==
    s.pre # NoPhase => s.phase = "remediation" /\ s.pre \in Checkpoints /\ ~Emptied(s)

\* What is left of MetaOK once a migration may empty the legacy fields and
\* forget the captured phase.
RecordOK(s) == OverlaysOK(s) /\ Recalls(s) /\ (Emptied(s) \/ Projected(s))

OriginsAreRecalled == \A m \in Milestones : Recalls(meta[m])

\* The inductive invariant of MigratingSpec.  RemediationHasCause and
\* LegacyFieldsAgree, of which the invariant of Spec made use, are gone.
MigratingInv ==
    /\ TypeOK
    /\ OverlaysExclusive
    /\ StoredLegacyIsCurrent
    /\ OriginsAreRecalled
    /\ CompletionIsVouched
    /\ VouchedWorkWasExecuted

-----------------------------------------------------------------------------
(* Lemmas about one record. *)

LEMMA InvRecordOK ==
    ASSUME MigratingInv, NEW m \in Milestones
    PROVE  meta[m] \in Metas /\ RecordOK(meta[m])
  BY DEF MigratingInv, TypeOK, OverlaysExclusive, StoredLegacyIsCurrent,
         OriginsAreRecalled, RecordOK, OverlaysOK, Emptied, Projected

\* An accepted event leaves a record whose legacy fields are stored.
LEMMA AfterRecordOK ==
    ASSUME NEW s \in Metas, NEW e \in Events, Accepts(s, e), RecordOK(s)
    PROVE  After(s, e) \in Metas /\ RecordOK(After(s, e))
  <1>1. Projected(After(s, e))
    BY DEF Projected, After
  <1>2. After(s, e).spec # Unset
    BY AfterType DEF After, LegacySpec, Metas, Phases, Planning, Checkpoints, Unset
  <1>3. Recalls(After(s, e))
    <2>1. After(s, e).phase = NextPhase(s, e) /\ After(s, e).pre = NextPre(s, e)
      BY DEF After
    <2>2. NextPre(s, e) # NoPhase
            => NextPhase(s, e) = "remediation" /\ NextPre(s, e) \in Checkpoints
      BY DEF RecordOK, Recalls, NextPhase, NextPre, Accepts, Sources, Metas, Events,
             Phases, Planning, Checkpoints, NoPhase
    <2> QED
      BY <1>2, <2>1, <2>2 DEF Recalls, Emptied
  <1> QED
    BY <1>1, <1>3, AfterType, AfterOverlays DEF RecordOK

\* A gate that reads "verified" looks at complete work, stored or derived.
LEMMA VerifiedIsComplete ==
    ASSUME NEW s \in Metas, RecordOK(s), EffectiveSpec(s) = "verified"
    PROVE  s.phase = "complete"
  BY DEF RecordOK, Emptied, Projected, EffectiveSpec, LegacySpec, Unset, Metas,
         Phases, Planning, Checkpoints

\* A gate that reads "done" looks at work that has left planning.
LEMMA DoneIsPastPlanning ==
    ASSUME NEW s \in Metas, RecordOK(s), EffectiveExec(s) = "done"
    PROVE  s.phase \notin Planning
  <1>1. CASE Emptied(s)
    BY <1>1 DEF Emptied, EffectiveExec, Planning, Unset
  <1>2. CASE Projected(s)
    BY <1>2 DEF Projected, EffectiveExec, LegacyExec, PhaseExec, Unset, Metas, Phases,
           Planning, Checkpoints
  <1> QED
    BY <1>1, <1>2 DEF RecordOK

\* Migrating a record empties its legacy fields and its captured phase; the
\* flag in the legacy field is one the record already had.
LEMMA MigratedRecord ==
    ASSUME NEW s \in Metas, RecordOK(s)
    PROVE  /\ Migrated(s) \in Metas
           /\ Emptied(Migrated(s))
           /\ Migrated(s).phase = s.phase
           /\ Migrated(s).overlays = s.overlays
           /\ Migrated(s).pre = NoPhase
  <1>1. CASE Emptied(s)
    BY <1>1 DEF Migrated, Emptied, RecordOK, Recalls
  <1>2. CASE ~Emptied(s)
    <2>1. s.exec = LegacyExec(s.phase, s.overlays)
      BY <1>2 DEF RecordOK, Projected
    <2>2. {s.exec} \cap Overlays \subseteq s.overlays
      BY <2>1 DEF LegacyExec, PhaseExec, Overlays, Metas, Phases, Planning, Checkpoints
    <2>3. s.overlays \cup ({s.exec} \cap Overlays) = s.overlays
      BY <2>2
    <2>4. Migrated(s) = [s EXCEPT !.overlays = s.overlays, !.pre = NoPhase,
                                  !.spec = Unset, !.exec = Unset]
      BY <1>2, <2>3 DEF Migrated, Emptied
    <2> QED
      BY <2>4 DEF Metas, Emptied
  <1> QED
    BY <1>1, <1>2

-----------------------------------------------------------------------------
(* The invariant. *)

\* The invariant from what one command does to one milestone.
LEMMA MigratingInvFromParts ==
    ASSUME TypeOK',
           \A m \in Milestones :
               /\ RecordOK(meta'[m])
               /\ "complete" \in {meta'[m].phase, meta'[m].pre}
                    => m \in passed' \cup waived'
               /\ m \in passed' \cup waived' => meta'[m].phase \notin Planning
    PROVE  MigratingInv'
  BY DEF MigratingInv, TypeOK, OverlaysExclusive, StoredLegacyIsCurrent,
         OriginsAreRecalled, CompletionIsVouched, VouchedWorkWasExecuted, RecordOK,
         OverlaysOK, Emptied, Projected

\* A command that runs one event through the transition table, whatever it
\* does to the registers of findings.
LEMMA EventKeeps ==
    ASSUME MigratingInv, NEW m \in Milestones, NEW e \in Events,
           ApplyTransition(m, e),
           tracks' = tracks,
           open' \in [Milestones -> [FindingPhases -> SUBSET Findings]],
           passed' \in {passed, passed \cup {m}},
           waived' \in {waived, waived \cup {m}},
           e = "Complete" => m \in passed' \cup waived',
           m \in passed' \cup waived' => m \in passed \cup waived
                                         \/ e \in {"Complete", "FinishExecution"}
    PROVE  MigratingInv'
  <1>1. meta[m] \in Metas /\ RecordOK(meta[m]) /\ Accepts(meta[m], e)
    BY InvRecordOK DEF ApplyTransition
  <1>2. /\ meta' = [meta EXCEPT ![m] = After(meta[m], e)]
        /\ After(meta[m], e) \in Metas /\ RecordOK(After(meta[m], e))
    BY <1>1, AfterRecordOK DEF ApplyTransition
  <1>3. TypeOK'
    BY <1>2 DEF MigratingInv, TypeOK
  <1>4. ASSUME NEW n \in Milestones
        PROVE  /\ RecordOK(meta'[n])
               /\ "complete" \in {meta'[n].phase, meta'[n].pre}
                    => n \in passed' \cup waived'
               /\ n \in passed' \cup waived' => meta'[n].phase \notin Planning
    <2>1. CASE n # m
      <3>1. meta'[n] = meta[n] /\ RecordOK(meta[n])
        BY <1>2, <2>1, InvRecordOK DEF MigratingInv, TypeOK
      <3> QED
        BY <2>1, <3>1 DEF MigratingInv, CompletionIsVouched, VouchedWorkWasExecuted
    <2>2. CASE n = m
      <3>1. meta'[m] = After(meta[m], e)
        BY <1>2 DEF MigratingInv, TypeOK
      <3>2. "complete" \in {After(meta[m], e).phase, After(meta[m], e).pre}
              => m \in passed' \cup waived'
        BY <1>1, AfterDelivered DEF MigratingInv, CompletionIsVouched
      <3>3. m \in passed' \cup waived' => After(meta[m], e).phase \notin Planning
        BY <1>1, AfterPlanning DEF MigratingInv, VouchedWorkWasExecuted
      <3> QED
        BY <1>2, <2>2, <3>1, <3>2, <3>3
    <2> QED
      BY <2>1, <2>2
  <1> QED
    BY <1>3, <1>4, MigratingInvFromParts

\* A command that leaves the metadata alone and vouches for executed work only.
LEMMA RegisterKeeps ==
    ASSUME MigratingInv, NEW m \in Milestones, meta' = meta, tracks' \subseteq Milestones,
           open' \in [Milestones -> [FindingPhases -> SUBSET Findings]],
           waived' = waived,
           \/ passed' = passed
           \/ passed' = passed \cup {m} /\ meta[m].phase \notin Planning
    PROVE  MigratingInv'
  BY DEF MigratingInv, TypeOK, OverlaysExclusive, StoredLegacyIsCurrent,
         OriginsAreRecalled, CompletionIsVouched, VouchedWorkWasExecuted

LEMMA MilestoneCommandKeeps ==
    ASSUME MigratingInv, NEW m \in Milestones, MilestoneCommand(m)
    PROVE  MigratingInv'
  <1> USE DEF Events
  <1>0. /\ open \in [Milestones -> [FindingPhases -> SUBSET Findings]]
        /\ tracks \subseteq Milestones
    BY DEF MigratingInv, TypeOK
  <1>1. ASSUME NEW status \in DOMAIN SpecStatusEvents, SetSpecStatus(m, status)
        PROVE  MigratingInv'
    <2>1. SpecStatusEvents[status] \in {"Sync", "Groom", "Approve", "FinishExecution"}
      BY DEF SpecStatusEvents
    <2> QED
      BY <1>0, <1>1, <2>1, EventKeeps DEF SetSpecStatus
  <1>2. ASSUME NEW status \in ExecStatuses, SetStatus(m, status)
        PROVE  MigratingInv'
    <2>1. /\ ExecStatusEvent(m, status) \in Events
          /\ ExecStatusEvent(m, status) = "Complete" => status = "done"
      BY DEF ExecStatusEvent, ExecStatuses
    <2>2. status = "done" => m \in passed \cup waived
      BY <1>2, InvRecordOK, VerifiedIsComplete DEF SetStatus, MigratingInv, CompletionIsVouched
    <2> QED
      BY <1>0, <1>2, <2>1, <2>2, EventKeeps DEF SetStatus
  <1>3. CASE Block(m) \/ Unblock(m) \/ Defer(m) \/ Reopen(m)
    <2>1. PICK e \in {"Block", "Unblock", "Defer", "Reopen"} :
              ApplyTransition(m, e) /\ UNCHANGED <<tracks, open, passed, waived>>
      BY <1>3 DEF Block, Unblock, Defer, Reopen
    <2> QED
      BY <1>0, <2>1, EventKeeps
  <1>4. ASSUME NEW skipReview \in BOOLEAN, CompleteMilestone(m, skipReview)
        PROVE  MigratingInv'
    <2> DEFINE e == IF PromotesToComplete(m, skipReview)
                    THEN "Complete" ELSE "FinishExecution"
    <2>1. e \in Events /\ e \in {"Complete", "FinishExecution"}
      OBVIOUS
    <2>2. /\ ApplyTransition(m, e) /\ UNCHANGED <<tracks, open, passed>>
          /\ waived' \in {waived, waived \cup {m}}
      BY <1>4 DEF CompleteMilestone
    <2>3. e = "Complete" => m \in passed' \cup waived'
      BY <1>4, <2>2 DEF CompleteMilestone, PromotesToComplete
    <2> QED
      BY <1>0, <2>1, <2>2, <2>3, EventKeeps
  <1>5. CASE UpdateChangeKind(m)
    BY <1>0, <1>5, RegisterKeeps DEF UpdateChangeKind
  <1> QED
    BY <1>1, <1>2, <1>3, <1>4, <1>5 DEF MilestoneCommand

LEMMA ReviewCommandKeeps ==
    ASSUME MigratingInv, NEW m \in Milestones, ReviewCommand(m)
    PROVE  MigratingInv'
  <1> USE DEF Events
  <1>0. open \in [Milestones -> [FindingPhases -> SUBSET Findings]] /\ tracks \subseteq Milestones
    BY DEF MigratingInv, TypeOK
  <1>1. CASE RecordReviewPass(m)
    <2>1. meta[m].phase \notin Planning
      BY <1>1, InvRecordOK, DoneIsPastPlanning DEF RecordReviewPass
    <2>2. CASE PromotedByReview(m)
      BY <1>0, <1>1, <2>2, EventKeeps DEF RecordReviewPass
    <2>3. CASE ~PromotedByReview(m)
      BY <1>0, <1>1, <2>1, <2>3, RegisterKeeps DEF RecordReviewPass
    <2> QED
      BY <2>2, <2>3
  <1>2. ASSUME NEW f \in Findings, NEW p \in FindingPhases, AddFinding(m, f, p)
        PROVE  MigratingInv'
    <2>1. open' \in [Milestones -> [FindingPhases -> SUBSET Findings]]
      BY <1>0, <1>2 DEF AddFinding
    <2>2. CASE meta[m].phase \in Checkpoints
      BY <1>2, <2>1, <2>2, EventKeeps DEF AddFinding
    <2>3. CASE meta[m].phase \notin Checkpoints
      BY <1>0, <1>2, <2>1, <2>3, RegisterKeeps DEF AddFinding
    <2> QED
      BY <2>2, <2>3
  <1>3. ASSUME NEW fs, ResolveFindings(m, fs)
        PROVE  MigratingInv'
    <2>1. open' \in [Milestones -> [FindingPhases -> SUBSET Findings]]
      BY <1>0, <1>3 DEF ResolveFindings
    <2>2. CASE LeavesRemediation(m, fs)
      BY <1>3, <2>1, <2>2, EventKeeps DEF ResolveFindings
    <2>3. CASE ~LeavesRemediation(m, fs)
      BY <1>0, <1>3, <2>1, <2>3, RegisterKeeps DEF ResolveFindings
    <2> QED
      BY <2>2, <2>3
  <1> QED
    BY <1>1, <1>2, <1>3 DEF ReviewCommand, ResolveFinding, ResolveAllOpenFindings

LEMMA MigrateLifecycleKeeps ==
    ASSUME MigratingInv, MigrateLifecycle
    PROVE  MigratingInv'
  <1>1. \A m \in Milestones :
            /\ meta[m] \in Metas /\ RecordOK(meta[m])
            /\ meta'[m] = Migrated(meta[m])
    BY InvRecordOK DEF MigrateLifecycle
  <1>2. TypeOK'
    BY <1>1, MigratedRecord DEF MigrateLifecycle, MigratingInv, TypeOK
  <1>3. ASSUME NEW m \in Milestones
        PROVE  /\ RecordOK(meta'[m])
               /\ "complete" \in {meta'[m].phase, meta'[m].pre}
                    => m \in passed' \cup waived'
               /\ m \in passed' \cup waived' => meta'[m].phase \notin Planning
    <2>1. /\ Emptied(meta'[m])
          /\ meta'[m].phase = meta[m].phase /\ meta'[m].overlays = meta[m].overlays
          /\ meta'[m].pre = NoPhase
      BY <1>1, MigratedRecord
    <2>2. RecordOK(meta'[m])
      BY <1>1, <2>1 DEF RecordOK, OverlaysOK, Recalls
    <2> QED
      BY <2>1, <2>2 DEF MigrateLifecycle, MigratingInv, CompletionIsVouched,
             VouchedWorkWasExecuted, NoPhase
  <1> QED
    BY <1>2, <1>3, MigratingInvFromParts

\* Every command, the migration included, keeps the invariant.
THEOREM MigratingNextKeepsInv == MigratingInv /\ [MigratingNext]_vars => MigratingInv'
  <1> SUFFICES ASSUME MigratingInv, [MigratingNext]_vars PROVE MigratingInv'
    OBVIOUS
  <1>1. CASE UNCHANGED vars
    BY <1>1 DEF vars, MigratingInv, TypeOK, OverlaysExclusive, StoredLegacyIsCurrent,
           OriginsAreRecalled, CompletionIsVouched, VouchedWorkWasExecuted
  <1>2. CASE Next
    BY <1>2, MilestoneCommandKeeps, ReviewCommandKeeps DEF Next
  <1>3. CASE MigrateLifecycle
    BY <1>3, MigrateLifecycleKeeps
  <1> QED
    BY <1>1, <1>2, <1>3 DEF MigratingNext

THEOREM MigratingInvariance == MigratingSpec => []MigratingInv
  <1>1. Init => MigratingInv
    BY InitInv DEF Init, NewMeta, IInv, MigratingInv, LegacyFieldsAgree,
       StoredLegacyIsCurrent, OriginsAreRecalled, Recalls
  <1> QED
    BY <1>1, MigratingNextKeepsInv, PTL DEF MigratingSpec

-----------------------------------------------------------------------------
(* The properties of the migration. *)

\* Emptied or not, the legacy fields never contradict the lifecycle.
THEOREM StoredLegacyIsCurrentHolds == MigratingSpec => []StoredLegacyIsCurrent
  BY MigratingInvariance, PTL DEF MigratingInv

\* The flags exclude each other in a plan that is migrated at any time.
THEOREM MigrationKeepsOverlaysExclusive == MigratingSpec => []OverlaysExclusive
  BY MigratingInvariance, PTL DEF MigratingInv

\* A migration neither makes work complete nor takes its voucher away.
THEOREM MigrationKeepsVouchers ==
    MigratingSpec => [](CompletionIsVouched /\ VouchedWorkWasExecuted)
  BY MigratingInvariance, PTL DEF MigratingInv

\* A gate that reads "done" lets pass finished work, and rework whose origin a
\* migration made forgotten.
LEMMA DoneIsFinishedOrForgotten ==
    ASSUME NEW s \in Metas, RecordOK(s), EffectiveExec(s) = "done"
    PROVE  /\ "cancelled" \notin s.overlays
           /\ \/ s.phase \in Checkpoints
              \/ s.phase = "remediation" /\ s.pre = NoPhase
  <1>1. CASE Emptied(s)
    BY <1>1 DEF Emptied, EffectiveExec, RecordOK, Recalls, Metas, Phases, Planning,
           Checkpoints, Unset
  <1>2. CASE Projected(s)
    BY <1>2 DEF Projected, EffectiveExec, LegacyExec, PhaseExec, Unset, Metas, Phases,
           Planning, Checkpoints
  <1> QED
    BY <1>1, <1>2 DEF RecordOK

\* A command between migrations is a step of Delivery, or a review that passes
\* forgotten rework.
LEMMA MigratingCommandRefines ==
    ASSUME MigratingInv, NEW m \in Milestones, MilestoneCommand(m) \/ ReviewCommand(m)
    PROVE  [Promise!Next]_(Promise!vars) \/ VouchForStranded(m)
  <1>1. meta \in [Milestones -> Metas] /\ meta[m] \in Metas /\ RecordOK(meta[m])
    BY InvRecordOK DEF MigratingInv, TypeOK
  <1>2. Mappable(meta[m])
    BY <1>1 DEF Mappable, RecordOK, Recalls
  <1>3. EffectiveSpec(meta[m]) = "verified" => m \in Vouched
    BY <1>1, VerifiedIsComplete DEF MigratingInv, CompletionIsVouched, Vouched
  <1>4. CASE RecordReviewPass(m)
    <2>1. /\ m \notin Dropped
          /\ \/ meta[m].phase \in Checkpoints
             \/ meta[m].phase = "remediation" /\ meta[m].pre = NoPhase
      BY <1>1, <1>4, DoneIsFinishedOrForgotten DEF RecordReviewPass, Dropped
    <2>2. CASE meta[m].phase \in Checkpoints
      BY <1>1, <1>2, <1>4, <2>1, <2>2, ReviewPassRefines
    <2>3. CASE meta[m].phase = "remediation" /\ meta[m].pre = NoPhase
      <3>1. ~PromotedByReview(m)
        BY <2>3 DEF PromotedByReview
      <3>2. UNCHANGED <<StageMap, OriginMap, Dropped, waived>> /\ passed' = passed \cup {m}
        BY <1>4, <3>1 DEF RecordReviewPass, StageMap, OriginMap, Dropped
      <3>3. StageMap[m] = "rework" /\ OriginMap[m] = Promise!Nowhere
        BY <2>3 DEF StageMap, Stage, OriginMap, Origin, Promise!Nowhere, Planning
      <3> QED
        BY <2>1, <3>2, <3>3 DEF VouchForStranded
    <2> QED
      BY <2>1, <2>2, <2>3
  <1>5. CASE ~RecordReviewPass(m)
    BY <1>1, <1>2, <1>3, <1>5, MilestoneCommandRefines, FindingCommandRefines
  <1> QED
    BY <1>4, <1>5

\* What a reader of Delivery sees of a migration: the origins are gone.
LEMMA MigrationForgets ==
    ASSUME MigratingInv, MigrateLifecycle
    PROVE  ForgetOrigins
  <1>1. ASSUME NEW m \in Milestones
        PROVE  /\ meta'[m].phase = meta[m].phase
               /\ meta'[m].overlays = meta[m].overlays
               /\ meta'[m].pre = NoPhase
    BY InvRecordOK, MigratedRecord DEF MigrateLifecycle
  <1> QED
    BY <1>1 DEF ForgetOrigins, MigrateLifecycle, StageMap, OriginMap, Origin, Dropped,
       Promise!Nowhere

\* With migrations in between the promise of Delivery is kept, except that rework
\* under way at a migration is not restored and may be vouched for.
THEOREM KeepsPromiseButForReworkHolds == MigratingSpec => KeepsPromiseButForRework
  <1>1. Init => Promise!Init
    BY DEF Init, NewMeta, Promise!Init, Promise!Nowhere, StageMap, OriginMap,
           Dropped, Stage, Origin, Planning
  <1>2. MigratingInv /\ [MigratingNext]_vars =>
          [\/ UNCHANGED Promise!vars
           \/ ForgetOrigins
           \/ \E m \in Milestones : VouchForStranded(m)
           \/ Promise!Next]_vars
    BY MigratingCommandRefines, MigrationForgets DEF MigratingNext, Next
  <1> QED
    BY <1>1, <1>2, MigratingInvariance, PTL DEF MigratingSpec, KeepsPromiseButForRework

\* What a step does to a milestone in remediation: it leaves only with nothing
\* open and for the phase it remembers.
LEMMA ReworkStep ==
    ASSUME MigratingInv, [MigratingNext]_vars, NEW m \in Milestones,
           meta[m].phase = "remediation"
    PROVE  \/ meta'[m].phase = "remediation" /\ meta'[m].pre \in {meta[m].pre, NoPhase}
           \/ /\ meta[m].pre \in Checkpoints
              /\ meta'[m].phase = meta[m].pre
              /\ open'[m]["self"] \cup open'[m]["external"] = {}
  <1>1. meta[m] \in Metas /\ RecordOK(meta[m])
    BY InvRecordOK
  <1>2. CASE MigrateLifecycle
    BY <1>1, <1>2, MigratedRecord DEF MigrateLifecycle
  <1>3. CASE [Next]_vars
    <2>1. CASE meta'[m] = meta[m]
      BY <2>1
    <2>2. ASSUME NEW e \in Events, TakesEvent(m, e)
          PROVE  \/ /\ meta'[m].phase = "remediation"
                    /\ meta'[m].pre \in {meta[m].pre, NoPhase}
                 \/ /\ meta[m].pre \in Checkpoints
                    /\ meta'[m].phase = meta[m].pre
                    /\ open'[m]["self"] \cup open'[m]["external"] = {}
      <3>1. /\ Accepts(meta[m], e)
            /\ meta'[m].phase = NextPhase(meta[m], e)
            /\ meta'[m].pre = NextPre(meta[m], e)
        BY <2>2 DEF TakesEvent, After
      <3>2. CASE e = "ExitRemediation"
        BY <2>2, <3>1, <3>2 DEF TakesEvent, Accepts, NextPhase
      <3>3. CASE e # "ExitRemediation"
        BY <3>1, <3>3 DEF Accepts, Sources, NextPhase, NextPre, Events, Phases, Planning,
               Checkpoints
      <3> QED
        BY <3>2, <3>3
    <2> QED
      BY <1>3, <2>1, <2>2, StepOfMilestone DEF MigratingInv
  <1> QED
    BY <1>2, <1>3 DEF MigratingNext

\* Also with migrations in between remediation ends with nothing open, in the
\* phase captured when it began.
THEOREM RemediationRestoresAcrossMigrations == MigratingSpec => RemediationRestores
  <1>1. MigratingInv /\ [MigratingNext]_vars =>
          [\A m \in Milestones :
             meta[m].phase = "remediation" /\ meta'[m].phase # "remediation"
               => /\ meta'[m].phase = meta[m].pre
                  /\ open'[m]["self"] \cup open'[m]["external"] = {}]_vars
    BY ReworkStep
  <1> QED
    BY <1>1, MigratingInvariance, PTL DEF MigratingSpec, RemediationRestores

\* Rework whose origin is forgotten never ends, whatever is resolved.
THEOREM ForgottenReworkStaysHolds == MigratingSpec => ForgottenReworkStays
  <1>1. MigratingInv /\ [MigratingNext]_vars =>
          [\A m \in Milestones :
             meta[m].phase = "remediation" /\ meta[m].pre = NoPhase
               => meta'[m].phase = "remediation" /\ meta'[m].pre = NoPhase]_vars
    BY ReworkStep DEF Checkpoints, NoPhase
  <1> QED
    BY <1>1, MigratingInvariance, PTL DEF MigratingSpec, ForgottenReworkStays

\* Outside the two phases where the derivation differs from the projection the
\* gates read the same before and after a migration.
THEOREM MigrationKeepsReadingHolds == MigratingSpec => MigrationKeepsReading
  <1>1. ASSUME MigratingInv, MigrateLifecycle, NEW m \in Milestones,
               meta[m].phase \notin {"executed", "remediation"}
        PROVE  /\ EffectiveSpec(meta'[m]) = EffectiveSpec(meta[m])
               /\ EffectiveExec(meta'[m]) = EffectiveExec(meta[m])
    <2> DEFINE s == meta[m]
               t == meta'[m]
    <2>1. s \in Metas /\ RecordOK(s) /\ t = Migrated(s)
      BY <1>1, InvRecordOK DEF MigrateLifecycle
    <2>2. Emptied(t) /\ t.phase = s.phase /\ t.overlays = s.overlays
      BY <2>1, MigratedRecord
    <2>3. s.phase \in Phases /\ s.overlays \in SUBSET Overlays
      BY <2>1 DEF Metas
    <2>4. \A a, b \in s.overlays : a = b
      BY <2>1 DEF RecordOK, OverlaysOK
    <2>5. CASE Emptied(s)
      BY <2>1, <2>5 DEF Migrated, Emptied
    <2>6. CASE Projected(s)
      <3>1. EffectiveSpec(s) = LegacySpec(s.phase) /\ EffectiveSpec(t) = LegacySpec(s.phase)
        BY <1>1, <2>2, <2>3, <2>6 DEF EffectiveSpec, Projected, Emptied, LegacySpec, Unset,
               Phases, Planning, Checkpoints
      <3>2. EffectiveExec(s) = LegacyExec(s.phase, s.overlays)
        BY <2>2, <2>3, <2>6 DEF EffectiveExec, Projected, LegacyExec, PhaseExec, Unset,
               Phases, Planning, Checkpoints
      <3>3. EffectiveExec(t) = LegacyExec(s.phase, s.overlays)
        BY <1>1, <2>2, <2>3, <2>4 DEF EffectiveExec, Emptied, LegacyExec, PhaseExec, Unset,
               Phases, Planning, Checkpoints
      <3> QED
        BY <3>1, <3>2, <3>3
    <2> QED
      BY <2>1, <2>5, <2>6 DEF RecordOK
  <1>2. MigratingInv /\ [MigratingNext]_vars =>
          [MigrateLifecycle =>
              \A m \in Milestones :
                  meta[m].phase \notin {"executed", "remediation"} =>
                      /\ EffectiveSpec(meta'[m]) = EffectiveSpec(meta[m])
                      /\ EffectiveExec(meta'[m]) = EffectiveExec(meta[m])]_vars
    BY <1>1
  <1> QED
    BY <1>2, MigratingInvariance, PTL DEF MigrationKeepsReading, MigratingSpec

-----------------------------------------------------------------------------
(* The lanes. *)

\* In which lanes a milestone is, one lane at a time.
LEMMA LaneMembership ==
    ASSUME NEW m \in Milestones
    PROVE  /\ "execution" \in LanesOf(m) <=> m \in ExecutionLane
           /\ "review" \in LanesOf(m) <=> m \in ReviewLane
           /\ "blocked" \in LanesOf(m) <=> m \in BlockedLane
           /\ "awaiting-approval" \in LanesOf(m) <=> m \in AwaitingApprovalLane
           /\ "grooming" \in LanesOf(m) <=> m \in GroomingLane
           /\ LanesOf(m) \subseteq {"execution", "review", "blocked",
                                    "awaiting-approval", "grooming"}
  BY DEF LanesOf

\* The lanes' reading of the execution status tells the flag, or that there is
\* none.
LEMMA LaneExecReadsFlags ==
    ASSUME NEW s \in Metas, RecordOK(s), "cancelled" \notin s.overlays,
           "deferred" \notin s.overlays
    PROVE  /\ LaneExec(s) \notin {"deferred", "cancelled"}
           /\ LaneExec(s) = "blocked" <=> "blocked" \in s.overlays
  <1>1. CASE Emptied(s)
    BY <1>1 DEF Emptied, LaneExec, Unset, Metas, Phases, Planning, Checkpoints
  <1>2. CASE Projected(s)
    BY <1>2 DEF Projected, LaneExec, LegacyExec, PhaseExec, Unset, Metas, Phases,
           Planning, Checkpoints
  <1> QED
    BY <1>1, <1>2 DEF RecordOK

LEMMA LanesPartition == MigratingInv => InOneLane
  <1> SUFFICES ASSUME MigratingInv, NEW m \in Milestones,
                      meta[m].phase \notin Checkpoints,
                      meta[m].overlays \cap {"deferred", "cancelled"} = {}
               PROVE  IF meta[m].phase = "remediation" /\ "blocked" \in meta[m].overlays
                      THEN LanesOf(m) = {"review", "blocked"}
                      ELSE \E lane \in LanesOf(m) : LanesOf(m) = {lane}
    BY DEF InOneLane
  <1>1. meta[m] \in Metas /\ RecordOK(meta[m])
    BY InvRecordOK
  <1>2. /\ LaneExec(meta[m]) \notin {"deferred", "cancelled"}
        /\ LaneExec(meta[m]) = "blocked" <=> "blocked" \in meta[m].overlays
    BY <1>1, LaneExecReadsFlags
  <1>3. meta[m].phase \in Phases
    BY <1>1 DEF Metas
  <1>4. "blocked" \in LanesOf(m) <=>
            \/ "blocked" \in meta[m].overlays
            \/ meta[m].phase \in {"approved", "in-progress"} /\ ~DependenciesComplete(m)
    BY <1>2, <1>3, LaneMembership DEF BlockedLane, Checkpoints
  <1>5. "execution" \in LanesOf(m) <=>
            /\ meta[m].phase \in {"approved", "in-progress"}
            /\ "blocked" \notin meta[m].overlays /\ DependenciesComplete(m)
    BY <1>2, LaneMembership DEF ExecutionLane, Parked
  <1>6. "review" \in LanesOf(m) <=> meta[m].phase = "remediation"
    BY LaneMembership DEF ReviewLane
  <1>7. Readable(meta[m])
    <2>1. CASE Emptied(meta[m])
      BY <2>1 DEF Emptied, Readable, Unset
    <2>2. CASE Projected(meta[m])
      BY <2>2 DEF Projected, Readable, LegacyExec, PhaseExec, Planning
    <2> QED
      BY <1>1, <2>1, <2>2 DEF RecordOK
  <1>8. "awaiting-approval" \in LanesOf(m) \/ "grooming" \in LanesOf(m) <=>
            meta[m].phase \in {"draft", "groomed"} /\ "blocked" \notin meta[m].overlays
    BY <1>2, <1>7, LaneMembership DEF AwaitingApprovalLane, GroomingLane, BeforeApproval, Parked
  <1>9. ~("awaiting-approval" \in LanesOf(m) /\ "grooming" \in LanesOf(m))
    BY LaneMembership DEF AwaitingApprovalLane, GroomingLane
  <1>10. LanesOf(m) \subseteq {"execution", "review", "blocked",
                               "awaiting-approval", "grooming"}
    BY LaneMembership
  <1>11. CASE "blocked" \in meta[m].overlays
    BY <1>4, <1>5, <1>6, <1>8, <1>10, <1>11
  <1>12. CASE "blocked" \notin meta[m].overlays
    <2>1. CASE meta[m].phase \in {"approved", "in-progress"}
      BY <1>4, <1>5, <1>6, <1>8, <1>10, <1>12, <2>1
    <2>2. CASE meta[m].phase = "remediation"
      BY <1>4, <1>5, <1>6, <1>8, <1>10, <1>12, <2>2
    <2>3. CASE meta[m].phase \in {"draft", "groomed"}
      BY <1>4, <1>5, <1>6, <1>8, <1>9, <1>10, <1>12, <2>3
    <2> QED
      BY <1>3, <2>1, <2>2, <2>3 DEF Phases, Planning, Checkpoints
  <1> QED
    BY <1>11, <1>12

LEMMA LaneWorkCanStart == MigratingInv => OfferedWorkCanStart
  <1> SUFFICES ASSUME MigratingInv, NEW m \in ExecutionLane,
                      \A d \in DependsOn[m] : meta[d].overlays = {}
               PROVE  StartGates(m) /\ Accepts(meta[m], "Start")
    BY DEF OfferedWorkCanStart
  <1>1. /\ m \in Milestones /\ meta[m] \in Metas /\ RecordOK(meta[m])
        /\ meta[m].phase \in {"approved", "in-progress"}
        /\ LaneExec(meta[m]) \notin Parked
        /\ DependenciesComplete(m)
    BY InvRecordOK DEF ExecutionLane
  <1>2. meta[m].overlays = {}
    <2>1. CASE Emptied(meta[m])
      BY <1>1, <2>1 DEF Emptied, LaneExec, Parked, Metas, Overlays
    <2>2. CASE Projected(meta[m])
      BY <1>1, <2>2 DEF Projected, LaneExec, LegacyExec, Parked, Unset, Metas, Overlays
    <2> QED
      BY <1>1, <2>1, <2>2 DEF RecordOK
  <1>3. GateG1(m)
    BY <1>1 DEF GateG1, EffectiveSpec, RecordOK, Emptied, Projected, LegacySpec, Unset
  <1>4. ASSUME NEW d \in DependsOn[m] PROVE EffectiveExec(meta[d]) = "done"
    <2>1. /\ d \in Milestones /\ meta[d].phase = "complete" /\ meta[d].overlays = {}
          /\ RecordOK(meta[d])
      BY <1>1, <1>4, InvRecordOK, DependsOnAssumption DEF DependenciesComplete
    <2>2. CASE Emptied(meta[d])
      BY <2>1, <2>2 DEF Emptied, EffectiveExec, Planning
    <2>3. CASE Projected(meta[d])
      BY <2>1, <2>3 DEF Projected, EffectiveExec, LegacyExec, PhaseExec, Planning,
             Checkpoints, Unset
    <2> QED
      BY <2>1, <2>2, <2>3 DEF RecordOK
  <1>5. Accepts(meta[m], "Start")
    BY <1>1, <1>2 DEF Accepts, Readable, Sources, NextOverlays
  <1> QED
    BY <1>3, <1>4, <1>5 DEF StartGates, GateG8

LEMMA ReadyIsDue == MigratingInv => ReadyWorkIsDue
  <1> SUFFICES ASSUME MigratingInv, NEW m \in Ready
               PROVE  /\ meta[m].phase \in {"approved", "in-progress", "remediation"}
                      /\ meta[m].overlays = {}
                      /\ \A d \in DependsOn[m] : meta[d].phase \in Checkpoints
    BY DEF ReadyWorkIsDue
  <1>1. /\ m \in Milestones /\ meta[m] \in Metas /\ RecordOK(meta[m]) /\ Executable(m)
        /\ \A d \in DependsOn[m] : meta[d].exec = "done"
    BY InvRecordOK DEF Ready
  <1>2. Projected(meta[m])
    BY <1>1 DEF Executable, RecordOK, Emptied, Unset
  <1>3. meta[m].overlays = {} /\ meta[m].phase \in {"approved", "in-progress", "remediation"}
    BY <1>1, <1>2 DEF Executable, Projected, LegacySpec, LegacyExec, PhaseExec, Metas,
           Overlays, Phases, Planning, Checkpoints
  <1>4. ASSUME NEW d \in DependsOn[m] PROVE meta[d].phase \in Checkpoints
    <2>1. meta[d] \in Metas /\ RecordOK(meta[d]) /\ meta[d].exec = "done"
      BY <1>1, <1>4, InvRecordOK, DependsOnAssumption
    <2> QED
      BY <2>1 DEF RecordOK, Emptied, Projected, LegacyExec, PhaseExec, Unset, Metas,
             Phases, Planning, Checkpoints
  <1> QED
    BY <1>3, <1>4

\* Work that is under way is in exactly one lane, through every command and
\* migration.
THEOREM InOneLaneHolds == MigratingSpec => []InOneLane
  BY LanesPartition, MigratingInvariance, PTL

\* The gates of set-status let pass what the execution lane offers.
THEOREM OfferedWorkCanStartHolds == MigratingSpec => []OfferedWorkCanStart
  BY LaneWorkCanStart, MigratingInvariance, PTL

\* What mp next takes for ready is due by its lifecycle.
THEOREM ReadyWorkIsDueHolds == MigratingSpec => []ReadyWorkIsDue
  BY ReadyIsDue, MigratingInvariance, PTL

\* No command leaves a milestone in the awaiting-approval lane: the spec status
\* becomes ready only with the approval.
THEOREM NothingAwaitsApproval == MigratingSpec => [](AwaitingApprovalLane = {})
  <1>1. MigratingInv => AwaitingApprovalLane = {}
    <2> SUFFICES ASSUME MigratingInv, NEW m \in Milestones,
                        meta[m].phase \in {"draft", "groomed"},
                        EffectiveSpec(meta[m]) = "ready"
                 PROVE  FALSE
      BY DEF AwaitingApprovalLane, BeforeApproval
    <2>1. RecordOK(meta[m])
      BY InvRecordOK
    <2> QED
      BY <2>1 DEF RecordOK, Emptied, Projected, EffectiveSpec, LegacySpec, Unset, Planning
  <1> QED
    BY <1>1, MigratingInvariance, PTL

-----------------------------------------------------------------------------
(* The watch driver. *)

LEMMA EmitsIsACommand == Emits => Next
  <1> SUFFICES ASSUME Emits PROVE Next
    OBVIOUS
  <1>1. PICK m \in Milestones :
            \/ \E skipReview \in BOOLEAN : CompleteMilestone(m, skipReview)
            \/ RecordReviewPass(m)
    BY DEF Emits
  <1> QED
    BY <1>1 DEF Next, MilestoneCommand, ReviewCommand

\* A step of the composition is a command, or leaves the plan as it is.
LEMMA DriveStep == [DriveNext]_allVars => [Next]_vars
  <1> SUFFICES ASSUME [DriveNext]_allVars PROVE [Next]_vars
    OBVIOUS
  <1>1. CASE UNCHANGED allVars
    BY <1>1 DEF allVars
  <1>2. CASE QuietCommand
    BY <1>2 DEF QuietCommand
  <1>3. CASE ReportingCommand
    BY <1>3, EmitsIsACommand DEF ReportingCommand
  <1>4. CASE EmitStageDone \/ StartDrive
    BY <1>4 DEF EmitStageDone, StartDrive
  <1>5. CASE Drive
    BY <1>5 DEF Drive, Exhaust, Reach, Skip, PlanStage, SendPrompt, Fail, PollLifecycle,
                Stall, PollSentinel, ConfirmComplete, FindStale, ClearStale, FailConfirm,
                EndDrive
  <1>6. CASE Hang \/ Interrupt
    BY <1>6 DEF Hang, Interrupt, EndDrive
  <1> QED
    BY <1>1, <1>2, <1>3, <1>4, <1>5, <1>6 DEF DriveNext

(***************************************************************************)
(* Driven or not, the commands behave as MilestoneReview says.             *)
(***************************************************************************)
THEOREM DrivenPlanIsAPlan == DriveSpec => Spec
  <1>1. DriveInit => Init
    BY DEF DriveInit
  <1> QED
    BY <1>1, DriveStep, PTL DEF DriveSpec, Spec

\* The review invariant holds while a driver runs.
THEOREM DrivenInvariance == DriveSpec => []IInv
  BY DrivenPlanIsAPlan, Invariance, PTL

-----------------------------------------------------------------------------
\* Nobody takes a voucher back.
LEMMA VouchersStay == Next => passed \subseteq passed' /\ waived \subseteq waived'
  <1> SUFFICES ASSUME Next PROVE passed \subseteq passed' /\ waived \subseteq waived'
    OBVIOUS
  <1>1. PICK m \in Milestones : MilestoneCommand(m) \/ ReviewCommand(m)
    BY DEF Next
  <1>2. CASE MilestoneCommand(m)
    BY <1>2 DEF MilestoneCommand, SetSpecStatus, SetStatus, Block, Unblock, Defer, Reopen,
                CompleteMilestone, UpdateChangeKind
  <1>3. CASE ReviewCommand(m)
    BY <1>3 DEF ReviewCommand, RecordReviewPass, AddFinding, ResolveFinding,
                ResolveAllOpenFindings, ResolveFindings
  <1> QED
    BY <1>1, <1>2, <1>3

\* Only the read that finds the milestone complete reports it completed.
LEMMA VerdictStep ==
    ASSUME Drive, verdict' = "complete", verdict # "complete"
    PROVE  Reach
  BY DEF Drive, Exhaust, Reach, Skip, PlanStage, SendPrompt, Fail, PollLifecycle, Stall,
         PollSentinel, ConfirmComplete, FindStale, ClearStale, FailConfirm, EndDrive

LEMMA CompletedDriveStep ==
    ASSUME IInv, CompletedDriveIsVouched, [DriveNext]_allVars
    PROVE  CompletedDriveIsVouched'
  <1> SUFFICES ASSUME verdict' = "complete" PROVE Driven \in passed' \cup waived'
    BY DEF CompletedDriveIsVouched
  <1>1. passed \subseteq passed' /\ waived \subseteq waived'
    BY DriveStep, VouchersStay DEF vars
  <1>2. CASE verdict = "complete"
    BY <1>1, <1>2 DEF CompletedDriveIsVouched
  <1>3. CASE verdict # "complete"
    <2>1. Drive
      BY <1>3 DEF DriveNext, allVars, QuietCommand, ReportingCommand, EmitStageDone,
                  StartDrive, Hang, Interrupt, EndDrive, driveVars
    <2>2. Reach
      BY <1>3, <2>1, VerdictStep
    <2>3. Driven \in Milestones /\ meta[Driven].phase = "complete"
      BY <2>2, DriveAssumption DEF Reach, AtGoal
    <2> QED
      BY <1>1, <2>3 DEF IInv, CompletionIsVouched
  <1> QED
    BY <1>2, <1>3

(***************************************************************************)
(* A drive that reports a milestone as completed is right to: somebody     *)
(* vouched for the work.                                                   *)
(***************************************************************************)
THEOREM CompletedDriveIsVouchedHolds == DriveSpec => []CompletedDriveIsVouched
  <1>1. DriveInit => CompletedDriveIsVouched
    BY DEF DriveInit, CompletedDriveIsVouched
  <1>2. IInv /\ CompletedDriveIsVouched /\ [DriveNext]_allVars => CompletedDriveIsVouched'
    BY CompletedDriveStep
  <1> QED
    BY <1>1, <1>2, DrivenInvariance, PTL DEF DriveSpec

\* However a drive ends, what it leaves is of its type.
LEMMA EndDriveTyped ==
    ASSUME DriveTypeOK, NEW outcome \in Verdicts, EndDrive(outcome)
    PROVE  DriveTypeOK'
  <1>1. iteration' \in 0 .. MaxIterations
    BY DriveAssumption DEF EndDrive
  <1>2. driver' \in Locations /\ verdict' \in Verdicts
    BY DEF EndDrive, Locations
  <1>3. pane' \in BOOLEAN
    BY DEF EndDrive
  <1>4. sentinel' \in BOOLEAN /\ unsent' \in BOOLEAN
    BY DEF EndDrive, paneVars, DriveTypeOK
  <1> QED
    BY <1>1, <1>2, <1>3, <1>4 DEF DriveTypeOK

\* Each step of the driver but the last keeps the types.
LEMMA DriveStepTyped ==
    ASSUME DriveTypeOK,
           PlanStage \/ SendPrompt \/ PollLifecycle \/ PollSentinel
             \/ ConfirmComplete \/ FindStale \/ ClearStale \/ FailConfirm
    PROVE  DriveTypeOK'
  <1> USE DEF PlanStage, SendPrompt, PollLifecycle, PollSentinel, ConfirmComplete,
              FindStale, ClearStale, FailConfirm, paneVars
  <1>1. iteration' \in 0 .. MaxIterations
    <2>1. \/ iteration' = iteration
          \/ iteration < MaxIterations /\ iteration' = iteration + 1
      BY Zenon
    <2>2. iteration \in 0 .. MaxIterations
      BY DEF DriveTypeOK
    <2> HIDE DEF PlanStage, SendPrompt, PollLifecycle, PollSentinel, ConfirmComplete,
                 FindStale, ClearStale, FailConfirm, paneVars
    <2> QED
      BY <2>1, <2>2, DriveAssumption
  <1>2. driver' \in Locations /\ verdict' \in Verdicts
    BY DEF Locations, DriveTypeOK
  <1>3. pane' \in BOOLEAN
    <2>1. pane' = TRUE \/ pane' = pane
      OBVIOUS
    <2> QED
      BY <2>1, Zenon DEF DriveTypeOK
  <1>4. sentinel' \in BOOLEAN /\ unsent' \in BOOLEAN
    BY DEF DriveTypeOK
  <1> QED
    BY <1>1, <1>2, <1>3, <1>4 DEF DriveTypeOK

\* The driver's own variables stay of their types; its iterations are bounded.
THEOREM DriveTypeCorrect == DriveSpec => []DriveTypeOK
  <1>1. DriveInit => DriveTypeOK
    <2>1. 0 \in 0 .. MaxIterations
      BY DriveAssumption
    <2> QED
      BY <2>1, Zenon DEF DriveInit, DriveTypeOK, Locations, Verdicts
  <1>2. DriveTypeOK /\ [DriveNext]_allVars => DriveTypeOK'
    <2> SUFFICES ASSUME DriveTypeOK, [DriveNext]_allVars PROVE DriveTypeOK'
      OBVIOUS
    <2> USE DriveAssumption DEF DriveTypeOK, Locations, Verdicts
    <2>1. CASE UNCHANGED allVars
      BY <2>1 DEF allVars, driveVars, paneVars
    <2>2. CASE QuietCommand
      BY <2>2 DEF QuietCommand, driveVars, paneVars
    <2>3. CASE ReportingCommand
      BY <2>3 DEF ReportingCommand, driveVars
    <2>4. CASE EmitStageDone
      BY <2>4 DEF EmitStageDone, driveVars
    <2>5. CASE StartDrive
      BY <2>5 DEF StartDrive, paneVars
    <2>6. CASE Drive
      BY <2>6, DriveStepTyped, EndDriveTyped
         DEF Drive, Exhaust, Reach, Skip, Fail, Stall
    <2>7. CASE Interrupt
      BY <2>7, EndDriveTyped DEF Interrupt
    <2>8. CASE Hang
      BY <2>8 DEF Hang, Locations, paneVars
    <2> QED
      BY <2>1, <2>2, <2>3, <2>4, <2>5, <2>6, <2>7, <2>8 DEF DriveNext
  <1> QED
    BY <1>1, <1>2, PTL DEF DriveSpec
=============================================================================
