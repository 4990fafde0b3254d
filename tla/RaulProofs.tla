------------------------------ MODULE RaulProofs ------------------------------
(***************************************************************************)
(* Proofs about Raul, for any set of milestones and any number of          *)
(* annotations: the keys of a thread work on one milestone and on a row    *)
(* that is there, and a lane that is entered shows raul's own writes.        *)
(***************************************************************************)
EXTENDS Raul, FiniteSetTheorems, SequenceTheorems, TLAPS

\* A milestone is selected wherever one is needed, and nothing but another
\* process moves while a co-approval runs.
Selection ==
    /\ content # "List" \/ mode \in {"Input", "ReviewMenu", "AnnotationThread"} =>
          selected # Nothing
    /\ Executing =>
          content = "CoApproval" /\ mode = "Normal" /\ coApproval.id # 0

ScreenOK ==
    /\ lane \in Lanes /\ content \in Contents /\ mode \in Modes \cup {"Gone"}
    /\ selected \in Milestones \cup {Nothing}
    /\ input \in [target : Milestones \cup {Nothing},
                  kind : {"review-request", "set-dependency"}, typed : BOOLEAN]
    /\ coApproval \in
          [id : {0} \cup DOMAIN notes, status : Statuses,
           choice : {Nothing, "Approve", "Reject"},
           state : {"Choosing", "Executing", "Confirmed"}]

\* No payload is older than an approval of raul's own.
CacheOK ==
    /\ approved \subseteq Milestones
    /\ cache \in [Lanes -> {Nothing} \cup SUBSET Milestones]
    /\ shown \in [Lanes -> {Nothing} \cup SUBSET Milestones]
    /\ \A l \in Lanes : cache[l] # Nothing => cache[l] = approved

ThreadOK ==
    /\ notes \in Seq(Note) /\ Len(notes) <= MaxNotes
    /\ others \in 0..MaxOthers
    /\ DOMAIN thread \subseteq DOMAIN notes /\ thread \in [DOMAIN thread -> Statuses]
    /\ cursor \in Nat
    /\ openOnly \in BOOLEAN
    /\ CursorOnARow
    /\ ThreadIsCurrent

\* The inductive invariant: types and properties, by the part of the state they
\* are about, and Selection.
IInv == ScreenOK /\ CacheOK /\ ThreadOK /\ Selection /\ OneMilestoneAtATime

LEMMA IInvTypes == IInv => TypeOK
  BY DEF IInv, ScreenOK, CacheOK, ThreadOK, TypeOK

-----------------------------------------------------------------------------
\* Rows and the cursor.

\* An element of a finite set of numbers has a position in it.
LEMMA PositionInside ==
    ASSUME NEW ids \in SUBSET Nat, IsFiniteSet(ids), NEW i \in ids
    PROVE  PositionIn(ids, i) \in Nat /\ PositionIn(ids, i) < Cardinality(ids)
  <1> DEFINE before == {j \in ids : j < i}
  <1>1. before \subseteq ids \ {i}
    OBVIOUS
  <1>2. /\ IsFiniteSet(ids \ {i})
        /\ Cardinality(ids \ {i}) = Cardinality(ids) - 1
    BY FS_RemoveElement
  <1>3. IsFiniteSet(before) /\ Cardinality(before) <= Cardinality(ids) - 1
    BY <1>1, <1>2, FS_Subset
  <1>4. Cardinality(before) \in Nat /\ Cardinality(ids) \in Nat
    BY <1>3, FS_CardinalityType
  <1> QED BY <1>3, <1>4 DEF PositionIn

\* The cursor is put on a row whenever there is one.
LEMMA ReanchoredInside ==
    ASSUME NEW ids \in SUBSET Nat, IsFiniteSet(ids), NEW position \in Nat
    PROVE  /\ Reanchored(position, ids) \in Nat
           /\ ids # {} => Reanchored(position, ids) < Cardinality(ids)
  <1> DEFINE kept == AtCursor(position) \cap ids
  <1>1. Cardinality(ids) \in Nat /\ (ids # {} => Cardinality(ids) > 0)
    BY FS_CardinalityType, FS_EmptySet
  <1>2. CASE kept # {}
    <2>1. (CHOOSE i \in kept : TRUE) \in ids
      BY <1>2
    <2> QED BY <1>2, <2>1, PositionInside DEF Reanchored
  <1>3. CASE kept = {}
    BY <1>1, <1>3 DEF Reanchored
  <1> QED BY <1>2, <1>3

\* The rows of a thread are annotations of the plan.
LEMMA RowsOfPlan ==
    ASSUME NEW length \in Nat, NEW statuses, DOMAIN statuses \subseteq 1..length,
           NEW only
    PROVE  Shown(statuses, only) \subseteq Nat /\ IsFiniteSet(Shown(statuses, only))
  <1>1. IsFiniteSet(1..length) /\ Shown(statuses, only) \subseteq 1..length
    BY FS_Interval DEF Shown
  <1> QED BY <1>1, FS_Subset

-----------------------------------------------------------------------------
\* The plan.

\* A change of status keeps the annotations there are, and whose they are.
LEMMA StatusWritten ==
    ASSUME TypeOK, NEW i \in DOMAIN notes, NEW status \in Statuses, NEW written,
           written = [notes EXCEPT ![i].status = status]
    PROVE  /\ written \in Seq(Note) /\ Len(written) = Len(notes)
           /\ \A j \in DOMAIN notes : written[j].target = notes[j].target
  <1> DEFINE note == [notes[i] EXCEPT !.status = status]
  <1>1. notes \in Seq(Note) /\ i \in 1..Len(notes) /\ notes[i] \in Note
    BY ElementOfSeq DEF TypeOK
  <1>2. note \in Note /\ note.target = notes[i].target
    BY <1>1 DEF Note
  <1>3. written = [notes EXCEPT ![i] = note]
    OBVIOUS
  <1> HIDE DEF note
  <1>4. /\ written \in Seq(Note) /\ Len(written) = Len(notes)
        /\ \A j \in 1..Len(notes) : written[j] = IF j = i THEN note ELSE notes[j]
    BY <1>1, <1>2, <1>3, ExceptSeq, SMTT(30)
  <1> QED BY <1>1, <1>2, <1>4

\* So does a new one.
LEMMA NewWritten ==
    ASSUME TypeOK, NEW m \in Milestones, NEW kind \in Kinds
    PROVE  /\ WithNew(m, kind) \in Seq(Note)
           /\ Len(WithNew(m, kind)) = Len(notes) + 1
           /\ \A j \in DOMAIN notes : WithNew(m, kind)[j] = notes[j]
  <1>1. [target |-> m, kind |-> kind, status |-> "open"] \in Note
    BY DEF Note, Statuses
  <1> QED BY <1>1, AppendProperties DEF TypeOK, WithNew

\* The plan only grows: annotations stay where they are and with their milestone.
Grows ==
    /\ notes' \in Seq(Note) /\ Len(notes) <= Len(notes') /\ Len(notes') <= MaxNotes
    /\ \A i \in DOMAIN notes : notes'[i].target = notes[i].target

LEMMA Writes ==
    ASSUME TypeOK
    PROVE  /\ \A i \in DOMAIN notes :
                 \/ notes' = Resolved(i)
                 \/ notes' = Reopened(i)
                 \/ notes' = [notes EXCEPT ![i].status = "addressed"]
                 => Grows
           /\ \A m \in Milestones, kind \in Kinds :
                 Len(notes) < MaxNotes /\ notes' = WithNew(m, kind) => Grows
           /\ UNCHANGED notes => Grows
  <1>1. notes \in Seq(Note) /\ Len(notes) \in Nat /\ Len(notes) <= MaxNotes
    BY LenProperties DEF TypeOK
  <1>2. MaxNotes \in Nat
    BY RaulAssumption
  <1>3. ASSUME NEW i \in DOMAIN notes, NEW status \in Statuses,
               notes' = [notes EXCEPT ![i].status = status]
        PROVE  Grows
    BY <1>1, <1>3, StatusWritten DEF Grows
  <1>4. ASSUME NEW m \in Milestones, NEW kind \in Kinds,
               Len(notes) < MaxNotes, notes' = WithNew(m, kind)
        PROVE  Grows
    BY <1>1, <1>2, <1>4, NewWritten DEF Grows
  <1>5. "open" \in Statuses /\ "addressed" \in Statuses /\ "resolved" \in Statuses
    BY DEF Statuses
  <1>6. UNCHANGED notes => Grows
    BY <1>1 DEF Grows
  <1> QED BY <1>3, <1>4, <1>5, <1>6 DEF Resolved, Reopened

\* A thread that is read has one milestone's annotations, as they are, and the
\* cursor on a row.
LEMMA LoadThreadWorks ==
    ASSUME TypeOK, Grows, NEW m, NEW position \in Nat, LoadThread(m, position)
    PROVE  /\ DOMAIN thread' \subseteq DOMAIN notes'
           /\ thread' \in [DOMAIN thread' -> Statuses]
           /\ \A i \in DOMAIN thread' :
                 notes'[i].target = m /\ thread'[i] = notes'[i].status
           /\ cursor' \in Nat /\ openOnly' = openOnly /\ CursorOnARow'
  <1> DEFINE its == {i \in DOMAIN notes' : notes'[i].target = m}
  <1>1. thread' = [i \in its |-> notes'[i].status]
    BY DEF LoadThread
  <1>2. \A i \in DOMAIN notes' : notes'[i].status \in Statuses
    <2>1. \A i \in DOMAIN notes' : notes'[i] \in Note
      BY ElementOfSeq DEF Grows
    <2> QED BY <2>1 DEF Note
  <1>3. DOMAIN thread' = its /\ thread' \in [its -> Statuses]
    BY <1>1, <1>2
  <1>4. Len(notes') \in Nat /\ DOMAIN thread' \subseteq 1..Len(notes')
    BY <1>3 DEF Grows
  <1>5. /\ Shown(thread', openOnly) \subseteq Nat
        /\ IsFiniteSet(Shown(thread', openOnly))
    BY <1>4, RowsOfPlan
  <1>6. /\ cursor' = Reanchored(position, Shown(thread', openOnly))
        /\ openOnly' = openOnly
    BY DEF LoadThread
  <1>7. /\ cursor' \in Nat
        /\ Shown(thread', openOnly) # {} =>
              cursor' < Cardinality(Shown(thread', openOnly))
    BY <1>5, <1>6, ReanchoredInside
  <1>8. CursorOnARow'
    BY <1>6, <1>7 DEF CursorOnARow
  <1> QED BY <1>1, <1>3, <1>6, <1>7, <1>8

-----------------------------------------------------------------------------
\* What the steps have in common.

\* The payloads of the lanes.
LEMMA CacheSteps ==
    ASSUME CacheOK
    PROVE  /\ Invalidate /\ approved' \subseteq Milestones => CacheOK'
           /\ \A l \in Lanes : UNCHANGED approved /\ LoadLane(l) => CacheOK'
           /\ UNCHANGED <<approved, lists>> => CacheOK'
  BY DEF CacheOK, Invalidate, Invalidated, LoadLane, LoadCached, ShowCached, Read,
         lists

\* A lane that is loaded shows what the plan has.
LEMMA LoadedIsShown ==
    ASSUME CacheOK, NEW l \in Lanes, LoadLane(l)
    PROVE  shown'[l] = approved
  BY DEF CacheOK, LoadLane, LoadCached, ShowCached, Read

\* A thread that is left alone, in a mode that had its keys already or gives it
\* none.
LEMMA ThreadKept ==
    ASSUME ThreadOK, UNCHANGED <<notes, annotations, others>>,
           mode' = "AnnotationThread" => mode = "AnnotationThread"
    PROVE  ThreadOK'
  BY DEF ThreadOK, ThreadIsCurrent, CursorOnARow, Shown, annotations

\* A thread that is read.
LEMMA ThreadLoaded ==
    ASSUME IInv, Grows, UNCHANGED others, NEW m, NEW position \in Nat,
           LoadThread(m, position)
    PROVE  ThreadOK' /\ \A i \in DOMAIN thread' : notes'[i].target = m
  <1>1. /\ DOMAIN thread' \subseteq DOMAIN notes'
        /\ thread' \in [DOMAIN thread' -> Statuses]
        /\ \A i \in DOMAIN thread' :
              notes'[i].target = m /\ thread'[i] = notes'[i].status
        /\ cursor' \in Nat /\ openOnly' = openOnly /\ CursorOnARow'
    BY LoadThreadWorks, IInvTypes
  <1> QED BY <1>1 DEF IInv, ThreadOK, ThreadIsCurrent, Grows

\* A thread that is not read again after a write, while it has no keys.
LEMMA ThreadLeft ==
    ASSUME ThreadOK, Grows, UNCHANGED <<annotations, others>>,
           mode' # "AnnotationThread"
    PROVE  ThreadOK'
  <1>1. DOMAIN notes \subseteq DOMAIN notes'
    BY LenProperties DEF ThreadOK, Grows
  <1> QED BY <1>1 DEF ThreadOK, ThreadIsCurrent, CursorOnARow, Shown, annotations, Grows

-----------------------------------------------------------------------------
\* Keys that change what is shown, and no more.
LEMMA ScreenKeys ==
    ASSUME IInv,
           \/ Quit \/ MpFails
           \/ \E m \in Milestones : OpenMilestone(m)
           \/ CloseThread \/ LeaveContent
           \/ OpenReviewMenu
           \/ SubmitEmpty
           \/ \E overlay \in {"Help"} \cup Narrowing : OpenOverlay(overlay)
           \/ \E overlays \in {Narrowing, Cancellable, {"Help"}} : Dismiss(overlays)
    PROVE  IInv'
  <1> USE DEF IInv, plan, screen
  <1>1. /\ UNCHANGED <<notes, approved, lists, annotations, others>>
        /\ mode' = "AnnotationThread" => mode = "AnnotationThread"
    BY DEF Quit, MpFails, Dies, OpenMilestone, CloseThread, LeaveContent, GoBack,
           OpenReviewMenu, SubmitEmpty, OpenOverlay, Narrowing, Dismiss
  <1>2. ThreadOK' /\ CacheOK'
    BY <1>1, ThreadKept, CacheSteps
  <1>3. NoInput \in [target : Milestones \cup {Nothing},
                     kind : {"review-request", "set-dependency"}, typed : BOOLEAN]
    BY DEF NoInput
  <1>4. ScreenOK'
    BY <1>1, <1>3 DEF Quit, MpFails, Dies, OpenMilestone, CloseThread, LeaveContent,
           GoBack, OpenReviewMenu, SubmitEmpty, OpenOverlay, Narrowing, Dismiss,
           ScreenOK, Modes, Contents, Lanes, Idle, Statuses
  <1>5. Selection' /\ OneMilestoneAtATime'
    <2> USE <1>1 DEF Selection, OneMilestoneAtATime, annotations, Executing, Reading
    <2>1. CASE Quit \/ MpFails
      BY <2>1 DEF Quit, MpFails, Dies
    <2>2. CASE \E m \in Milestones : OpenMilestone(m)
      BY <2>2, RaulAssumption DEF OpenMilestone, Calm
    <2>3. CASE CloseThread \/ LeaveContent
      BY <2>3 DEF CloseThread, LeaveContent, GoBack, OnThread, Calm, Idle, ScreenOK,
                  Contents
    <2>4. CASE OpenReviewMenu
      BY <2>4 DEF OpenReviewMenu, Calm
    <2>5. CASE SubmitEmpty
      BY <2>5 DEF SubmitEmpty, OnInput
    <2>6. CASE \E overlay \in {"Help"} \cup Narrowing : OpenOverlay(overlay)
      BY <2>6 DEF OpenOverlay, Narrowing, Calm
    <2>7. CASE \E overlays \in {Narrowing, Cancellable, {"Help"}} : Dismiss(overlays)
      BY <2>7 DEF Dismiss
    <2> QED BY <2>1, <2>2, <2>3, <2>4, <2>5, <2>6, <2>7
  <1> QED BY <1>2, <1>4, <1>5

\* Keys that open a prompt or a modal on the selected milestone.
LEMMA ModalKeys ==
    ASSUME IInv,
           \/ CreateAnnotation \/ MenuSetDependency
           \/ \E typed \in BOOLEAN : TypeInput(typed)
           \/ EnterCoApproval
           \/ \E choice \in {"Approve", "Reject"} : Choose(choice)
           \/ ConfirmCoApproval
    PROVE  IInv'
  <1> USE DEF IInv, plan, screen
  <1>1. /\ UNCHANGED <<notes, approved, lists, annotations, others>>
        /\ mode' = "AnnotationThread" => mode = "AnnotationThread"
    BY DEF CreateAnnotation, MenuSetDependency, StartInput, TypeInput,
           EnterCoApproval, Choose, ConfirmCoApproval
  <1>2. ThreadOK' /\ CacheOK'
    BY <1>1, ThreadKept, CacheSteps
  <1>3. ScreenOK' /\ Selection' /\ OneMilestoneAtATime'
    <2> USE <1>1 DEF ScreenOK, Selection, OneMilestoneAtATime, annotations, Executing,
                     Reading, Modes, Contents
    <2>1. CASE CreateAnnotation \/ MenuSetDependency
      <3>1. /\ UNCHANGED <<lane, content, selected, coApproval>>
            /\ Reading /\ mode \in {"AnnotationThread", "ReviewMenu"}
            /\ \E kind \in {"review-request", "set-dependency"} :
                  StartInput(selected, kind)
        BY <2>1 DEF CreateAnnotation, MenuSetDependency, OnThread, OnMenu
      <3>2. selected # Nothing /\ selected \in Milestones \cup {Nothing}
        BY <3>1
      <3>3. /\ mode' = "Input" /\ input'.target = selected
            /\ input' \in [target : Milestones \cup {Nothing},
                           kind : {"review-request", "set-dependency"},
                           typed : BOOLEAN]
        BY <3>1, <3>2 DEF StartInput
      <3> QED BY <3>1, <3>2, <3>3
    <2>2. CASE \E typed \in BOOLEAN : TypeInput(typed)
      BY <2>2 DEF TypeInput, OnInput
    <2>3. CASE EnterCoApproval
      <3>1. PICK i \in Current :
               coApproval' = [id |-> i, status |-> thread[i],
                              choice |-> Nothing, state |-> "Choosing"]
        BY <2>3 DEF EnterCoApproval
      <3>2. i \in DOMAIN thread /\ thread[i] \in Statuses /\ i \in DOMAIN notes
        BY <3>1 DEF Current, AtCursor, Shown, ThreadOK
      <3>3. i # 0
        BY <3>2, LenProperties DEF ThreadOK
      <3> QED BY <2>3, <3>1, <3>2, <3>3 DEF EnterCoApproval, OnThread
    <2>4. CASE \E choice \in {"Approve", "Reject"} : Choose(choice)
      BY <2>4 DEF Choose, Calm
    <2>5. CASE ConfirmCoApproval
      BY <2>5 DEF ConfirmCoApproval, Calm
    <2> QED BY <2>1, <2>2, <2>3, <2>4, <2>5
  <1> QED BY <1>2, <1>3

\* Keys and clicks after which a lane is read, or has to be.
LEMMA LaneKeys ==
    ASSUME IInv,
           \/ \E l \in Lanes : GoToLane(l)
           \/ RefreshOverview
           \/ \E m \in Milestones : OpenInboxItem(m)
           \/ MenuApprove \/ MenuBlock
           \/ SubmitDependency
    PROVE  IInv'
  <1> USE DEF IInv, plan, screen
  <1>1. /\ UNCHANGED <<notes, annotations, others>>
        /\ mode' = "AnnotationThread" => mode = "AnnotationThread"
    BY DEF GoToLane, SelectedMode, RefreshOverview, OpenInboxItem, MenuApprove,
           MenuBlock, SubmitDependency
  <1>2. ThreadOK'
    BY <1>1, ThreadKept
  <1>3. CacheOK'
    <2>1. CASE \E l \in Lanes : GoToLane(l)
      BY <2>1, CacheSteps DEF GoToLane
    <2>2. CASE RefreshOverview
      BY <2>2, CacheSteps DEF RefreshOverview, LoadLane, Lanes
    <2>3. CASE \E m \in Milestones : OpenInboxItem(m)
      BY <2>3, CacheSteps DEF OpenInboxItem, LoadLane, Lanes
    <2>4. CASE MenuApprove
      <3>1. selected \in Milestones
        BY <2>4 DEF MenuApprove, OnMenu, Selection, ScreenOK
      <3> QED BY <2>4, <3>1, CacheSteps DEF MenuApprove, CacheOK
    <2>5. CASE MenuBlock
      BY <2>5, CacheSteps DEF MenuBlock, CacheOK
    <2>6. CASE SubmitDependency
      BY <2>6, CacheSteps DEF SubmitDependency, CacheOK
    <2> QED BY <2>1, <2>2, <2>3, <2>4, <2>5, <2>6
  <1>4. ScreenOK' /\ Selection' /\ OneMilestoneAtATime'
    <2> USE <1>1 DEF ScreenOK, Selection, OneMilestoneAtATime, annotations, Executing,
                     Reading, Modes, Contents, Lanes
    <2>1. CASE \E l \in Lanes : GoToLane(l)
      BY <2>1 DEF GoToLane, SelectedMode, Idle, Statuses
    <2>2. CASE RefreshOverview
      BY <2>2 DEF RefreshOverview
    <2>3. CASE \E m \in Milestones : OpenInboxItem(m)
      BY <2>3, RaulAssumption DEF OpenInboxItem, Calm
    <2>4. CASE MenuApprove \/ MenuBlock
      BY <2>4 DEF MenuApprove, MenuBlock, OnMenu
    <2>5. CASE SubmitDependency
      BY <2>5 DEF SubmitDependency, OnInput, NoInput
    <2> QED BY <2>1, <2>2, <2>3, <2>4, <2>5
  <1> QED BY <1>2, <1>3, <1>4

\* Keys that move the cursor.
LEMMA CursorKeys ==
    ASSUME IInv, (\E row \in 0..MaxNotes : PointAt(row)) \/ ToggleFilter
    PROVE  IInv'
  <1> USE DEF IInv, plan, screen
  <1>1. UNCHANGED <<plan, others, screen, lists, thread, input, coApproval>>
    BY DEF PointAt, ToggleFilter
  <1>2. /\ cursor' \in Nat /\ openOnly' \in BOOLEAN /\ CursorOnARow'
    <2>1. CASE \E row \in 0..MaxNotes : PointAt(row)
      BY <1>1, <2>1 DEF PointAt, ThreadOK, CursorOnARow, Shown
    <2>2. CASE ToggleFilter
      <3>1. Len(notes) \in Nat /\ DOMAIN notes = 1..Len(notes)
        BY LenProperties DEF ThreadOK
      <3>2. /\ Shown(thread, openOnly') \subseteq Nat
            /\ IsFiniteSet(Shown(thread, openOnly'))
        BY <3>1, RowsOfPlan DEF ThreadOK
      <3>3. /\ cursor' \in Nat
            /\ Shown(thread, openOnly') # {} =>
                  cursor' < Cardinality(Shown(thread, openOnly'))
        BY <2>2, <3>2, ReanchoredInside DEF ToggleFilter, ThreadOK
      <3>4. CursorOnARow'
        BY <1>1, <3>3 DEF CursorOnARow
      <3> QED BY <2>2, <3>3, <3>4 DEF ToggleFilter, ThreadOK
    <2> QED BY <2>1, <2>2
  <1>3. ThreadOK'
    BY <1>1, <1>2 DEF ThreadOK, ThreadIsCurrent
  <1>4. CacheOK'
    BY <1>1, CacheSteps
  <1> QED BY <1>1, <1>3, <1>4 DEF ScreenOK, Selection, OneMilestoneAtATime, Executing

\* The annotation under the cursor.
LEMMA CurrentRow ==
    ASSUME IInv, NEW i \in Current
    PROVE  i \in DOMAIN thread /\ i \in DOMAIN notes
  BY DEF Current, AtCursor, Shown, IInv, ThreadOK

\* What is typed of the screen stays so when the plan grows.
LEMMA ScreenKept ==
    ASSUME IInv, Grows, UNCHANGED <<lane, content, mode, selected, input, coApproval>>
    PROVE  ScreenOK' /\ Selection'
  <1>1. DOMAIN notes \subseteq DOMAIN notes'
    BY LenProperties DEF IInv, ThreadOK, Grows
  <1> QED BY <1>1 DEF IInv, ScreenOK, Selection, Executing

\* r and R.
LEMMA SettleKeys ==
    ASSUME IInv, ResolveAnnotation \/ ReopenAnnotation
    PROVE  IInv'
  <1> USE DEF plan, screen, annotations
  <1>1. PICK i \in Current :
           /\ OnThread
           /\ \/ Dies
              \/ /\ notes' \in {Resolved(i), Reopened(i)}
                 /\ Invalidate
                 /\ LoadThread(selected, cursor)
                 /\ UNCHANGED <<approved, others, screen, input, coApproval>>
    BY DEF ResolveAnnotation, ReopenAnnotation, Settle
  <1>2. CASE Dies
    BY <1>1, <1>2, ScreenKeys DEF MpFails, OnThread
  <1>3. CASE ~Dies
    <2>1. /\ notes' \in {Resolved(i), Reopened(i)}
          /\ Invalidate
          /\ LoadThread(selected, cursor)
          /\ UNCHANGED <<approved, others, screen, input, coApproval>>
      BY <1>1, <1>3
    <2>2. Grows
      BY <1>1, <2>1, CurrentRow, IInvTypes, Writes
    <2>3. ThreadOK' /\ \A j \in DOMAIN thread' : notes'[j].target = selected
      BY <2>1, <2>2, ThreadLoaded DEF IInv, ThreadOK
    <2>4. CacheOK'
      BY <2>1, CacheSteps DEF IInv, CacheOK
    <2>5. ScreenOK' /\ Selection'
      BY <2>1, <2>2, ScreenKept
    <2>6. OneMilestoneAtATime'
      BY <2>1, <2>2, <2>3
      DEF IInv, OneMilestoneAtATime, Grows, ScreenOK
    <2> QED BY <2>3, <2>4, <2>5, <2>6 DEF IInv
  <1> QED BY <1>2, <1>3

\* The thread is opened.
LEMMA OpenThreadKey ==
    ASSUME IInv, OpenThread
    PROVE  IInv'
  <1>1. Grows
    BY IInvTypes, Writes DEF OpenThread
  <1>2. ThreadOK' /\ \A i \in DOMAIN thread' : notes'[i].target = selected
    BY <1>1, ThreadLoaded DEF OpenThread
  <1>3. CacheOK'
    BY CacheSteps DEF OpenThread, IInv
  <1>4. ScreenOK' /\ Selection' /\ OneMilestoneAtATime'
    BY <1>2 DEF OpenThread, IInv, ScreenOK, Selection, OneMilestoneAtATime, Executing,
                Calm, Reading, Modes, Contents
  <1> QED BY <1>2, <1>3, <1>4 DEF IInv

\* An annotation is written.
LEMMA SubmitKey ==
    ASSUME IInv, SubmitAnnotation
    PROVE  IInv'
  <1>1. input.target = selected /\ selected \in Milestones
    BY DEF SubmitAnnotation, OnInput, IInv, OneMilestoneAtATime, ScreenOK
  <1>2. Grows
    BY <1>1, IInvTypes, Writes DEF SubmitAnnotation, Kinds
  <1>3. ThreadOK' /\ \A i \in DOMAIN thread' : notes'[i].target = selected
    BY <1>1, <1>2, ThreadLoaded DEF SubmitAnnotation, IInv, ThreadOK
  <1>4. CacheOK'
    BY CacheSteps DEF SubmitAnnotation, IInv, CacheOK
  <1>5. DOMAIN notes \subseteq DOMAIN notes'
    BY <1>2, LenProperties DEF IInv, ThreadOK, Grows
  <1>6. ScreenOK' /\ Selection'
    BY <1>5 DEF SubmitAnnotation, OnInput, Reading, IInv, ScreenOK, Selection,
                Executing, NoInput, Modes
  <1>7. OneMilestoneAtATime'
    BY <1>2, <1>3, <1>5
    DEF SubmitAnnotation, IInv, OneMilestoneAtATime, ScreenOK, Grows
  <1> QED BY <1>3, <1>4, <1>6, <1>7 DEF IInv

\* A command of the co-approval returned; the thread is read again, or is not.
LEMMA CoStepKeeps ==
    ASSUME IInv, Executing, Grows, Refresh, CacheOK',
           UNCHANGED <<others, screen, input>>,
           coApproval' \in [id : {coApproval.id}, status : Statuses,
                            choice : {coApproval.choice},
                            state : {"Choosing", "Executing", "Confirmed"}]
    PROVE  IInv'
  <1> USE DEF screen
  <1>1. /\ content = "CoApproval" /\ mode = "Normal" /\ selected # Nothing
        /\ coApproval.id # 0 /\ coApproval.id \in DOMAIN notes
        /\ coApproval.choice \in {Nothing, "Approve", "Reject"}
        /\ CoMilestone = selected
    BY DEF IInv, Selection, ScreenOK, OneMilestoneAtATime, CoMilestone
  <1>2. DOMAIN notes \subseteq DOMAIN notes'
    BY LenProperties DEF IInv, ThreadOK, Grows
  <1>3. coApproval'.id = coApproval.id
    OBVIOUS
  <1>4. ScreenOK' /\ Selection'
    BY <1>1, <1>2, <1>3 DEF IInv, ScreenOK, Selection, Executing
  <1>5. ThreadOK' /\ \A i \in DOMAIN thread' : notes'[i].target = selected
    <2>1. CASE LoadThread(CoMilestone, cursor)
      BY <1>1, <2>1, ThreadLoaded DEF IInv, ThreadOK
    <2>2. CASE UNCHANGED annotations
      <3>1. ThreadOK'
        BY <1>1, <2>2, ThreadLeft DEF IInv
      <3>2. DOMAIN thread \subseteq DOMAIN notes /\ thread' = thread
        BY <2>2 DEF IInv, ThreadOK, annotations
      <3>3. \A i \in DOMAIN thread : notes[i].target = selected
        BY <1>1 DEF IInv, OneMilestoneAtATime
      <3> QED BY <3>1, <3>2, <3>3 DEF Grows
    <2> QED BY <2>1, <2>2 DEF Refresh
  <1>6. OneMilestoneAtATime'
    <2>1. notes'[coApproval.id].target = selected
      BY <1>1 DEF CoMilestone, Grows
    <2> QED BY <1>1, <1>3, <1>5, <2>1 DEF OneMilestoneAtATime
  <1> QED BY <1>4, <1>5, <1>6 DEF IInv

LEMMA CoApprovalKeeps ==
    ASSUME IInv, CoApprovalStep
    PROVE  IInv'
  <1> USE DEF CoUnchanged, plan
  <1>1. /\ coApproval.id # 0 /\ coApproval.id \in DOMAIN notes
        /\ content = "CoApproval" /\ CoMilestone \in Milestones
        /\ coApproval.choice \in {Nothing, "Approve", "Reject"}
        /\ Executing
    BY DEF CoApprovalStep, CoResolve, CoApprove, CoReopen, IInv, Selection, ScreenOK,
           OneMilestoneAtATime, CoMilestone
  <1>2. Grows
    BY <1>1, IInvTypes, Writes
    DEF CoApprovalStep, CoResolve, CoApprove, CoReopen, Failed
  <1>3. CacheOK'
    <2>1. UNCHANGED <<approved, lists>> \/ (Invalidate /\ approved' \subseteq Milestones)
      BY <1>1 DEF CoApprovalStep, CoResolve, CoApprove, CoReopen, Failed, IInv, CacheOK
    <2> QED BY <2>1, CacheSteps DEF IInv
  <1>4. coApproval' \in [id : {coApproval.id}, status : Statuses,
                         choice : {coApproval.choice},
                         state : {"Choosing", "Executing", "Confirmed"}]
    BY DEF CoApprovalStep, CoResolve, CoApprove, CoReopen, Failed, IInv, ScreenOK,
           Statuses, Executing
  <1>5. Refresh /\ UNCHANGED <<others, screen, input>>
    BY DEF CoApprovalStep, CoResolve, CoApprove, CoReopen, Failed, Refresh
  <1> QED BY <1>1, <1>2, <1>3, <1>4, <1>5, CoStepKeeps

\* Another process writes.
LEMMA OthersKeep ==
    ASSUME IInv, Others
    PROVE  IInv'
  <1> USE DEF screen
  <1>1. Grows
    BY IInvTypes, Writes DEF Others
  <1>2. UNCHANGED <<approved, screen, lists, annotations, input, coApproval>>
    BY DEF Others
  <1>3. others' \in 0..MaxOthers /\ others' # 0
    BY RaulAssumption DEF Others, IInv, ThreadOK
  <1>4. DOMAIN notes \subseteq DOMAIN notes'
    BY <1>1, LenProperties DEF IInv, ThreadOK, Grows
  <1>5. ThreadOK'
    BY <1>1, <1>2, <1>3, <1>4
    DEF IInv, ThreadOK, ThreadIsCurrent, CursorOnARow, Shown, annotations, Grows
  <1>6. CacheOK'
    BY <1>2, CacheSteps DEF IInv
  <1>7. ScreenOK' /\ Selection'
    BY <1>1, <1>2, ScreenKept
  <1>8. OneMilestoneAtATime'
    BY <1>1, <1>2
    DEF IInv, ThreadOK, ScreenOK, OneMilestoneAtATime, annotations, Grows
  <1> QED BY <1>5, <1>6, <1>7, <1>8 DEF IInv

-----------------------------------------------------------------------------
LEMMA InitIInv == Init => IInv
  <1> SUFFICES ASSUME Init PROVE IInv
    OBVIOUS
  <1> USE DEF Init
  <1>1. ScreenOK
    BY DEF ScreenOK, Lanes, Contents, Modes, NoInput, Idle, Statuses
  <1>2. CacheOK
    BY DEF CacheOK, Lanes
  <1>3. ThreadOK
    <2>1. Shown(thread, openOnly) = {}
      BY DEF Shown
    <2>2. CursorOnARow
      BY <2>1 DEF CursorOnARow
    <2>3. DOMAIN thread = {} /\ thread \in [DOMAIN thread -> Statuses]
      BY EmptySeq, LenProperties
    <2>4. notes \in Seq(Note) /\ Len(notes) <= MaxNotes /\ others \in 0..MaxOthers
      BY RaulAssumption
    <2> QED BY <2>2, <2>3, <2>4 DEF ThreadOK, ThreadIsCurrent
  <1>4. Selection /\ OneMilestoneAtATime
    BY DEF Selection, OneMilestoneAtATime, Executing, Idle
  <1> QED BY <1>1, <1>2, <1>3, <1>4 DEF IInv

LEMMA NextIInv == IInv /\ [Next]_vars => IInv'
  <1> SUFFICES ASSUME IInv, [Next]_vars PROVE IInv'
    OBVIOUS
  <1>1. CASE \E l \in Lanes : GoToLane(l)
    BY <1>1, LaneKeys
  <1>2. CASE RefreshOverview \/ MenuApprove \/ MenuBlock \/ SubmitDependency
    BY <1>2, LaneKeys
  <1>3. CASE \E m \in Milestones : OpenMilestone(m) \/ OpenInboxItem(m)
    BY <1>3, LaneKeys, ScreenKeys
  <1>4. CASE OpenThread
    BY <1>4, OpenThreadKey
  <1>5. CASE (\E row \in 0..MaxNotes : PointAt(row)) \/ ToggleFilter
    BY <1>5, CursorKeys
  <1>6. CASE ResolveAnnotation \/ ReopenAnnotation
    BY <1>6, SettleKeys
  <1>7. CASE CreateAnnotation \/ EnterCoApproval \/ MenuSetDependency
             \/ ConfirmCoApproval
    BY <1>7, ModalKeys
  <1>8. CASE \E choice \in {"Approve", "Reject"} : Choose(choice)
    BY <1>8, ModalKeys
  <1>9. CASE CoApprovalStep
    BY <1>9, CoApprovalKeeps
  <1>10. CASE OpenReviewMenu \/ SubmitEmpty \/ Quit \/ MpFails
    BY <1>10, ScreenKeys
  <1>11. CASE \E typed \in BOOLEAN : TypeInput(typed)
    BY <1>11, ModalKeys
  <1>12. CASE SubmitAnnotation
    BY <1>12, SubmitKey
  <1>13. CASE \E overlay \in {"Help"} \cup Narrowing : OpenOverlay(overlay)
    BY <1>13, ScreenKeys
  <1>14. CASE Dismiss(Narrowing) \/ CloseHelp \/ EscKey
    <2>1. CloseThread \/ LeaveContent
          \/ \E overlays \in {Narrowing, Cancellable, {"Help"}} : Dismiss(overlays)
      BY <1>14 DEF CloseHelp, EscKey
    <2> QED BY <2>1, ScreenKeys
  <1>15. CASE Others
    BY <1>15, OthersKeep
  <1>16. CASE UNCHANGED vars
    BY <1>16
    DEF vars, plan, screen, lists, annotations, IInv, ScreenOK, CacheOK, ThreadOK,
        CursorOnARow, ThreadIsCurrent, Shown, Selection, Executing,
        OneMilestoneAtATime
  <1> QED
    BY <1>1, <1>2, <1>3, <1>4, <1>5, <1>6, <1>7, <1>8, <1>9, <1>10, <1>11, <1>12,
       <1>13, <1>14, <1>15, <1>16 DEF Next

LEMMA Invariance == Spec => []IInv
  BY InitIInv, NextIInv, PTL DEF Spec

-----------------------------------------------------------------------------
\* Every variable keeps its type.
THEOREM TypeCorrect == Spec => []TypeOK
  BY Invariance, IInvTypes, PTL

\* The annotations, the request and the prompt on the screen are the selected
\* milestone's, whichever keys and clicks led there.
THEOREM OneMilestoneAtATimeHolds == Spec => []OneMilestoneAtATime
  BY Invariance, PTL DEF IInv

\* The cursor is on a row of the thread as long as there is one, for threads of any
\* length and with any writes in between.
THEOREM CursorOnARowHolds == Spec => []CursorOnARow
  <1>1. IInv => CursorOnARow
    BY DEF IInv, ThreadOK
  <1> QED BY <1>1, Invariance, PTL

\* Whoever enters a lane sees every approval raul made, whatever was cached.
THEOREM EntryShowsOwnWritesHolds == Spec => EntryShowsOwnWrites
  <1>1. ASSUME IInv, NEW l \in Lanes, Entered(l)
        PROVE  shown'[l] = approved'
    <2>1. CacheOK
      BY <1>1 DEF IInv
    <2>2. CASE GoToLane(l)
      BY <2>1, <2>2, LoadedIsShown DEF GoToLane, plan
    <2>3. CASE l = "Overview" /\ RefreshOverview
      BY <2>1, <2>3, LoadedIsShown DEF RefreshOverview, LoadLane, plan
    <2>4. CASE l # lane /\ lane' = l /\ \E m \in Milestones : OpenInboxItem(m)
      BY <2>1, <2>4, LoadedIsShown DEF OpenInboxItem, LoadLane, plan
    <2> QED BY <1>1, <2>2, <2>3, <2>4 DEF Entered
  <1>2. IInv => [\A l \in Lanes : Entered(l) => shown'[l] = approved']_vars
    BY <1>1
  <1> QED BY <1>2, Invariance, PTL DEF EntryShowsOwnWrites

\* The keys of a thread act on the statuses of the plan until somebody else writes.
THEOREM ThreadIsCurrentHolds == Spec => []ThreadIsCurrent
  <1>1. IInv => ThreadIsCurrent
    BY DEF IInv, ThreadOK
  <1> QED BY <1>1, Invariance, PTL

=============================================================================
