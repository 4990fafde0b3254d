--------------------------------- MODULE Raul ---------------------------------
(***************************************************************************)
(* raul, the terminal front end (crates/raul/src/tui): one event loop that *)
(* turns a key or a click into actions (runner.rs, modes/, action.rs) on   *)
(* one App (app.rs), and runs mp for whatever it reads or writes.  Which   *)
(* keys work is decided by the mode, what is shown by the lane and the     *)
(* content, and the three are set by different actions: the mouse changes  *)
(* the lane under any mode but Help.  Other processes write the plan       *)
(* between any two mp commands.                                            *)
(*                                                                         *)
(* Modelled are the Overview and the Milestones lane, under the default    *)
(* key bindings.  Which rows a list has and where its cursor is are        *)
(* abstracted: any milestone may be opened.  Of the milestones themselves  *)
(* only those are told apart that this raul approved: mp may refuse an     *)
(* approval for many reasons, that somebody else was faster among them.    *)
(***************************************************************************)
EXTENDS Naturals, Sequences, FiniteSets

CONSTANTS
    Milestones,
    Nothing,        \* no milestone, no payload
    Start,          \* the annotations of the plan raul is started on
    MaxNotes,       \* bound: annotations in the plan
    MaxOthers       \* bound: writes by other processes

VARIABLES
    approved,       \* the plan: milestones this raul approved
    notes,          \* the plan: annotations.json, an annotation's id is its place
    others,         \* writes of other processes so far
    lane,           \* App::active_lane
    content,        \* App::content
    mode,           \* App::active_mode, less what it carries; Gone when raul ended
    selected,       \* App::selected_milestone_id
    cache,          \* App::lane_cache: which of them the payload of a lane has
    shown,          \* App::dashboard, App::milestones: which of them a lane shows
    thread,         \* App::annotations: the status of each annotation loaded
    cursor,         \* App::selected_annotation_index
    openOnly,       \* App::open_only
    input,          \* Mode::Input: its target, its kind, is anything typed?
    coApproval      \* App::co_approval_*

plan == <<approved, notes>>
screen == <<lane, content, mode, selected>>
lists == <<cache, shown>>
annotations == <<thread, cursor, openOnly>>

vars == <<plan, others, screen, lists, annotations, input, coApproval>>

Lanes == {"Overview", "Milestones"}
Contents == {"List", "MilestoneDetail", "AnnotationThread", "CoApproval"}
Modes == {"Normal", "Input", "Help", "AnnotationThread", "ReviewMenu",
          "LifecycleFilter", "SearchInput"}
Kinds == {"approval-request", "review-request"}
Statuses == {"open", "addressed", "resolved"}
Note == [target : Milestones, kind : Kinds, status : Statuses]

ASSUME RaulAssumption ==
    /\ IsFiniteSet(Milestones)
    /\ Nothing \notin Milestones
    /\ \A payload \in SUBSET Milestones : payload # Nothing
    /\ \A n \in Start : n \in Seq(Note) /\ Len(n) <= MaxNotes
    /\ MaxNotes \in Nat /\ MaxOthers \in Nat

Unresolved(status) == status \in {"open", "addressed"}

Idle == [id |-> 0, status |-> "open", choice |-> Nothing, state |-> "Choosing"]

NoInput == [target |-> Nothing, kind |-> "review-request", typed |-> FALSE]

Init ==
    /\ approved = {}
    /\ notes \in Start
    /\ others = 0
    /\ lane = "Overview" /\ content = "List" /\ mode = "Normal"
    /\ selected = Nothing
    /\ cache = [l \in Lanes |-> IF l = "Overview" THEN approved ELSE Nothing]
    /\ shown = cache
    /\ thread = <<>> /\ cursor = 0 /\ openOnly = FALSE
    /\ input = NoInput
    /\ coApproval = Idle

-----------------------------------------------------------------------------
\* What raul runs mp for.

\* annotation resolve, and annotation reopen: refused in any other status.
Resolved(id) == [notes EXCEPT ![id].status = "resolved"]
Reopened(id) == [notes EXCEPT ![id].status = "open"]
MayResolve(id) == Unresolved(notes[id].status)
MayReopen(id) == notes[id].status = "resolved"

\* annotation create.
WithNew(target, kind) ==
    Append(notes, [target |-> target, kind |-> kind, status |-> "open"])

\* Mutant: the Milestones lane is forgotten.
InvalidatedOverview == [cache EXCEPT !["Overview"] = Nothing]
\* After each write the payloads of both lanes are dropped.
Invalidated == [l \in Lanes |-> Nothing]

\* The lists shown stay.
Invalidate == cache' = Invalidated /\ UNCHANGED shown

\* A lane shows what mp returns, or what its payload had.
Read(l, kept) ==
    /\ cache' = [kept EXCEPT ![l] = approved]
    /\ shown' = [shown EXCEPT ![l] = approved]

ShowCached(l) ==
    /\ cache[l] # Nothing
    /\ shown' = [shown EXCEPT ![l] = cache[l]]
    /\ UNCHANGED cache

\* load_dashboard, load_milestones: a cached payload will do unless it is older
\* than the TTL.
LoadCached(l) == ShowCached(l) \/ Read(l, cache)

\* load_data_for_lane: and unless a file of the plan has a new mtime, when
\* every payload goes.
LoadLane(l) == LoadCached(l) \/ Read(l, [k \in Lanes |-> Nothing])

-----------------------------------------------------------------------------
\* The annotations of the thread.

\* visible_annotations
Shown(statuses, only) ==
    {i \in DOMAIN statuses : only => statuses[i] = "open"}

PositionIn(ids, id) == Cardinality({i \in ids : i < id})

\* selected_annotation: none when the cursor is past the last row.
AtCursor(position) ==
    {i \in Shown(thread, openOnly) : PositionIn(Shown(thread, openOnly), i) = position}
Current == AtCursor(cursor)

\* Mutant: the cursor keeps its number.
NotReanchored(position, ids) == position

\* reanchor_annotation_selection: stay on the annotation, or else in the list.
Reanchored(position, ids) ==
    LET kept == AtCursor(position) \cap ids
    IN  IF kept # {} THEN PositionIn(ids, CHOOSE i \in kept : TRUE)
        ELSE IF position < Cardinality(ids) THEN position
        ELSE IF ids = {} THEN 0
        ELSE Cardinality(ids) - 1

\* Mutant: the thread is read before the write it is read for.
LoadThreadBefore(milestone, position) ==
    /\ thread' = [i \in {i \in DOMAIN notes : notes[i].target = milestone} |->
                    notes[i].status]
    /\ cursor' = Reanchored(position, Shown(thread', openOnly))
    /\ UNCHANGED openOnly

\* load_annotations: all of one milestone's.
LoadThread(milestone, position) ==
    LET its == {i \in DOMAIN notes' : notes'[i].target = milestone}
    IN  /\ thread' = [i \in its |-> notes'[i].status]
        /\ cursor' = Reanchored(position, Shown(thread', openOnly))
        /\ UNCHANGED openOnly

-----------------------------------------------------------------------------
\* No key is read once raul has ended, nor while the co-approval runs.
Reading == mode # "Gone" /\ coApproval.state # "Executing"

\* dispatch_key: each mode has its keys, Normal those of the lane and the content.
\* Mutant: the keys of Normal shine through.
CalmInAnyMode == Reading
Calm == Reading /\ mode = "Normal"

\* A failed mp command ends raul: the event loop propagates its error.
Dies ==
    /\ mode' = "Gone"
    /\ UNCHANGED <<plan, others, lane, content, selected, lists, annotations,
                   input, coApproval>>

\* mp, or the terminal, may fail at any key.
MpFails == Reading /\ Dies

\* select_lane: a search does not follow to another lane.
SelectedMode == IF mode = "SearchInput" THEN "Normal" ELSE mode

\* Lane keys in Normal, a click on a tab in every mode but Help.
GoToLane(l) ==
    /\ Reading /\ mode # "Help"
    /\ lane' = l
    /\ content' = "List"
    /\ mode' = SelectedMode
    /\ coApproval' = Idle
    /\ LoadLane(l)
    /\ UNCHANGED <<plan, others, selected, annotations, input>>

RefreshOverview ==
    /\ Calm /\ content = "List" /\ lane = "Overview"
    /\ LoadCached("Overview")
    /\ UNCHANGED <<plan, others, screen, annotations, input, coApproval>>

\* Enter on a row of the list.
OpenMilestone(m) ==
    /\ Calm /\ content = "List" /\ lane = "Milestones"
    /\ selected' = m
    /\ content' = "MilestoneDetail"
    /\ UNCHANGED <<plan, others, lane, mode, lists, annotations, input,
                   coApproval>>

\* Enter on a row of the inbox: a milestone changes the lane, a review does not.
OpenInboxItem(m) ==
    /\ Calm /\ content = "List" /\ lane = "Overview"
    /\ selected' = m
    /\ content' = "MilestoneDetail"
    /\ \/ lane' = "Milestones" /\ LoadCached("Milestones")
       \/ UNCHANGED <<lane, lists>>
    /\ UNCHANGED <<plan, others, mode, annotations, input, coApproval>>

-----------------------------------------------------------------------------
\* The thread.

\* Enter on the detail of a milestone.
OpenThread ==
    /\ Calm /\ content = "MilestoneDetail"
    /\ content' = "AnnotationThread"
    /\ mode' = "AnnotationThread"
    /\ UNCHANGED notes
    /\ LoadThread(selected, 0)
    /\ UNCHANGED <<approved, others, lane, selected, lists, input, coApproval>>

\* Up, Down, the wheel or a click.
PointAt(row) ==
    /\ Reading /\ mode \notin {"Help", "ReviewMenu"} /\ content = "AnnotationThread"
    /\ row < Cardinality(Shown(thread, openOnly))
    /\ cursor' = row
    /\ UNCHANGED <<plan, others, screen, lists, thread, openOnly, input,
                   coApproval>>

\* The keys of the thread work on whatever lane is shown.
OnThread == Reading /\ mode = "AnnotationThread"

\* r and R: what they may do is read from the copy, mp decides on the plan.
Settle(i, may, outcome) ==
    IF may
    THEN /\ notes' = outcome
         /\ Invalidate
         /\ LoadThread(selected, cursor)
         /\ UNCHANGED <<approved, others, screen, input, coApproval>>
    ELSE Dies

ResolveAnnotation ==
    /\ OnThread
    /\ \E i \in Current :
          Unresolved(thread[i]) /\ Settle(i, MayResolve(i), Resolved(i))

ReopenAnnotation ==
    /\ OnThread
    /\ \E i \in Current :
          thread[i] = "resolved" /\ Settle(i, MayReopen(i), Reopened(i))

StartInput(target, kind) ==
    /\ mode' = "Input"
    /\ input' = [target |-> target, kind |-> kind, typed |-> FALSE]

CreateAnnotation ==
    /\ OnThread
    /\ StartInput(selected, "review-request")
    /\ UNCHANGED <<plan, others, lane, content, selected, lists, annotations,
                   coApproval>>

\* Enter on an approval request that is not resolved.  The mode stays.
EnterCoApproval ==
    /\ OnThread
    /\ \E i \in Current :
          /\ notes[i].kind = "approval-request" /\ Unresolved(thread[i])
          /\ coApproval' = [id |-> i, status |-> thread[i],
                            choice |-> Nothing, state |-> "Choosing"]
    /\ content' = "CoApproval"
    /\ UNCHANGED <<plan, others, lane, mode, selected, lists, annotations,
                   input>>

\* App::go_back.  What is left of the co-approval is not read again before
\* enter_co_approval replaces it, and forgotten here.
GoBack ==
    /\ content' = CASE content = "CoApproval" -> "AnnotationThread"
                    [] content = "AnnotationThread" -> "MilestoneDetail"
                    [] OTHER -> "List"
    /\ lane' = IF content = "List" THEN "Overview" ELSE lane
    /\ coApproval' = Idle
    /\ UNCHANGED <<plan, others, selected, lists, annotations, input>>

\* Mutant: the keys of the thread stay after it.
CloseThreadKeepsMode == OnThread /\ UNCHANGED mode /\ GoBack
CloseThread == OnThread /\ mode' = "Normal" /\ GoBack

\* Esc on what is shown over the list.
LeaveContent == Calm /\ content # "List" /\ UNCHANGED mode /\ GoBack

-----------------------------------------------------------------------------
\* Co-approval.

Choose(choice) ==
    /\ Calm /\ content = "CoApproval"
    /\ coApproval' = [coApproval EXCEPT !.choice = choice]
    /\ UNCHANGED <<plan, others, screen, lists, annotations, input>>

\* begin_co_approval_execution
ConfirmCoApproval ==
    /\ Calm /\ content = "CoApproval"
    /\ coApproval.state = "Choosing" /\ coApproval.id # 0
    /\ coApproval.choice # Nothing
    /\ coApproval' = [coApproval EXCEPT !.state = "Executing"]
    /\ UNCHANGED <<plan, others, screen, lists, annotations, input>>

Executing == coApproval.state = "Executing"

\* co_approval_milestone_id is the target of the request.
CoMilestone == notes[coApproval.id].target

\* After the commands, best effort: the thread is read again, or stays.
Refresh ==
    \/ LoadThread(CoMilestone, cursor)
    \/ UNCHANGED annotations

CoUnchanged == UNCHANGED <<others, screen, input>>

\* A command failed: the modal stays and may be confirmed again.
Failed ==
    /\ coApproval' = [coApproval EXCEPT !.state = "Choosing"]
    /\ UNCHANGED <<plan, lists>>
    /\ Refresh

\* The request is resolved first, whichever the choice; for a decline that is all.
CoResolve ==
    /\ Executing /\ Unresolved(coApproval.status)
    /\ \/ /\ MayResolve(coApproval.id)
          /\ notes' = Resolved(coApproval.id)
          /\ Invalidate
          /\ UNCHANGED approved
          /\ \/ /\ coApproval.choice = "Approve"
                /\ coApproval' = [coApproval EXCEPT !.status = "resolved"]
                /\ UNCHANGED annotations
             \/ /\ coApproval.choice = "Reject"
                /\ coApproval' = [coApproval EXCEPT !.status = "resolved",
                                                    !.state = "Confirmed"]
                /\ Refresh
       \/ Failed
    /\ CoUnchanged

\* milestone approve: refused past groomed, and by its own gates.
CoApprove ==
    /\ Executing /\ coApproval.choice = "Approve" /\ coApproval.status = "resolved"
    /\ \/ /\ CoMilestone \notin approved
          /\ approved' = approved \cup {CoMilestone}
          /\ Invalidate
          /\ coApproval' = [coApproval EXCEPT !.state = "Confirmed"]
          /\ UNCHANGED notes
          /\ Refresh
       \/ Failed
    /\ CoUnchanged

\* A decline after an approval that got half way.
CoReopen ==
    /\ Executing /\ coApproval.choice = "Reject" /\ coApproval.status = "resolved"
    /\ \/ /\ MayReopen(coApproval.id)
          /\ notes' = Reopened(coApproval.id)
          /\ Invalidate
          /\ coApproval' = [coApproval EXCEPT !.status = "open",
                                              !.state = "Confirmed"]
          /\ UNCHANGED approved
          /\ Refresh
       \/ Failed
    /\ CoUnchanged

CoApprovalStep == CoResolve \/ CoApprove \/ CoReopen

-----------------------------------------------------------------------------
\* The review menu of a milestone's detail; a click on a tab leaves it open.

OpenReviewMenu ==
    /\ Calm /\ content = "MilestoneDetail"
    /\ mode' = "ReviewMenu"
    /\ UNCHANGED <<plan, others, lane, content, selected, lists, annotations,
                   input, coApproval>>

OnMenu == Reading /\ mode = "ReviewMenu"

\* A refusal of mp is shown, and that is all.
MenuApprove ==
    /\ OnMenu
    /\ mode' = "Normal"
    /\ \/ /\ selected \notin approved
          /\ approved' = approved \cup {selected}
          /\ Invalidate
       \/ UNCHANGED <<approved, lists>>
    /\ UNCHANGED <<notes, others, lane, content, selected, annotations, input,
                   coApproval>>

\* Block, Unblock: neither approves nor takes an approval back.  Request grooming
\* is always refused, its kind is none mp allows.
MenuBlock ==
    /\ OnMenu
    /\ mode' = "Normal"
    /\ Invalidate \/ UNCHANGED lists
    /\ UNCHANGED <<plan, others, lane, content, selected, annotations, input,
                   coApproval>>

MenuSetDependency ==
    /\ OnMenu
    /\ StartInput(selected, "set-dependency")
    /\ UNCHANGED <<plan, others, lane, content, selected, lists, annotations,
                   coApproval>>

-----------------------------------------------------------------------------
\* Prompts and modals.

OnInput == Reading /\ mode = "Input"

TypeInput(typed) ==
    /\ OnInput
    /\ input' = [input EXCEPT !.typed = typed]
    /\ UNCHANGED <<plan, others, screen, lists, annotations, coApproval>>

SubmitEmpty ==
    /\ OnInput /\ ~input.typed
    /\ mode' = "Normal"
    /\ input' = NoInput
    /\ UNCHANGED <<plan, others, lane, content, selected, lists, annotations,
                   coApproval>>

SubmitAnnotation ==
    /\ OnInput /\ input.typed /\ input.kind = "review-request"
    /\ Len(notes) < MaxNotes
    /\ mode' = "Normal"
    /\ input' = NoInput
    /\ notes' = WithNew(input.target, input.kind)
    /\ Invalidate
    /\ LoadThread(input.target, cursor)
    /\ UNCHANGED <<approved, others, lane, content, selected, coApproval>>

SubmitDependency ==
    /\ OnInput /\ input.typed /\ input.kind = "set-dependency"
    /\ mode' = "Normal"
    /\ input' = NoInput
    /\ Invalidate
    /\ UNCHANGED <<plan, others, lane, content, selected, annotations,
                   coApproval>>

\* Help is opened over a list; the lifecycle filter and the search, which narrows
\* the lane it is on as it is typed, over that of the milestones.
OpenOverlay(overlay) ==
    /\ Calm /\ content = "List"
    /\ overlay # "Help" => lane = "Milestones"
    /\ mode' = overlay
    /\ UNCHANGED <<plan, others, lane, content, selected, lists, annotations,
                   input, coApproval>>

\* Esc in an overlay, Enter in the filter and the search, ? in help.
Narrowing == {"LifecycleFilter", "SearchInput"}
Cancellable == {"Input", "ReviewMenu"} \cup Narrowing
Dismiss(overlays) ==
    /\ Reading /\ mode \in overlays
    /\ mode' = "Normal"
    /\ input' = NoInput
    /\ UNCHANGED <<plan, others, lane, content, selected, lists, annotations,
                   coApproval>>

CloseHelp == Dismiss({"Help"})

ToggleFilter ==
    /\ Calm /\ content = "List"
    /\ openOnly' = ~openOnly
    /\ cursor' = Reanchored(cursor, Shown(thread, openOnly'))
    /\ UNCHANGED <<plan, others, screen, lists, thread, input, coApproval>>

-----------------------------------------------------------------------------
Quit ==
    /\ Reading /\ mode \in {"Normal", "AnnotationThread", "Help"} /\ Dies

\* Another process writes an annotation.
Others ==
    /\ others < MaxOthers
    /\ others' = others + 1
    /\ \/ \E i \in DOMAIN notes :
             \/ MayResolve(i) /\ notes' = Resolved(i)
             \/ MayReopen(i) /\ notes' = Reopened(i)
             \/ /\ notes[i].status = "open"
                /\ notes' = [notes EXCEPT ![i].status = "addressed"]
       \/ /\ Len(notes) < MaxNotes
          /\ \E m \in Milestones, kind \in Kinds : notes' = WithNew(m, kind)
    /\ UNCHANGED <<approved, screen, lists, annotations, input, coApproval>>

\* What Esc does, by mode: nothing in help and on a bare list.
EscKey == CloseThread \/ LeaveContent \/ Dismiss(Cancellable)

Next ==
    \/ \E l \in Lanes : GoToLane(l)
    \/ RefreshOverview
    \/ \E m \in Milestones : OpenMilestone(m) \/ OpenInboxItem(m)
    \/ OpenThread
    \/ \E row \in 0..MaxNotes : PointAt(row)
    \/ ResolveAnnotation
    \/ ReopenAnnotation
    \/ CreateAnnotation
    \/ EnterCoApproval
    \/ \E choice \in {"Approve", "Reject"} : Choose(choice)
    \/ ConfirmCoApproval
    \/ CoApprovalStep
    \/ OpenReviewMenu
    \/ MenuApprove
    \/ MenuBlock
    \/ MenuSetDependency
    \/ \E typed \in BOOLEAN : TypeInput(typed)
    \/ SubmitEmpty
    \/ SubmitAnnotation
    \/ SubmitDependency
    \/ \E overlay \in {"Help"} \cup Narrowing : OpenOverlay(overlay)
    \/ Dismiss(Narrowing)
    \/ CloseHelp
    \/ ToggleFilter
    \/ EscKey
    \/ Quit
    \/ MpFails
    \/ Others

\* mp commands return, and a user who wants out keeps pressing Esc.
Spec ==
    Init /\ [][Next]_vars /\ WF_vars(CoApprovalStep) /\ WF_vars(EscKey)

-----------------------------------------------------------------------------
\* Properties.

TypeOK ==
    /\ approved \subseteq Milestones
    /\ notes \in Seq(Note) /\ Len(notes) <= MaxNotes
    /\ others \in 0..MaxOthers
    /\ lane \in Lanes /\ content \in Contents /\ mode \in Modes \cup {"Gone"}
    /\ selected \in Milestones \cup {Nothing}
    /\ cache \in [Lanes -> {Nothing} \cup SUBSET Milestones]
    /\ shown \in [Lanes -> {Nothing} \cup SUBSET Milestones]
    /\ DOMAIN thread \subseteq DOMAIN notes /\ thread \in [DOMAIN thread -> Statuses]
    /\ cursor \in Nat
    /\ openOnly \in BOOLEAN
    /\ input \in [target : Milestones \cup {Nothing},
                  kind : {"review-request", "set-dependency"}, typed : BOOLEAN]
    /\ coApproval \in
          [id : {0} \cup DOMAIN notes, status : Statuses,
           choice : {Nothing, "Approve", "Reject"},
           state : {"Choosing", "Executing", "Confirmed"}]

\* What the keys of a thread work on is the milestone that is selected, also when
\* a click took the screen to another lane under them: the annotations loaded,
\* the request a co-approval decides, and the target of a prompt all belong to
\* it (action.rs takes the target from the selection in one place and from the
\* annotation in another).
OneMilestoneAtATime ==
    /\ content \in {"AnnotationThread", "CoApproval"} \/ mode = "AnnotationThread" =>
          /\ selected # Nothing
          /\ \A i \in DOMAIN thread : notes[i].target = selected
    /\ content = "CoApproval" =>
          coApproval.id # 0 /\ notes[coApproval.id].target = selected
    /\ mode = "Input" => selected # Nothing /\ input.target = selected

\* While the thread has rows the cursor is on one of them, whatever was resolved,
\* reopened or filtered away since, here or by another process: the next r, R or
\* Enter acts on a row the user sees (reanchor_annotation_selection).
CursorOnARow ==
    Shown(thread, openOnly) # {} => cursor < Cardinality(Shown(thread, openOnly))

\* Whoever enters a lane by its key, by a click on its tab or from the inbox, or
\* refreshes the overview, sees every approval raul made itself, however quickly
\* he comes back and however coarse the mtimes are: no write leaves behind a
\* payload from before it (invalidate_after_lifecycle_write).  That is all a
\* lane promises: Esc reads nothing and shows the list from before the approval.
Entered(l) ==
    \/ GoToLane(l)
    \/ l = "Overview" /\ RefreshOverview
    \/ l # lane /\ lane' = l /\ \E m \in Milestones : OpenInboxItem(m)
EntryShowsOwnWrites == [][\A l \in Lanes : Entered(l) => shown'[l] = approved']_vars

\* As long as nobody else writes, the keys of a thread act on statuses the plan has:
\* a thread that could not be read again after a co-approval (its refresh is best
\* effort, ConfirmCoApproval in action.rs) is read before it has keys again.
ThreadIsCurrent ==
    mode = "AnnotationThread" /\ others = 0 =>
       \A i \in DOMAIN thread : thread[i] = notes[i].status

\* From wherever it is, Esc alone leads back to a list with its keys, unless help
\* is up: help.rs has no Esc.
Out == mode \in {"Help", "Gone"} \/ (mode = "Normal" /\ content = "List")
EscGetsOut == <>[][EscKey \/ CoApprovalStep \/ Others]_vars => <>[]Out

\* The code does not have it.  The co-approval screen asks for an action and then
\* for a key to confirm it, keys that are only bound in Normal, "list / detail /
\* co-approval screens" (mode.rs): entered from a thread it keeps the thread's mode.
CoApprovalTakesKeys == content = "CoApproval" => mode \in {"Normal", "Gone"}

=============================================================================
