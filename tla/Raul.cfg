SPECIFICATION Spec
CHECK_DEADLOCK FALSE
CONSTANTS
    m1 = m1
    m2 = m2
    Milestones = {m1, m2}
    Nothing = Nothing
    Start <- StartNotes
    MaxNotes = 2
    MaxOthers = 1
INVARIANTS
    OneMilestoneAtATime
    CursorOnARow
    ThreadIsCurrent
PROPERTIES
    EntryShowsOwnWrites
    EscGetsOut
