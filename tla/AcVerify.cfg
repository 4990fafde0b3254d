SPECIFICATION Spec
CONSTANTS
    c1 = c1
    c2 = c2
    Commands = {c1, c2}
    Unchecked = Unchecked
    Rows <- MCRows
    Pids = {p1, p2, p3}
    ThreadsFail = TRUE
INVARIANTS
    AbortLeavesNothingRunning
    CompletedOnOwnExits
    OneRunOneVerdict
    StrangersAreSafe
PROPERTIES
    CommandEnds
CHECK_DEADLOCK FALSE
