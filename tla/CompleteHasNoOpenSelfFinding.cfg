CONSTANTS
    Milestones = {m1}
    DependsOn <- NoDependencies
    Findings = {f1}
    Driven = m1
    MaxIterations = 2
SPECIFICATION DriveSpec
INVARIANT CompleteHasNoOpenSelfFinding
