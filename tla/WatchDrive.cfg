CONSTANTS
    Milestones = {m1}
    DependsOn <- NoDependencies
    Findings = {f1, f2, f3}
    Driven = m1
    MaxIterations = 2
SPECIFICATION DriveSpec
INVARIANTS
    RemediationHasCause
    CompletionIsVouched
    CompletedDriveIsVouched
PROPERTIES
    RemediationRestores
    CancelledIsFinal
    KeepsPromise
    CompleteIsNoticed
