CONSTANTS
    m1 = m1
    m2 = m2
    Milestones = {m1, m2}
    DependsOn <- SecondOnFirst
    Findings = {f1}
SPECIFICATION KeptKindsSpec
INVARIANTS
    StoredLegacyIsCurrent
    InOneLane
    OfferedWorkCanStart
    ReadyWorkIsDue
PROPERTIES
    MigrationKeepsReading
    KeepsPromiseButForRework
