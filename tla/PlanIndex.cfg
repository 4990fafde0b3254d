CONSTANTS
    MaxId = 2
    GivenIds = {1, 2}
    Slugs = {a, b}
    Contents = {c, d}
    Absent = Absent
SPECIFICATION Spec
INVARIANTS
    ArchiveIsRecorded
    DriftIsReported
PROPERTY ArchiveKeepsFiles
