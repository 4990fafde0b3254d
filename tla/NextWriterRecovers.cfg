CONSTANTS
    Writers = {w1, w2}
    Files = {f1, f2}
    Contents = {c1, c2}
    Absent = Absent
SPECIFICATION Spec
INVARIANT NextWriterRecovers
