SPECIFICATION Spec
CONSTANTS
    Path = {q1, q2}
    Hunk = {}
    Note = {n1}
    Branch = {main, dev}
    Absent = Absent
    None = None
    Missing = Missing
    Detached = Detached
    UndoCap = 1
    Proc = {p1}
    Threshold = 1
    MergeBases <- MCPlainTrees
    Ops = {"group", "all", "undo", "flag"}
    Faults = {"edit", "checkout", "refs"}
    MaxKeys = 2
SYMMETRY MCSymmetry
VIEW MCView
INVARIANTS
    TypeOK
PROPERTIES
    ImplementsSeenRecord
