SPECIFICATION Spec
CONSTANTS
    Path = {q1}
    Hunk = {h1}
    Note = {n1}
    Branch = {main}
    Absent = Absent
    None = None
    Missing = Missing
    Detached = Detached
    UndoCap = 2
    Proc = {p1, p2}
    Threshold = 9
    MergeBases <- MCTree
    Ops = {"file", "hunk", "all", "undo"}
    Faults = {"edit", "lose", "crash"}
    MaxKeys = 3
SYMMETRY MCSymmetry
INVARIANTS
    NothingUnseenHidden
PROPERTIES
    ImplementsSeenRecord
