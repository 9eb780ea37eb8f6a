SPECIFICATION Spec
CONSTANTS
    Path = {q1}
    Hunk = {}
    Note = {n1}
    Branch = {main, dev}
    Absent = Absent
    None = None
    Missing = Missing
    Detached = Detached
    UndoCap = 2
    Proc = {p1, p2}
    Threshold = 9
    MergeBases <- MCTree
    Ops = {"group", "undo", "snooze"}
    Faults = {"checkout", "edit", "busy"}
    MaxKeys = 2
SYMMETRY MCSymmetry
INVARIANTS
    NothingUnseenHidden
PROPERTIES
    RowsKeepTheirBranch
    AcceptLands
    ImplementsSeenRecord
