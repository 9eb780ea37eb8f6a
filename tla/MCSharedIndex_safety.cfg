SPECIFICATION Spec
CONSTANTS
    q1 = q1
    c1 = c1
    Absent = Absent
    NoTree = NoTree
    Nil = Nil
    Torn = Torn
    Missing = Missing
    Garbled = Garbled
    Proc = {p1, p2}
    Path = {q1}
    Content = {c1}
    Tree <- MCTwoTrees
    ScanAttempts = 2
    Faults = {"crash", "delete", "edit", "garble", "tear"}
SYMMETRY MCSymmetry
INVARIANTS
    IInv
    MarkerIsTrue
    NoPendingPathHidden
    SeedFollowsDisk
