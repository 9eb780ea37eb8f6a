SPECIFICATION FairSpec
CONSTANTS
    q1 = q1
    c1 = c1
    Absent = Absent
    NoTree = NoTree
    Nil = Nil
    Torn = Torn
    Missing = Missing
    Garbled = Garbled
    Proc = {p1, p2}
    Path = {}
    Content = {c1}
    Tree <- MCNoFiles
    ScanAttempts = 2
    Faults = {"crash", "orphan"}
PROPERTIES
    ScansEnd
