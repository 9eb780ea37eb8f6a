SPECIFICATION Spec
CONSTANTS
    Path = {q1, q2}
    Size = {1, 2}
    Limits = {2, 3}
    UndoCap = 2
    Threshold = 1
    Absent = Absent
    Unset = Unset
    NoRow = NoRow
    MaxMoves = 3
SYMMETRY MCSymmetry
INVARIANTS
    LetGoStaysGone
PROPERTIES
    OthersKeepTheirRow
    AcceptedLeaves
    TrimIsExact
