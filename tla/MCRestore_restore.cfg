SPECIFICATION Spec
CONSTANTS
    Pids = {p1, p2}
    Dirs = {d1, d2}
    Lines = {l1, l2}
    Edits = {{l1, l2}}
    MaxNames = 1
    MaxMoves = 2
    MaxKeys = 2
SYMMETRY Symmetry
INVARIANTS OtherHunksStay BaselinesWereSeen TempsStay
PROPERTY EditsAreKept
CHECK_DEADLOCK FALSE
