SPECIFICATION Spec
CONSTANTS
    Root = {r1, r2}
    Pile = {Empty, p1}
    Empty = Empty
    None = None
    Idle = Idle
    Task = {t1, t2}
    ChannelCap = 2
    MaxScans = 4
    MaxMoves = 3
SYMMETRY MCSymmetry
INVARIANTS
    NothingLeftOver
    RootsShownInOrder
    LatestShown
PROPERTIES
    PilesNeverGoBack
CHECK_DEADLOCK FALSE
