SPECIFICATION Spec
CONSTANTS
    Panes = {p1}
    Status = {"working", "done"}
    GenMod = 3
    MaxQueue = 1
    MaxMoves = 3
INVARIANTS TypeOK StampsAreTrue NoOrphanStream
PROPERTIES StreamsSuffice FallbackHeals
