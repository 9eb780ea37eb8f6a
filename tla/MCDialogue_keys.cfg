SPECIFICATION Spec
CONSTANTS
    LastPath = 2
    Edited <- MCEdited
    Contents = {c1, c2}
    Agents = {0, 2}
    ConfirmAbove = 1
    MaxKeys = 3
    MaxMoves = 1
INVARIANT KeysAlive
CHECK_DEADLOCK FALSE
