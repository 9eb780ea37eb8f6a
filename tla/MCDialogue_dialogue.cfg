SPECIFICATION Spec
CONSTANTS
    LastPath = 2
    Edited <- MCEdited
    Contents = {c1, c2}
    Agents = {0, 2}
    ConfirmAbove = 1
    MaxKeys = 3
    MaxMoves = 2
SYMMETRY MCSymmetry
INVARIANTS
    GuardsMatch
    AcceptsWereShown
PROPERTIES
    QuestionsStay
    EditorKept
CHECK_DEADLOCK FALSE
