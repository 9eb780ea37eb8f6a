SPECIFICATION FairSpec
CONSTANTS
    Root = {r1}
    Discovery = Discovery
    Never = Never
    Debounce = 1
    DebounceMax = 2
    MaxVersion = 1
    MaxMoves = 1
INVARIANTS
    WatchesFollowRoots
    FoldersCaughtUp
    ReloadReadsSettings
PROPERTIES
    ChangesAreScanned
    GoneRootsLeave
    ReloadAnswered
