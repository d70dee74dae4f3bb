CONSTANTS
    Hash <- ForksHash
    Genesis = "G"
    Path <- ForksPath
    PrevRoot <- ForksPrevRoot
    TotalDifficulty <- ForksTotalDifficulty
    BadBlocks = {}
    GoodHeader <- ForksHash
    SelfConsistent <- ForksHash
    GoodBlock <- ForksGoodBlock
    Horizon = 2
    MaxOrphanHeaders = 1
    MaxSync = 2
    MaxRestarts = 1
    Worker = {"w"}
    NULL = NULL
SPECIFICATION Spec
INVARIANTS
    MMRMatchesCandidate
CHECK_DEADLOCK FALSE
