CONSTANTS
    Hash <- LateHash
    Genesis = "G"
    Path <- LatePath
    PrevRoot <- LatePrevRoot
    TotalDifficulty <- LateTotalDifficulty
    BadBlocks = {}
    GoodHeader <- LateHash
    SelfConsistent <- LateHash
    GoodBlock <- LateGoodBlock
    Horizon = 2
    MaxOrphanHeaders = 1
    MaxSync = 2
    MaxRestarts = 1
    Worker = {"w"}
    NULL = NULL
SPECIFICATION FairSpec
PROPERTIES
    CatchesUp
CHECK_DEADLOCK FALSE
