CONSTANTS
    Hash <- NodeHash
    Genesis = "G"
    Path <- NodePath
    PrevRoot <- NodePrevRoot
    TotalDifficulty <- NodeTotalDifficulty
    BadBlocks = {}
    GoodHeader <- NodeHash
    SelfConsistent <- NodeHash
    GoodBlock <- NodeGoodBlock
    Horizon = 2
    MaxOrphanHeaders = 1
    MaxSync = 2
    MaxRestarts = 1
    Worker = {"w"}
    NULL = NULL
    Hosts = {"h"}
    MinPeers = 1
    MaxPeers = 2
    MaxObjects = 3
SPECIFICATION NodeSpec
INVARIANTS
    ChainsAreLinked CandidateIsHeaviest MMRsFollowChains StoredBlocksAreValid RewindFindsBlocks
    ConnectedHasConnection
PROPERTIES
    WorkIncreases EndedAreReleased
CHECK_DEADLOCK FALSE
