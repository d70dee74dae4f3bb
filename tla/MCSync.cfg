SPECIFICATION MCSpec
CONSTANTS
    HPeers <- MCPeers
    SegmentPeers = {{}, {"p", "q"}}
    BadPeers = {"q"}
    NetHeight = 6
    StartTips <- MCStartTips
    ForkHeight = 2
    SegmentSize = 2
    Lag = 2
    MaxInFlight = 2
    MaxPerPeer = 1
    MaxCachedBatches = 2
    MaxMerged = 4
    MaxHeaders = 4
    MaxLocators = 3
    BPeers <- MCPeers
    BadBlockPeers = {"q"}
    BLeavers = {"q"}
    BNetHeight = 5
    BLag = 3
    Window = 1
    RefillPerPeer = 1
    ProofSize = 5
    MaxProofSize = 20
    Seeds = {0, 1, 2, 3, 4, 5}
    Cuts = {1, 2, 3, 5, 8, 13, 40}
    ChunkBits = 2
    BlockChunks = 1
    BlockThreshold = 1
    ArchiveLeaves = 4
    MaxLeaves = 5
    MaxBlocks = 1
    MaxForks = 1
    MaxSyncs = 1
    SegmentHeight = 1
    BitmapHeight = 1
INVARIANTS
    RoundTrip MergedContinuesChain ReadsMatchChain SegmentsRebuildSet
PROPERTIES
    NoDoubleRequest  BlocksCatchUp
CHECK_DEADLOCK FALSE
