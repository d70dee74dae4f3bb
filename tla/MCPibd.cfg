SPECIFICATION MCSpec
CONSTANTS
    Headers = {"h1", "h2", "h3"}
    Peers = {"p", "q"}
    NumSegs <- MCNumSegs
    PeerOrders <- MCPeerOrders
    ZipHeaders = {"h1"}
    RequestCount = 2
    RetryCount = 1
    HedgeCount = 2
    MaxCached = 1
    ApplyBatch = 1
    CommitThreshold = 2
    None = None
    Workers = {w1, w2}
    Hashes = {"a", "b"}
    Tip = "a"
    Requested <- MCRequested
    QueueCapacity = 1
    NoHash = "-"
SYMMETRY ServeSymmetry
CONSTRAINT NoOverlap
INVARIANTS
    SegmentInOnePlace SessionMatchesSet ValidatesWholeSet JoinOnlyAfterThrow
    SingleFlight SentMatchesRequest WaiterIsNotified
