SPECIFICATION MCSpec
CONSTANTS
    Byte = {0, 1}
    Zero = 0
    MaxSize = 4
    MaxAppend = 2
    Hash <- MCHash
    Genesis = "g"
    Path <- MCPath
    Commitment <- MCCommitment
    Inputs <- MCInputs
    Outputs <- MCOutputs
    Kernels <- MCKernels
    Coinbase = {"c", "r"}
    Maturity = 2
    MaxRelative = 4
    Archived = {"a3", "s2", "d2", "n4"}
    Extra = {2}
    NULL = NULL
    SPeers = {"c", "d"}
    StartPeers = {}
    Leavers = {"c"}
    Capable = {"c"}
    HeaderHeight = 9
    Horizon = 4
    ArchiveHeight = 7
    NetworkHeight = 9
    UintSize = 64
    StartMinPeers = 2
    StallCycles = 2
    Leaves = 1
    MaxFaults = 1
    Nobody = "-"
    Threads <- MCThreads
    CallsOf <- MCCallsOf
    Queued = {"ping", "kernels", "outputs"}
    Direct = {"peers"}
    Priority <- MCPriority
    Pieces = 2
INVARIANTS
    ReadSeesView
    StateMatchesChain 
    ReadersSeeWholeBatches CirclesOnlyInPibd
    MessagesLeaveInOrder
PROPERTIES
    ImplementsLog StateCatchesUp
CHECK_DEADLOCK FALSE
