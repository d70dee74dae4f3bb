SPECIFICATION FairSpec
CONSTANTS
    Kernel <- MCKernel
    Commitment <- MCCommitment
    Spends <- MCSpends
    Creates <- MCCreates
    LockHeight <- MCLockHeight
    Received <- All
    Hash <- MCHash
    Genesis = "g"
    Path <- MCPath
    Work <- MCWork
    Content <- MCContent
    GoodBlocks = {"g", "h1", "f1", "f2"}
    InitialOutputs = {"u", "v"}
    MaxWeight = 2
    MaxPool = 2
INVARIANTS
    PoolsAreSpendable
PROPERTIES
    PoolsFitTogetherAfterBlock
    NothingIsStuckOnTheStem
