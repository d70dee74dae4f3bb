SPECIFICATION ASpec
CONSTANTS
    Wallets = {"A", "B"}
    Genesis <- OneCoin
    Amounts = {40}
    Strategies = {"SMALLEST"}
    ChangeCounts = {1}
    FeeBase = 1
    MinConfirmations = 1
    CoinbaseMaturity = 2
    BatchSize = 2
    Word = 100000
    MaxSlates = 1
    MaxTxs = 2
    MaxHeight = 3
    MaxRewinds = 1
    MaxRestores = 0
    MaxCoinbases = 0
    Users = {"u"}
    Threads = {1, 2}
    MaxSessions = 3
    MaxIndex = 1
    MaxTorDeaths = 1
    MaxRestarts = 1
    Slates = {"s", "t"}
    MaxOpens = 4
INVARIANTS
    BooksMatchChain 
    RefsMatchSessions 
    SchemaConverges
PROPERTIES
    ListenerIsPublished
CHECK_DEADLOCK FALSE
