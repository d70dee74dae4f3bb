SPECIFICATION WSpec
CONSTANTS
    Wallets = {"A", "B"}
    Genesis <- OneCoin
    Amounts = {140}
    Strategies = {"ALL"}
    ChangeCounts = {1}
    FeeBase = 1
    MinConfirmations = 1
    CoinbaseMaturity = 2
    BatchSize = 2
    Word = 100000
    MaxSlates = 1
    MaxTxs = 2
    MaxHeight = 3
    MaxRewinds = 1
    MaxRestores = 0
    MaxCoinbases = 0
CHECK_DEADLOCK FALSE
INVARIANT EnoughFunds
