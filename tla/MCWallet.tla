------------------------------ MODULE MCWallet ------------------------------
(***************************************************************************)
(* Three instances in one run: two wallets and one payment; a wallet that  *)
(* pays itself twice; and a wallet that mines, is restored from its seed   *)
(* and sends all it has.                                                   *)
(***************************************************************************)
EXTENDS Wallet

VARIABLE part

OneCoin == <<Coin(NoOne, 0, 60, "COINBASE"), Coin("A", 2, 100, "PLAIN")>>
TwoCoins == <<Coin(NoOne, 0, 60, "COINBASE"), Coin("A", 2, 100, "PLAIN"), Coin("A", 3, 200, "PLAIN")>>

Pair == INSTANCE Wallet WITH Genesis <- OneCoin, MaxSlates <- 1, MaxTxs <- 2
Alone == INSTANCE Wallet WITH Wallets <- {"A"}, Genesis <- TwoCoins, MaxSlates <- 2, MaxTxs <- 5
Miner == INSTANCE Wallet WITH
    Wallets <- {"A"}, Genesis <- OneCoin, Amounts <- {0, 40}, Strategies <- {"CUSTOM"},
    MaxSlates <- 1, MaxTxs <- 3, MaxRestores <- 1, MaxCoinbases <- 1

WInit == (part = "pair" /\ Pair!WalletInit) \/ (part = "alone" /\ Alone!WalletInit) \/ (part = "miner" /\ Miner!WalletInit)
WNext ==
    \/ part = "pair" /\ Pair!WalletNext /\ UNCHANGED part
    \/ part = "alone" /\ Alone!WalletNext /\ UNCHANGED part
    \/ part = "miner" /\ Miner!WalletNext /\ UNCHANGED part
WSpec == WInit /\ [][WNext]_<<walletVars, part>>
=============================================================================
