------------------------------- MODULE Wallet -------------------------------
(***************************************************************************)
(* Wallets that pay each other: the slates they exchange, the coins they   *)
(* lock for a payment, the payments they cancel, and what they learn from  *)
(* their node, whose chain may rewind.                                     *)
(*                                                                         *)
(* A coin is an output: its owner, key index, amount and features.  A      *)
(* wallet's database holds its outputs, its transactions (a transaction's  *)
(* id is its index), the slates and contexts it saved, and the chain       *)
(* height and leaf index it has refreshed up to.  A slate that was handed  *)
(* over stays in `mail': it may be read late, twice or never.              *)
(*                                                                         *)
(* Every database batch is one step.  A send has two of them (refresh and  *)
(* select, then build), and so has a finalization (load, then save): they  *)
(* hold different locks, and run beside each other.                        *)
(***************************************************************************)
EXTENDS Naturals, Sequences, FiniteSets, FiniteSetsExt, SequencesExt, TLC

CONSTANTS
    Wallets,            \* the users
    Genesis,            \* the coins of the first block
    Amounts,            \* what is asked to be sent; 0 asks to send everything
    Strategies,         \* the ways to select coins that are used
    ChangeCounts,       \* numbers of change outputs asked for
    FeeBase,
    MinConfirmations,   \* Config::GetMinimumConfirmations
    CoinbaseMaturity,   \* Consensus::COINBASE_MATURITY
    BatchSize,          \* OutputRestorer's NUM_OUTPUTS_PER_BATCH
    Word,               \* amounts are taken modulo this number
    MaxSlates, MaxTxs, MaxHeight, MaxRewinds, MaxRestores, MaxCoinbases

VARIABLES
    db,          \* each wallet's database
    leaves,      \* the node's output MMR: coin and height of every leaf
    spends,      \* the coins spent in each block
    posted,      \* transactions the node's pool accepted
    mail,        \* slates handed over
    sending,     \* a wallet's BuildSendSlate between its two batches, if any
    finalizing,  \* a wallet's Finalize between load and save, if any
    fresh,       \* whether a wallet has seen the present chain, and how
    rewinds, restores, coinbases, slateNo,
    revived      \* whether a payment was finalized that was no longer open

walletVars == <<db, leaves, spends, posted, mail, sending, finalizing, fresh, rewinds, restores, coinbases, slateNo, revived>>

NoOne == "none"

(***************************************************************************)
(* The node, as the wallet sees it.                                        *)
(***************************************************************************)
Height == Len(spends)

OnChain == {leaves[i].coin : i \in 1 .. Len(leaves)}

Unspent == OnChain \ UNION {spends[h] : h \in 1 .. Len(spends)}

\* GetOutputsByCommitment.
BlockHeight(coin) == leaves[Max({i \in 1 .. Len(leaves) : leaves[i].coin = coin})].height

\* GetOutputsByLeafIndex: the first BatchSize leaves from `start' on that are
\* unspent.  Leaf indices start at 0.
OutputRange(start) ==
    LET from == {i \in start .. Len(leaves) - 1 : leaves[i + 1].coin \in Unspent}
    IN {i \in from : Cardinality({j \in from : j < i}) < BatchSize}

(***************************************************************************)
(* Coin selection.                                                         *)
(***************************************************************************)
Total(coins) == MapThenSumSet(LAMBDA c : c.amount, coins)

CalculateFee(inputs, outputs) == FeeBase * (inputs + 21 * outputs + 3)

Minus(a, b) == (a + Word - b) % Word

Smaller(c, d) == c.amount < d.amount \/ (c.amount = d.amount /\ c.n < d.n)

Enough(coins, amount, outputs) == Total(coins) >= amount + CalculateFee(Cardinality(coins), outputs)

\* The shortest of the given selections that is enough: the loops stop there.
Shortest(selections, amount, outputs) ==
    LET enough == {s \in selections : s # {} /\ Enough(s, amount, outputs)}
    IN {s \in enough : \A t \in enough : Cardinality(s) <= Cardinality(t)}

SelectUsingSmallestInputs(coins, amount, outputs) ==
    Shortest({{c} \cup {d \in coins : Smaller(d, c)} : c \in coins}, amount, outputs)

SelectUsingFewestInputs(coins, amount, outputs) ==
    Shortest({{c} \cup {d \in coins : Smaller(c, d)} : c \in coins}, amount, outputs)

SelectUsingAllInputs(coins, amount, outputs) ==
    IF amount < amount + CalculateFee(Cardinality(coins), outputs) THEN {coins} ELSE {}

SelectUsingCustomInputs(coins, amount, outputs) ==
    {s \in SUBSET coins : Enough(s, amount, outputs)}

\* The selections a strategy may return; none of them when it throws.
SelectCoinsToSpend(strategy, coins, amount, outputs) ==
    CASE strategy = "CUSTOM"        -> SelectUsingCustomInputs(coins, amount, outputs)
      [] strategy = "SMALLEST"      -> SelectUsingSmallestInputs(coins, amount, outputs)
      [] strategy = "FEWEST_INPUTS" -> SelectUsingFewestInputs(coins, amount, outputs)
      [] strategy = "ALL"           -> SelectUsingAllInputs(coins, amount, outputs)

(***************************************************************************)
(* The database.                                                           *)
(***************************************************************************)
Output(status, tx, height) == [status |-> status, tx |-> tx, height |-> height]

\* A transaction of the wallet, with the inputs and outputs of the chain
\* transaction it holds, and whether that one is complete.
WalletTx(type, slate, ins, outs) ==
    [type |-> type, slate |-> slate, ins |-> ins, outs |-> outs, final |-> FALSE]

\* SqliteStore::CreateWalletDB; the first key index is a random one, which is
\* to say one that was not used before.
CreateWalletDB(next) ==
    [out |-> <<>>, txs |-> <<>>, slates |-> {}, context |-> <<>>, refresh |-> 0, restore |-> 0, next |-> next]

\* GetTransactionBySlateId: the first one, or 0.
TxBySlateId(d, id) ==
    LET found == {i \in 1 .. Len(d.txs) : d.txs[i].slate = id}
    IN IF found = {} THEN 0 ELSE Min(found)

(***************************************************************************)
(* Refreshing.                                                             *)
(***************************************************************************)
\* FindAndRewindOutputs: the leaves found, and the last leaf index looked at.
\* A batch without outputs ends it with nothing found.
FindAndRewindOutputs(d, fromGenesis) ==
    LET highest == Len(leaves) - 1
        nothing == [found |-> {}, last |-> d.restore]
        scan[next \in 0 .. Len(leaves)] ==
            LET range == OutputRange(next)
            IN IF range = {} THEN nothing
               ELSE IF Max(range) = 0 THEN nothing
               ELSE IF Max(range) + 1 > highest THEN [found |-> range, last |-> Max(range)]
               ELSE LET rest == scan[Max(range) + 1]
                    IN IF rest.found = {} THEN nothing ELSE [rest EXCEPT !.found = @ \cup range]
        start == IF fromGenesis THEN 0 ELSE d.restore + 1
    IN IF start > Len(leaves) THEN nothing ELSE scan[start]

FindNewOutputs(w, d, found) ==
    {i \in found : leaves[i + 1].coin.owner = w /\ leaves[i + 1].coin \notin DOMAIN d.out}

\* Mutant of RefreshOutput: a canceled output stays canceled.
RefreshOutputNotCanceled(coin, o) ==
    CASE coin \in Unspent /\ o.status \notin {"LOCKED", "SPENDABLE", "CANCELED"} ->
           [o EXCEPT !.status = "SPENDABLE", !.height = BlockHeight(coin)]
      [] coin \notin Unspent /\ o.status \notin {"NO_CONFIRMATIONS", "SPENT", "CANCELED"} ->
           [o EXCEPT !.status = "SPENT"]
      [] OTHER -> o

\* RefreshOutputs, for one output.
RefreshOutput(coin, o) ==
    CASE coin \in Unspent /\ o.status \notin {"LOCKED", "SPENDABLE"} ->
           [o EXCEPT !.status = "SPENDABLE", !.height = BlockHeight(coin)]
      [] coin \notin Unspent /\ o.status \notin {"NO_CONFIRMATIONS", "SPENT", "CANCELED"} ->
           [o EXCEPT !.status = "SPENT"]
      [] OTHER -> o

\* RefreshTransactions, for one transaction: it is done when an output of it
\* was seen on chain, or when its first output in the wallet is spent.
RefreshTransaction(out, i, t) ==
    LET seen == \E c \in DOMAIN out : out[c].tx = i /\ out[c].height > 0
        known == t.outs \cap DOMAIN out
        first == CHOOSE c \in known : \A e \in known : c.n <= e.n
        spent == known # {} /\ out[first].status = "SPENT"
    IN CASE t.type = "RECEIVING_IN_PROGRESS" /\ seen -> [t EXCEPT !.type = "RECEIVED"]
         [] t.type = "SENDING_FINALIZED" /\ (seen \/ spent) -> [t EXCEPT !.type = "SENT"]
         [] OTHER -> t

\* Each leaf of new becomes an output and a transaction of d.
AddFound(d, new) ==
    LET coin(i) == leaves[new[i] + 1].coin
    IN [d EXCEPT !.txs = @ \o [i \in 1 .. Len(new) |-> WalletTx("RECEIVED", <<>>, {}, {})],
                 !.out = @ @@ [c \in {coin(i) : i \in 1 .. Len(new)} |->
                                 LET i == CHOOSE j \in 1 .. Len(new) : coin(j) = c
                                 IN Output("SPENDABLE", Len(d.txs) + i, leaves[new[i] + 1].height)]]

RefreshedOutputs(d) == [d EXCEPT !.out = [c \in DOMAIN @ |-> RefreshOutput(c, @[c])], !.refresh = Height]

RefreshedTransactions(d) == [d EXCEPT !.txs = [i \in 1 .. Len(@) |-> RefreshTransaction(d.out, i, @[i])]]

Scanned(w, d, scan) ==
    [AddFound(d, SetToSortSeq(FindNewOutputs(w, d, scan.found), <)) EXCEPT !.restore = scan.last]

\* WalletRefresher::Refresh, skipped while the node is behind.
Refreshed(w, d, fromGenesis) ==
    IF Height < d.refresh THEN d
    ELSE RefreshedTransactions(RefreshedOutputs(Scanned(w, d, FindAndRewindOutputs(d, fromGenesis))))

\* The freshness a refresh of d leaves.
FreshAfter(w, d, fromGenesis) ==
    IF Height < d.refresh THEN fresh[w] ELSE IF fromGenesis THEN "scanned" ELSE
    IF fresh[w] = "scanned" THEN "scanned" ELSE "refreshed"

\* Room for the transactions a refresh may add.
Bounded(w) == Len(Refreshed(w, db[w], TRUE).txs) <= MaxTxs

\* RefreshOutputs, by any call of the owner API, and by a scan for outputs.
RefreshOutputs(w, fromGenesis) ==
    /\ sending[w] = {}
    /\ Bounded(w)
    /\ db' = [db EXCEPT ![w] = Refreshed(w, @, fromGenesis)]
    /\ fresh' = [fresh EXCEPT ![w] = FreshAfter(w, db[w], fromGenesis)]
    /\ UNCHANGED <<leaves, spends, posted, mail, sending, finalizing, rewinds, restores, coinbases, slateNo, revived>>

(***************************************************************************)
(* Sending.                                                                *)
(***************************************************************************)
IsOutputImmature(coin, height, current) ==
    IF coin.features = "COINBASE"
    THEN Max({current, CoinbaseMaturity}) - CoinbaseMaturity <= height
    ELSE height + MinConfirmations > current

\* Mutant of GetAllAvailableCoins: it takes locked coins too.
GetAllAvailableCoinsLocked(d) ==
    {c \in DOMAIN d.out : d.out[c].status \in {"SPENDABLE", "LOCKED"} /\ ~IsOutputImmature(c, d.out[c].height, Height)}

GetAllAvailableCoins(d) ==
    {c \in DOMAIN d.out : d.out[c].status = "SPENDABLE" /\ ~IsOutputImmature(c, d.out[c].height, Height)}

\* The amounts by status; an output counts as mature at the height of the last
\* refresh.  An output without confirmations is one the wallet waits for.
GetBalance(d) ==
    LET With(status) == {c \in DOMAIN d.out : d.out[c].status = status}
        immature == {c \in With("SPENDABLE") : IsOutputImmature(c, d.out[c].height, d.refresh)}
    IN [awaiting |-> Total(With("NO_CONFIRMATIONS")), immature |-> Total(immature),
        locked |-> Total(With("LOCKED")), spendable |-> Total(With("SPENDABLE") \ immature)]

\* The first half of BuildSendSlate: refresh the wallet and choose the inputs.
\* A send that is refused leaves what RefreshOutputs leaves.
SendSelect(w, amount, strategy, change) ==
    /\ sending[w] = {}
    /\ slateNo < MaxSlates
    /\ Bounded(w)
    /\ LET d == Refreshed(w, db[w], FALSE)
           coins == IF Height < db[w].refresh THEN {} ELSE GetAllAvailableCoins(d)
           outputs == IF amount = 0 THEN 1 ELSE 1 + change
       IN \E ins \in IF amount = 0 THEN {coins} ELSE SelectCoinsToSpend(strategy, coins, amount, outputs) :
            LET fee == CalculateFee(Cardinality(ins), outputs)
                toSend == IF amount = 0 THEN Minus(Total(ins), fee) ELSE amount
            IN /\ sending' = [sending EXCEPT ![w] =
                     {[amount |-> toSend, change |-> outputs - 1, strategy |-> strategy,
                       fee |-> IF outputs = 1 THEN Minus(Total(ins), toSend) ELSE fee,
                       ins |-> [c \in ins |-> d.out[c]]]}]
               /\ db' = [db EXCEPT ![w] = d]
    /\ fresh' = [fresh EXCEPT ![w] = FreshAfter(w, db[w], FALSE)]
    /\ slateNo' = slateNo + 1
    /\ UNCHANGED <<leaves, spends, posted, mail, finalizing, rewinds, restores, coinbases, revived>>

Coin(w, n, amount, features) == [owner |-> w, n |-> n, amount |-> amount, features |-> features]

\* OutputBuilder::CreateOutputs: the first output gets what does not divide.
CreateOutputs(w, d, total, count) ==
    {Coin(w, d.next + i, (total \div count) + (IF i = 0 THEN total % count ELSE 0), "PLAIN") : i \in 0 .. count - 1}

BuildWalletTx(id, ins, change) == WalletTx("SENDING_STARTED", id, ins, change)

\* SendSlateBuilder::UpdateDatabase: the locked inputs, as they were when they
\* were selected, the change, the slate and its context.
SaveSend(d, id, s, change) ==
    LET locked == [c \in DOMAIN s.ins |-> [s.ins[c] EXCEPT !.status = "LOCKED"]]
        unconfirmed == [c \in change |-> Output("NO_CONFIRMATIONS", Len(d.txs) + 1, 0)]
    IN [d EXCEPT !.out = locked @@ unconfirmed @@ @,
                 !.txs = Append(@, BuildWalletTx(id, DOMAIN s.ins, change)),
                 !.slates = @ \cup {<<id, "SENT">>},
                 !.context = (id :> [ins |-> DOMAIN s.ins, change |-> change, amount |-> s.amount, fee |-> s.fee]) @@ @,
                 !.next = @ + s.change]

\* The second half: create the change, lock the inputs, save everything.
SendBuild(w) ==
    /\ \E s \in sending[w] :
       LET id == <<w, slateNo>>
           change == IF s.change = 0 THEN {}
                     ELSE CreateOutputs(w, db[w], Minus(Total(DOMAIN s.ins), s.amount + s.fee), s.change)
       IN /\ Len(db[w].txs) < MaxTxs
          /\ db' = [db EXCEPT ![w] = SaveSend(@, id, s, change)]
          /\ mail' = mail \cup {[id |-> id, stage |-> "SENT", amount |-> s.amount, out |-> {}]}
    /\ sending' = [sending EXCEPT ![w] = {}]
    /\ UNCHANGED <<leaves, spends, posted, finalizing, fresh, rewinds, restores, coinbases, slateNo, revived>>

(***************************************************************************)
(* Receiving, finalizing, canceling.                                       *)
(***************************************************************************)
VerifySlateStatus(d, id) ==
    LET i == TxBySlateId(d, id)
    IN i > 0 => d.txs[i].type \in {"RECEIVED_CANCELED", "SENDING_STARTED"}

\* ReceiveSlateBuilder::UpdateDatabase.
SaveReceived(d, id, coin) ==
    [d EXCEPT !.out = (coin :> Output("NO_CONFIRMATIONS", Len(d.txs) + 1, 0)) @@ @,
              !.txs = Append(@, WalletTx("RECEIVING_IN_PROGRESS", id, {}, {})),
              !.slates = @ \cup {<<id, "RECEIVED">>},
              !.next = @ + 1]

\* AddReceiverData.
Receive(w, slate) ==
    /\ slate.stage = "SENT"
    /\ sending[w] = {}
    /\ VerifySlateStatus(db[w], slate.id)
    /\ Len(db[w].txs) < MaxTxs
    /\ LET coin == Coin(w, db[w].next, slate.amount, "PLAIN")
       IN /\ db' = [db EXCEPT ![w] = SaveReceived(@, slate.id, coin)]
          /\ mail' = mail \cup {[slate EXCEPT !.stage = "RECEIVED", !.out = {coin}]}
    /\ UNCHANGED <<leaves, spends, posted, sending, finalizing, fresh, rewinds, restores, coinbases, slateNo, revived>>

\* TransactionValidator: nothing is created.
Balanced(ins, outs, fee) == Total(ins) = Total(outs) + fee

\* BuildTransaction: the context's inputs and change with the receiver's output.
BuildTransaction(t, context, out) ==
    [t EXCEPT !.ins = context.ins, !.outs = out \cup context.change, !.final = TRUE]

\* Finalize up to its update of the database.  The transaction is a copy.
FinalizeLoad(w, slate) ==
    /\ slate.stage = "RECEIVED"
    /\ finalizing[w] = {}
    /\ <<slate.id, "SENT">> \in db[w].slates
    /\ LET i == TxBySlateId(db[w], slate.id)
           c == db[w].context[slate.id]
           t == BuildTransaction(db[w].txs[i], c, slate.out)
       IN /\ Balanced(t.ins, t.outs, c.fee)
          /\ finalizing' = [finalizing EXCEPT ![w] = {[i |-> i, tx |-> [t EXCEPT !.type = "SENDING_FINALIZED"]]}]
          /\ revived' = (revived \/ db[w].txs[i].type # "SENDING_STARTED")
    /\ UNCHANGED <<db, leaves, spends, posted, mail, sending, fresh, rewinds, restores, coinbases, slateNo>>

\* FinalizeSlateBuilder::UpdateDatabase.
SaveFinalized(d, i, t) == [d EXCEPT !.txs[i] = t, !.slates = @ \cup {<<t.slate, "FINALIZED">>}]

\* The node takes a transaction into its pool when it could be mined now.
PostTransaction(t) ==
    posted' = IF t.ins \subseteq Unspent /\ t.outs \cap OnChain = {}
              THEN posted \cup {[ins |-> t.ins, outs |-> t.outs]} ELSE posted

\* UpdateDatabase, and posting the transaction when the caller asked for it.
FinalizeSave(w, post) ==
    /\ \E f \in finalizing[w] :
          /\ db' = [db EXCEPT ![w] = SaveFinalized(@, f.i, f.tx)]
          /\ IF post THEN PostTransaction(f.tx) ELSE UNCHANGED posted
    /\ finalizing' = [finalizing EXCEPT ![w] = {}]
    /\ UNCHANGED <<leaves, spends, mail, sending, fresh, rewinds, restores, coinbases, slateNo, revived>>

\* GetOutputsToUpdate, for one output of the wallet.
CancelOutput(coin, o, ins, i) ==
    CASE (coin \in ins \/ o.tx = i) /\ o.status \in {"NO_CONFIRMATIONS", "SPENT"} ->
           [o EXCEPT !.status = "CANCELED"]
      [] coin \in ins /\ o.status = "LOCKED" -> [o EXCEPT !.status = "SPENDABLE"]
      [] OTHER -> o

\* CancelTx; it throws on an output of the transaction that was confirmed.
CancelTx(w, i) ==
    /\ finalizing[w] = {}
    /\ LET d == db[w]
           t == d.txs[i]
           sent == t.type \in {"SENDING_STARTED", "SENDING_FINALIZED"}
           ins == IF sent THEN t.ins ELSE {}
       IN /\ sent \/ t.type = "RECEIVING_IN_PROGRESS"
          /\ \A c \in DOMAIN d.out \ ins :
               d.out[c].tx = i => d.out[c].status \in {"NO_CONFIRMATIONS", "SPENT", "CANCELED"}
          /\ db' = [db EXCEPT
                ![w].out = [c \in DOMAIN @ |-> CancelOutput(c, @[c], ins, i)],
                ![w].txs[i].type = IF sent THEN "SENT_CANCELED" ELSE "RECEIVED_CANCELED"]
    /\ UNCHANGED <<leaves, spends, posted, mail, sending, finalizing, fresh, rewinds, restores, coinbases, slateNo, revived>>

\* RepostTx: whatever the transaction's status; the node refuses a partial one.
RepostTx(w, i) ==
    /\ db[w].txs[i].final
    /\ PostTransaction(db[w].txs[i])
    /\ UNCHANGED <<db, leaves, spends, mail, sending, finalizing, fresh, rewinds, restores, coinbases, slateNo, revived>>

\* DeleteWallet, then RestoreFromSeed: an empty database for the same keys.
RestoreFromSeed(w) ==
    /\ restores < MaxRestores
    /\ sending[w] = {}
    /\ finalizing[w] = {}
    /\ restores' = restores + 1
    /\ db' = [db EXCEPT ![w] = CreateWalletDB(@.next)]
    /\ fresh' = [fresh EXCEPT ![w] = "stale"]
    /\ UNCHANGED <<leaves, spends, posted, mail, sending, finalizing, rewinds, coinbases, slateNo, revived>>

(***************************************************************************)
(* The chain.                                                              *)
(***************************************************************************)
\* A block with these transactions; its reward goes to a stranger, or to a
\* wallet, that made its output with BuildCoinbase.
MineBlock(txs, w) ==
    LET reward == IF w = NoOne THEN Coin(NoOne, Height, 60, "COINBASE")
                  ELSE Coin(w, db[w].next, 60, "COINBASE")
        outs == SetToSortSeq(UNION {t.outs : t \in txs}, Smaller)
    IN /\ Height < MaxHeight
       /\ leaves' = leaves \o [i \in 1 .. Len(outs) + 1 |->
                      [coin |-> Append(outs, reward)[i], height |-> Height + 1]]
       /\ spends' = Append(spends, UNION {t.ins : t \in txs})
       /\ fresh' = [v \in Wallets |-> "stale"]

MineEmpty ==
    /\ MineBlock({}, NoOne)
    /\ UNCHANGED <<db, posted, mail, sending, finalizing, rewinds, restores, coinbases, slateNo, revived>>

MineTransaction(t) ==
    /\ t.ins \subseteq Unspent
    /\ t.outs \cap OnChain = {}
    /\ MineBlock({t}, NoOne)
    /\ UNCHANGED <<db, posted, mail, sending, finalizing, rewinds, restores, coinbases, slateNo, revived>>

BuildCoinbase(w) ==
    /\ coinbases < MaxCoinbases
    /\ sending[w] = {}
    /\ MineBlock({}, w)
    /\ coinbases' = coinbases + 1
    /\ db' = [db EXCEPT ![w].next = @ + 1]
    /\ UNCHANGED <<posted, mail, sending, finalizing, rewinds, restores, slateNo, revived>>

\* The node drops its last block, for a fork that has not grown yet.
Rewind ==
    /\ rewinds < MaxRewinds
    /\ Height > 1
    /\ rewinds' = rewinds + 1
    /\ leaves' = SelectSeq(leaves, LAMBDA l : l.height < Height)
    /\ spends' = Front(spends)
    /\ fresh' = [v \in Wallets |-> "stale"]
    /\ UNCHANGED <<db, posted, mail, sending, finalizing, restores, coinbases, slateNo, revived>>

WalletInit ==
    /\ db = [w \in Wallets |-> CreateWalletDB(Len(Genesis) + 1)]
    /\ leaves = [i \in 1 .. Len(Genesis) |-> [coin |-> Genesis[i], height |-> 1]]
    /\ spends = <<{}>>
    /\ posted = {}
    /\ mail = {}
    /\ sending = [w \in Wallets |-> {}]
    /\ finalizing = [w \in Wallets |-> {}]
    /\ fresh = [w \in Wallets |-> "stale"]
    /\ rewinds = 0
    /\ restores = 0
    /\ coinbases = 0
    /\ slateNo = 0
    /\ revived = FALSE

WalletNext ==
    \/ \E w \in Wallets :
         \/ \E fromGenesis \in BOOLEAN : RefreshOutputs(w, fromGenesis)
         \/ \E amount \in Amounts, strategy \in Strategies, change \in ChangeCounts :
              SendSelect(w, amount, strategy, change)
         \/ SendBuild(w)
         \/ \E slate \in mail : Receive(w, slate) \/ FinalizeLoad(w, slate)
         \/ \E post \in BOOLEAN : FinalizeSave(w, post)
         \/ \E i \in DOMAIN db[w].txs : CancelTx(w, i) \/ RepostTx(w, i)
         \/ RestoreFromSeed(w)
         \/ BuildCoinbase(w)
    \/ \E t \in posted : MineTransaction(t)
    \/ MineEmpty
    \/ Rewind

WalletSpec == WalletInit /\ [][WalletNext]_walletVars

(***************************************************************************)
(* Properties.                                                             *)
(***************************************************************************)
Alive(w) == {c \in DOMAIN db[w].out : db[w].out[c].status \in {"SPENDABLE", "LOCKED"}}

Own(w) == {c \in Unspent : c.owner = w}

Pending(t) == t.type \in {"SENDING_STARTED", "SENDING_FINALIZED"}

\* A wallet that has seen the present chain counts a coin it knows as money it
\* has exactly when the coin is unspent, through locks, cancellations, late
\* slates and rewound blocks (WalletRefresher::RefreshOutputs).  It knows every
\* coin it owns, including one it was never told of, as long as the chain was
\* not rewound; after a scan from genesis it does even then
\* (OutputRestorer::FindAndRewindOutputs).
KnownMatchesChain ==
    \A w \in DOMAIN db :
      /\ fresh[w] # "stale" => Alive(w) = Own(w) \cap DOMAIN db[w].out
      /\ fresh[w] = "scanned" \/ (fresh[w] = "refreshed" /\ rewinds = 0) => Own(w) \subseteq DOMAIN db[w].out

\* The balance shown by a refreshed wallet is the money it has on the chain:
\* nothing is counted twice or left out, whatever is locked or immature.
BalanceIsOwn ==
    \A w \in DOMAIN db :
      fresh[w] = "scanned" \/ (fresh[w] = "refreshed" /\ rewinds = 0) =>
        LET b == GetBalance(db[w]) IN b.immature + b.locked + b.spendable = Total(Own(w))

\* What a refreshed wallet knows and what it shows agree with the chain.
BooksMatchChain == KnownMatchesChain /\ BalanceIsOwn

\* A coin is locked only for a payment that is under way and that the user can
\* still cancel: no coin stays locked with nothing to unlock it.  Two payments
\* under way share no input, although their coins are chosen in one step and
\* locked in a later one; unless a block was rewound or a payment was finalized
\* after it was canceled or completed.
PendingDisjoint ==
    \A w \in DOMAIN db :
      /\ \A c \in DOMAIN db[w].out : db[w].out[c].status = "LOCKED" =>
           \E i \in DOMAIN db[w].txs : Pending(db[w].txs[i]) /\ c \in db[w].txs[i].ins
      /\ rewinds = 0 /\ ~revived => \A i, j \in DOMAIN db[w].txs :
           i # j /\ Pending(db[w].txs[i]) /\ Pending(db[w].txs[j]) => db[w].txs[i].ins \cap db[w].txs[j].ins = {}

\* A payment with change that is on the chain is complete in a wallet that has
\* seen that chain, even when its change was spent on meanwhile; unless it was
\* finalized a second time (WalletRefresher::RefreshTransactions).
MinedIsSent ==
    ~revived =>
      \A w \in DOMAIN db : fresh[w] # "stale" =>
        \A i \in DOMAIN db[w].txs : LET t == db[w].txs[i]
          IN t.outs \subseteq OnChain /\ (\E c \in t.outs \cap DOMAIN db[w].out : db[w].out[c].tx = i)
               => t.type # "SENDING_FINALIZED"

\* Coins are held for payments under way only, and a payment on the chain is no
\* longer under way.
PaymentsSettle == PendingDisjoint /\ MinedIsSent

\* A payment is started only with inputs that pay for it and its fee: "not enough
\* funds ready to spend after calculating and including the fee" is an exception.
EnoughFunds ==
    \A w \in DOMAIN db : \A id \in DOMAIN db[w].context : LET c == db[w].context[id]
      IN Total(c.ins) >= c.amount + c.fee
=============================================================================
