------------------------------- MODULE TxPool -------------------------------
(***************************************************************************)
(* The transaction pool and Dandelion: the memory pool of transactions     *)
(* that were broadcast ("fluffed") and the stem pool of those that travel  *)
(* along the stem, the thread that moves transactions from one to the      *)
(* other, and the reconciliation of both with every block that is applied. *)
(*                                                                         *)
(* A transaction is the set of the kernels it aggregates.  The outputs,    *)
(* inputs and the balance of an aggregate follow from its kernels.         *)
(***************************************************************************)
EXTENDS Naturals, Sequences, FiniteSets, Functions

CONSTANTS Kernel,
          Commitment,
          Spends, Creates,   \* commitments of the transaction with that kernel
          LockHeight,        \* LockHeight[k]: first height that may contain k
          Received,          \* transactions that peers and users send
          Hash, Genesis,
          Path,              \* Path[h]: from Genesis to h, both included
          Work,              \* total difficulty
          Content,           \* Content[h]: kernels of block h
          GoodBlocks,        \* blocks that ValidateAndAddBlock accepts
          InitialOutputs,    \* unspent at Genesis
          MaxWeight,         \* MAX_BLOCK_WEIGHT without what the coinbase weighs
          MaxPool            \* bound on the length of the stem pool

ASSUME TxAssumption ==
    /\ IsFiniteSet(Kernel) /\ MaxWeight \in Nat
    /\ Received \subseteq (SUBSET Kernel) \ {{}}
    /\ Genesis \in Hash /\ GoodBlocks \subseteq Hash
    /\ Spends \in [Kernel -> SUBSET Commitment] /\ Creates \in [Kernel -> SUBSET Commitment]
    /\ \A k \in Kernel : Spends[k] \cap Creates[k] = {}
    /\ \A h \in Hash : /\ Path[h] \in Seq(Hash) /\ Path[h] /= <<>> /\ Path[h][Len(Path[h])] = h
                       /\ Content[h] \subseteq Kernel

VARIABLES tip,         \* the confirmed tip
          stored,      \* blocks in the database
          mempool,     \* m_memPool
          stempool,    \* m_stemPool
          announced,   \* transactions that were broadcast to all peers
          pc,          \* where Dandelion's thread is
          todo         \* transactions it is about to add to the memory pool

poolVars == <<mempool, stempool>>
vars == <<tip, stored, mempool, stempool, announced, pc, todo>>

Height(h) == Len(Path[h]) - 1

-----------------------------------------------------------------------------
(* Aggregation *)

\* What one transaction spends and creates, after PerformCutThrough.
Ins == [tx \in SUBSET Kernel |->
    (UNION {Spends[k] : k \in tx}) \ (UNION {Creates[k] : k \in tx})]
Outs == [tx \in SUBSET Kernel |->
    (UNION {Creates[k] : k \in tx}) \ (UNION {Spends[k] : k \in tx})]

\* How many of some entries spend or create c.
Spenders(entries, some, c) == Cardinality({i \in some : c \in Ins[entries[i].tx]})
Creators(entries, some, c) == Cardinality({i \in some : c \in Outs[entries[i].tx]})

\* The unspent outputs of the chain that ends in h.
Unspent == [h \in Hash |->
    LET kernels == UNION {Content[Path[h][n]] : n \in DOMAIN Path[h]}
    IN  (InitialOutputs \cup (UNION {Creates[k] : k \in kernels})) \ (UNION {Spends[k] : k \in kernels})]

\* PerformCutThrough drops what is spent and created, however often; the sums
\* of the aggregate match only if both happen equally often.
IsCut(spent, created) == spent > 0 /\ created > 0

\* TransactionValidator and TxHashSet::IsValid for one commitment.
IsFine(spent, created, isUnspent) ==
    IF IsCut(spent, created)
      THEN spent = created
      ELSE /\ spent = 0 \/ (spent = 1 /\ isUnspent)
           /\ created = 0 \/ (created = 1 /\ ~isUnspent)

\* The weight of an aggregate, which keeps the kernels of all entries: their number.
Weight(entries, some) == Cardinality({p \in some \X Kernel : p[2] \in entries[p[1]].tx})

\* IsValidTransaction on the aggregate of some entries and of a transaction that
\* is itself the aggregate of the extra entries.
IsValidTogether(entries, some, extra, h) ==
    /\ Weight(entries, some) + Weight(extra, DOMAIN extra) <= MaxWeight
    /\ \A c \in Commitment :
        LET s == Spenders(extra, DOMAIN extra, c)
            t == Creators(extra, DOMAIN extra, c)
            spent == Spenders(entries, some, c) + IF IsCut(s, t) THEN 0 ELSE s
            created == Creators(entries, some, c) + IF IsCut(s, t) THEN 0 ELSE t
        IN  /\ IsCut(s, t) => s = t
            /\ IsFine(spent, created, c \in Unspent[h])

AreValid(entries, h) == IsValidTogether(entries, DOMAIN entries, <<>>, h)

IsValid(tx, h) == Ins[tx] \subseteq Unspent[h] /\ Outs[tx] \cap Unspent[h] = {}

\* One of the entries at the places is chosen if it is valid together with the extra
\* entries and with those chosen before it.
IsChosen(entries, places, extra, h, some) ==
    \A i \in places :
        i \in some <=> IsValidTogether(entries, {j \in some : j <= i} \cup {i}, extra, h)

\* The entries at some places, in their order.
Keep(entries, some) ==
    [n \in 1..Cardinality(some) |-> entries[CHOOSE i \in some : Cardinality({j \in some : j <= i}) = n]]

FindValidTransactions(entries, places, extra, h) ==
    Keep(entries, CHOOSE some \in SUBSET places : IsChosen(entries, places, extra, h, some))

-----------------------------------------------------------------------------
(* Adding a transaction *)

ContainsTransaction(pool, tx) == \E i \in DOMAIN pool : pool[i].tx = tx

\* The first entry of each of the transactions.
RemoveTransactions(pool, txs) ==
    Keep(pool, {i \in DOMAIN pool : pool[i].tx \in txs => \E j \in 1..(i - 1) : pool[j].tx = pool[i].tx})

Entry(tx, status) == [tx |-> tx, status |-> status]

\* The checks that both pools have in common.
IsAcceptable(tx) ==
    /\ \A k \in tx : LockHeight[k] <= Height(tip) + 1
    /\ Cardinality(tx) <= MaxWeight
    /\ IsValid(tx, tip)

CanAddToMemPool(tx) ==
    /\ ~ContainsTransaction(mempool, tx)
    /\ IsAcceptable(tx)

AddToMemPool(tx) ==
    /\ mempool' = Append(mempool, Entry(tx, "FLUFFED"))
    /\ stempool' = RemoveTransactions(stempool, {tx})

AddToStemPool(tx) ==
    /\ \E status \in {"TO_STEM", "TO_FLUFF"} : stempool' = Append(stempool, Entry(tx, status))
    /\ UNCHANGED mempool

\* TransactionPipe announces what it added to the memory pool.
ReceiveTransaction(tx) ==
    /\ CanAddToMemPool(tx)
    /\ AddToMemPool(tx)
    /\ announced' = announced \cup {tx}
    /\ UNCHANGED <<tip, stored, pc, todo>>

ReceiveStemTransaction(tx) ==
    /\ Len(stempool) < MaxPool
    /\ IsAcceptable(tx)
    /\ AddToStemPool(tx)
    /\ UNCHANGED <<tip, stored, announced, pc, todo>>

\* The push_transaction call without fluff adds to the stem pool and broadcasts.
PushTransaction(tx) ==
    /\ Len(stempool) < MaxPool
    /\ IsAcceptable(tx)
    /\ AddToStemPool(tx)
    /\ announced' = announced \cup {tx}
    /\ UNCHANGED <<tip, stored, pc, todo>>

-----------------------------------------------------------------------------
(* Dandelion's thread: stem, fluff, expire *)

WithStatus(status) == {i \in DOMAIN stempool : stempool[i].status = status}

\* ChangeStatus finds the chosen entries themselves.  An entry after an equal one
\* is never chosen.
ChangeStatus(chosen, from, to) ==
    LET isFirst(i) == \A j \in 1..(i - 1) : stempool[j] /= stempool[i]
    IN  [i \in DOMAIN stempool |->
            IF stempool[i].status = from /\ ContainsTransaction(chosen, stempool[i].tx) /\ isFirst(i)
              THEN Entry(stempool[i].tx, to)
              ELSE stempool[i]]

KernelsOf(entries) == UNION {entries[i].tx : i \in DOMAIN entries}

\* The aggregate goes to the relay; if sending fails it is to be fluffed.
ProcessStemPhase ==
    LET chosen == FindValidTransactions(stempool, WithStatus("TO_STEM"), mempool, tip)
    IN  /\ pc = "stem"
        /\ chosen /= <<>>
        /\ stempool' = ChangeStatus(chosen, "TO_STEM", "STEMMED")
        /\ \/ pc' = "fluff" /\ todo' = <<>>
           \/ pc' = "unsent" /\ todo' = <<KernelsOf(chosen)>>
        /\ UNCHANGED <<tip, stored, mempool, announced>>

\* No peers, or nothing to stem.
SkipStemPhase ==
    /\ pc = "stem"
    /\ pc' = "fluff"
    /\ UNCHANGED <<tip, stored, mempool, stempool, announced, todo>>

\* BlockChain::AddTransaction of the first transaction to do, and its broadcast.
AddFirst ==
    LET tx == Head(todo)
    IN  IF CanAddToMemPool(tx)
          THEN /\ AddToMemPool(tx)
               /\ announced' = announced \cup {tx}
          ELSE UNCHANGED <<mempool, stempool, announced>>

FluffUnsent ==
    /\ pc = "unsent"
    /\ AddFirst
    /\ pc' = "fluff"
    /\ todo' = <<>>
    /\ UNCHANGED <<tip, stored>>

ProcessFluffPhase ==
    LET chosen == FindValidTransactions(stempool, WithStatus("TO_FLUFF"), mempool, tip)
        tx == KernelsOf(chosen)
    IN  /\ pc = "fluff"
        /\ pc' = "expire"
        /\ IF chosen = <<>>
             THEN UNCHANGED <<mempool, stempool, announced>>
             ELSE /\ mempool' = Append(mempool, Entry(tx, "FLUFFED"))
                  /\ stempool' = RemoveTransactions(stempool, {chosen[i].tx : i \in DOMAIN chosen})
                  /\ announced' = announced \cup {tx}
        /\ UNCHANGED <<tip, stored, todo>>

\* Mutant: an entry that was stemmed has no embargo.
ExpiredUnlessStemmed(n) ==
    LET entries == SelectSeq(SubSeq(stempool, 1, n), LAMBDA e : e.status /= "STEMMED")
    IN  [i \in DOMAIN entries |-> entries[i].tx]

\* Entries are in the order of their timestamps: the first n are expired.
GetExpiredTransactions(n) == [i \in 1..n |-> stempool[i].tx]

ExpireEntries(n) ==
    /\ pc = "expire"
    /\ todo' = GetExpiredTransactions(n)
    /\ pc' = IF todo' = <<>> THEN "stem" ELSE "expired"
    /\ UNCHANGED <<tip, stored, mempool, stempool, announced>>

FluffExpired ==
    /\ pc = "expired"
    /\ AddFirst
    /\ todo' = Tail(todo)
    /\ pc' = IF todo' = <<>> THEN "stem" ELSE "expired"
    /\ UNCHANGED <<tip, stored>>

-----------------------------------------------------------------------------
(* Blocks *)

ShouldEvict(tx, h) ==
    \/ Ins[Content[h]] \cap Ins[tx] /= {}
    \/ tx \cap Content[h] /= {}

\* Mutant: only the quick reconciliation step.
ReconcilePoolQuickly(pool, h, extra) == Keep(pool, {i \in DOMAIN pool : ~ShouldEvict(pool[i].tx, h)})

\* Pool::ReconcileBlock
ReconcilePool(pool, h, extra) ==
    FindValidTransactions(pool, {i \in DOMAIN pool : ~ShouldEvict(pool[i].tx, h)}, extra, h)

\* Mutant: the stem pool is reconciled on its own.
ReconcileBlockSeparately(pools, h) ==
    [mempool  |-> ReconcilePool(pools.mempool, h, <<>>),
     stempool |-> ReconcilePool(pools.stempool, h, <<>>)]

\* TransactionPool::ReconcileBlock
ReconcileBlock(pools, h) ==
    LET reconciled == ReconcilePool(pools.mempool, h, <<>>)
    IN  [mempool  |-> reconciled,
         stempool |-> ReconcilePool(pools.stempool, h, reconciled)]

\* The blocks from the chain to h, h included, from the lowest up.
Branch(h) ==
    LET common == {n \in DOMAIN Path[h] : n <= Len(Path[tip]) /\ Path[h][n] = Path[tip][n]}
    IN  SubSeq(Path[h], Cardinality(common) + 1, Len(Path[h]))

\* Each block is applied and reconciled, until one of them is bad.
Applied(branch) ==
    LET bad == {n \in DOMAIN branch : branch[n] \notin GoodBlocks}
    IN  IF bad = {} THEN branch
        ELSE SubSeq(branch, 1, (CHOOSE n \in bad : \A m \in bad : n <= m) - 1)

Reconciled(branch) ==
    LET pools[n \in 0..Len(Applied(branch))] ==
            IF n = 0 THEN [mempool |-> mempool, stempool |-> stempool]
            ELSE ReconcileBlock(pools[n - 1], Applied(branch)[n])
    IN  pools[Len(Applied(branch))]

\* BlockProcessor: the batch is committed or rolled back, the pools have seen the
\* blocks either way.  A next block is a branch of one block.
ProcessBlock(h) ==
    LET branch == Branch(h)
        succeeds == Applied(branch) = branch
        isNext == branch = <<h>> /\ Height(h) = Height(tip) + 1
    IN  /\ h \notin stored /\ branch /= <<>>
        /\ \E pools \in {Reconciled(branch)} : mempool' = pools.mempool /\ stempool' = pools.stempool
        /\ stored' = IF succeeds THEN stored \cup Range(branch) ELSE stored
        /\ tip' = IF succeeds /\ (isNext \/ Work[h] > Work[tip]) THEN h ELSE tip
        /\ UNCHANGED <<announced, pc, todo>>

-----------------------------------------------------------------------------
Init ==
    /\ tip = Genesis
    /\ stored = {Genesis}
    /\ mempool = <<>>
    /\ stempool = <<>>
    /\ announced = {}
    /\ pc = "stem"
    /\ todo = <<>>

Dandelion ==
    \/ ProcessStemPhase
    \/ SkipStemPhase
    \/ FluffUnsent
    \/ ProcessFluffPhase
    \/ \E n \in 0..Len(stempool) : ExpireEntries(n)
    \/ FluffExpired

Next ==
    \/ \E tx \in Received : \/ ReceiveTransaction(tx)
                            \/ ReceiveStemTransaction(tx)
                            \/ PushTransaction(tx)
    \/ Dandelion
    \/ \E h \in Hash : ProcessBlock(h)

Spec == Init /\ [][Next]_vars

\* The thread loops for ever; in the end the embargo on an entry is over.
Expires(tx) ==
    \E n \in 1..Len(stempool) :
        /\ \E i \in 1..n : stempool[i].tx = tx
        /\ ExpireEntries(n)

Fairness ==
    /\ WF_vars(Dandelion)
    /\ \A tx \in Received : SF_vars(Expires(tx))

FairSpec == Spec /\ Fairness

-----------------------------------------------------------------------------
(* Properties *)

Status == {"TO_STEM", "STEMMED", "TO_FLUFF", "FLUFFED"}

\* Type invariant of the two pools and of Dandelion's thread; FLUFFED is the
\* status of the memory pool alone.
TypeOK ==
    /\ tip \in stored /\ stored \subseteq Hash
    /\ mempool \in Seq([tx : SUBSET Kernel, status : {"FLUFFED"}])
    /\ stempool \in Seq([tx : SUBSET Kernel, status : Status \ {"FLUFFED"}])
    /\ announced \subseteq SUBSET Kernel
    /\ pc \in {"stem", "unsent", "fluff", "expire", "expired"}
    /\ todo \in Seq(SUBSET Kernel)

\* Whatever blocks came, won, lost or failed: each transaction of both pools
\* spends outputs that are unspent at the confirmed tip (AddTransaction checks
\* it once, ReconcileBlock again with every block).
PoolsAreSpendable ==
    /\ \A i \in DOMAIN mempool : IsValid(mempool[i].tx, tip)
    /\ \A i \in DOMAIN stempool : IsValid(stempool[i].tx, tip)

\* When the confirmed tip moves, the memory pool that is left fits into one
\* block, and so does it together with the stem pool (TransactionPool::
\* ReconcileBlock), whatever conflicts had been added before.
PoolsFitTogetherAfterBlock ==
    [][tip' /= tip =>
         /\ AreValid(mempool', tip')
         /\ IsValidTogether(stempool', DOMAIN stempool', mempool', tip')]_vars

\* Nothing stays on the stem for ever: a transaction that could be added to the
\* memory pool is added or leaves the stem pool (embargo of Dandelion).
NothingIsStuckOnTheStem ==
    \A tx \in Received :
        []<>(\/ ~ContainsTransaction(stempool, tx)
             \/ ~CanAddToMemPool(tx))

\* HandleReorg on a branch that does not win: "rollback all changes".
LostBranchChangesNothing ==
    [][stored' /= stored /\ tip' = tip => UNCHANGED poolVars]_vars

\* "When sent in stem phase, the transaction is relayed to only 1 node": what is
\* broadcast is in the memory pool.
OnlyFluffedIsBroadcast ==
    [][\A tx \in announced' \ announced : ContainsTransaction(mempool', tx)]_vars
=============================================================================
