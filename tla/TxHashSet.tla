----------------------------- MODULE TxHashSet ------------------------------
(***************************************************************************)
(* The TxHashSet: the output and range proof PMMRs, each an append-only    *)
(* list of leaves with a bitmap of the unspent ones, and the kernel MMR;   *)
(* with the tables of the block database that belong to them, OUTPUT_POS   *)
(* and SPENT_OUTPUTS.  Blocks are applied and rewound in a batch that is   *)
(* committed or rolled back as a whole.  A state sync closes the set,      *)
(* replaces its files without a lock, validates them and installs the new  *)
(* set in a batch, or leaves the set closed.                               *)
(*                                                                         *)
(* Leaves are numbered from 1.  The root of an MMR stands for its leaves.  *)
(***************************************************************************)
EXTENDS Naturals, Sequences, FiniteSets, SequencesExt

CONSTANTS Hash,
          Genesis,
          Path,             \* Path[h]: from Genesis to h, both included
          Commitment,
          Inputs,           \* Inputs[h]: commitments that block h spends
          Outputs,          \* Outputs[h]: commitments it creates, in order
          Kernels,          \* Kernels[h]: its kernels, in order
          Coinbase,         \* commitments of coinbase outputs
          Maturity,         \* COINBASE_MATURITY
          MaxRelative,      \* WEEK_HEIGHT
          Archived,         \* blocks at the heights of which states are asked for
          Extra,            \* range proofs of spent outputs that an archive may keep
          NULL

Prev(h) == Path[h][Len(Path[h]) - 1]

Height(h) == Len(Path[h]) - 1

\* VerifySelfConsistent: outputs are unique, and no block spends its own.
ASSUME BlockAssumption ==
    /\ Genesis \in Hash /\ NULL \notin Hash \cup Commitment
    /\ \A h \in Hash : /\ Range(Outputs[h]) \cap Inputs[h] = {}
                       /\ IsInjective(Outputs[h])
    /\ Inputs[Genesis] = {}
    /\ Archived \subseteq Hash

VARIABLES header,      \* m_pBlockHeader
          pmmr,        \* the output and the range proof PMMR
          kernels,     \* the kernel MMR
          positions,   \* OUTPUT_POS
          spent,       \* SPENT_OUTPUTS
          blocks,      \* BLOCK
          flushed,     \* m_pBlockHeaderBackup
          onDisk,      \* what was committed of the five above
          batch,       \* a batch has changes
          checksBitmap,\* the headers have version 3 or later: the output root
                       \* covers the bitmap of unspent outputs
          stage,       \* "open", "closed": m_pTxHashSet is null, or "loaded": it
                       \* is, and a set of downloaded files waits for validation
          replaced,    \* history: downloaded files that were never installed
          synced       \* history: the header of the last installed state

setVars == <<header, pmmr, kernels, positions, spent, blocks, flushed, onDisk, batch, checksBitmap,
             stage, replaced, synced>>

PMMR == {"output", "rangeproof"}

-----------------------------------------------------------------------------
(* What the header of a block promises: the reference *)

\* One record per output that was ever created on the way to h.
AllLeaves ==
    [h \in Hash |->
        FlattenSeq([n \in DOMAIN Path[h] |->
            [j \in DOMAIN Outputs[Path[h][n]] |->
                [commit |-> Outputs[Path[h][n]][j], height |-> n - 1]]])]

AllOutputs == [h \in Hash |-> [i \in DOMAIN AllLeaves[h] |-> AllLeaves[h][i].commit]]

AllKernels ==
    [h \in Hash |-> FlattenSeq([n \in DOMAIN Path[h] |-> Kernels[Path[h][n]]])]

\* Leaves that no later block of the chain spends.
Unspent ==
    [h \in Hash |->
        {i \in DOMAIN AllLeaves[h] :
            \A n \in DOMAIN Path[h] :
                n - 1 > AllLeaves[h][i].height =>
                    AllLeaves[h][i].commit \notin Inputs[Path[h][n]]}]

\* The position of c is that of its last unspent leaf.
PositionOf ==
    [h \in Hash |->
        [c \in Commitment |->
            LET found == {i \in Unspent[h] : AllOutputs[h][i] = c}
                leaf == CHOOSE i \in found : \A j \in found : j <= i
            IN  IF found = {} THEN NULL
                ELSE [leaf |-> leaf, height |-> AllLeaves[h][leaf].height]]]

GetMaxCoinbaseHeight(height) ==
    (IF height >= Maturity THEN height ELSE Maturity) - Maturity

\* What a chain that ends in h lets its next block spend and create.
MaySpend(h, c) ==
    LET p == PositionOf[h][c]
    IN  /\ p /= NULL
        /\ c \in Coinbase => p.height <= GetMaxCoinbaseHeight(Height(h) + 1)

MayCreate(h, c) == PositionOf[h][c] = NULL

\* No-recent-duplicate kernels: not again within the relative height.
NoRecentDuplicate(h) ==
    \A i \in DOMAIN Kernels[h] :
        LET k == Kernels[h][i]
        IN  k.nrd =>
              /\ k.relative \in 1..MaxRelative
              /\ \A j \in DOMAIN Kernels[h] \ {i} :
                    ~(Kernels[h][j].nrd /\ Kernels[h][j].excess = k.excess)
              /\ \A n \in 1..(Len(Path[h]) - 1) : \A j \in DOMAIN Kernels[Path[h][n]] :
                    LET old == Kernels[Path[h][n]][j]
                    IN  old.nrd /\ old.excess = k.excess =>
                            Height(h) - (n - 1) >= k.relative

SpendsAndCreates(h) ==
    /\ \A c \in Inputs[h] : MaySpend(Prev(h), c)
    /\ \A c \in Range(Outputs[h]) : MayCreate(Prev(h), c)

IsValidBlock(h) == SpendsAndCreates(h) /\ NoRecentDuplicate(h)

-----------------------------------------------------------------------------
(* Reading *)

IsUnpruned(p, leaf) == leaf <= Len(p.leaves) /\ leaf \in p.leafSet

GetAt(p, leaf) == IF IsUnpruned(p, leaf) THEN p.leaves[leaf] ELSE NULL

\* TxHashSet::IsValid, for a transaction in the pool.
IsValid(ins, outs) ==
    /\ \A c \in ins :
          /\ positions[c] /= NULL
          /\ GetAt(pmmr["output"], positions[c].leaf) = c
          /\ ~(c \in Coinbase /\ positions[c].height > GetMaxCoinbaseHeight(Height(header) + 1))
    /\ \A c \in outs :
          positions[c] /= NULL => GetAt(pmmr["output"], positions[c].leaf) /= c

-----------------------------------------------------------------------------
(* Applying a block *)

Prefix(s, n) == SubSeq(s, 1, IF n <= Len(s) THEN n ELSE Len(s))

\* ApplyBlock spends one input after the other and reads the output at each
\* position.  That there is one is only asserted: in a release build the block
\* ends the process, and with it the batch.
InputsAreOutputs(h) ==
    /\ \A c \in Inputs[h] : positions[c] /= NULL => GetAt(pmmr["output"], positions[c].leaf) /= NULL
    /\ \A c, d \in Inputs[h] :
          c /= d /\ NULL \notin {positions[c], positions[d]} => positions[c].leaf /= positions[d].leaf

\* Mutant: the maturity is that of the previous block.
CanSpendInputsLate(h) ==
    \A c \in Inputs[h] :
        /\ positions[c] /= NULL
        /\ ~(/\ GetAt(pmmr["output"], positions[c].leaf) \in Coinbase
             /\ positions[c].height > GetMaxCoinbaseHeight(Height(h) - 1))

CanSpendInputs(h) ==
    \A c \in Inputs[h] :
        /\ positions[c] /= NULL
        /\ ~(/\ GetAt(pmmr["output"], positions[c].leaf) \in Coinbase
             /\ positions[c].height > GetMaxCoinbaseHeight(Height(h)))

SpentLeaves(h) == {positions[c].leaf : c \in Inputs[h]}

\* The j-th output is checked when the inputs are spent and the outputs before
\* it are there.
CanAddOutputs(h) ==
    LET size == Len(pmmr["output"].leaves)
    IN  \A j \in DOMAIN Outputs[h] :
          LET position == positions[Outputs[h][j]]
          IN  position /= NULL =>
                position.leaf \notin (pmmr["output"].leafSet \ SpentLeaves(h))
                                        \cup (size + 1)..(size + j - 1)

AppliedPMMR(p, h) ==
    [leaves  |-> p.leaves \o Outputs[h],
     leafSet |-> (p.leafSet \ SpentLeaves(h))
                    \cup (Len(p.leaves) + 1)..(Len(p.leaves) + Len(Outputs[h]))]

\* Outputs are added, then the inputs are removed.
AppliedPositions(h) ==
    [c \in Commitment |->
        IF c \in Inputs[h]
          THEN NULL
          ELSE IF c \in Range(Outputs[h])
                 THEN [leaf |-> Len(pmmr["output"].leaves)
                                  + CHOOSE j \in DOMAIN Outputs[h] : Outputs[h][j] = c,
                       height |-> Height(h)]
                 ELSE positions[c]]

\* The lowest block that ValidateNRDKernelRules looks at.
NRDStartHeight(height, relative) ==
    IF height > relative THEN height - relative + 1 ELSE 0

NumKernels(h) == Len(AllKernels[h])

\* The kernels of a block are found with the kernel counts of the headers.
ValidateNRDKernelRules(h, ks) ==
    LET nrd == {i \in DOMAIN Kernels[h] : Kernels[h][i].nrd}
        relatives == {Kernels[h][i].relative : i \in nrd}
        maxRelative == CHOOSE r \in relatives : \A s \in relatives : r >= s
        before(height) == IF height = 0 THEN 0 ELSE NumKernels(Path[h][height])
    IN  /\ relatives \subseteq 1..MaxRelative
        /\ \A i, j \in nrd : i /= j => Kernels[h][i].excess /= Kernels[h][j].excess
        /\ nrd /= {} =>
             \A height \in NRDStartHeight(Height(h), maxRelative)..(Height(h) - 1) :
               \A k \in (before(height) + 1)..before(height + 1) : \A i \in nrd :
                 k <= Len(ks) /\ ks[k].nrd /\ ks[k].excess = Kernels[h][i].excess =>
                     Height(h) - height >= Kernels[h][i].relative

\* The header has the roots over its chain's kernels, outputs, unspent outputs
\* and range proofs.
ValidateRoots(h, p, ks) ==
    LET n == Len(AllOutputs[h])
    IN  /\ Prefix(ks, NumKernels(h)) = AllKernels[h]
        /\ \A t \in PMMR : Prefix(p[t].leaves, n) = AllOutputs[h]
        /\ checksBitmap => p["output"].leafSet = Unspent[h]

\* ApplyBlock and the checks of ValidateAndAddBlock succeed.
CanApply(h) ==
    /\ InputsAreOutputs(h)
    /\ CanSpendInputs(h)
    /\ \A t \in PMMR : SpentLeaves(h) \subseteq pmmr[t].leafSet
    /\ CanAddOutputs(h)
    /\ ValidateNRDKernelRules(h, kernels \o Kernels[h])
    /\ ValidateRoots(h, [t \in PMMR |-> AppliedPMMR(pmmr[t], h)], kernels \o Kernels[h])

AddSpentPositions(h) == [spent EXCEPT ![h] = [c \in Inputs[h] |-> positions[c]]]

ApplyBlock(h) ==
    /\ Prev(h) = header
    /\ CanApply(h)
    /\ pmmr' = [t \in PMMR |-> AppliedPMMR(pmmr[t], h)]
    /\ positions' = AppliedPositions(h)
    /\ spent' = AddSpentPositions(h)
    /\ kernels' = kernels \o Kernels[h]
    /\ header' = h
    /\ blocks' = blocks \cup {h}
    /\ batch' = TRUE
    /\ UNCHANGED <<flushed, onDisk>>

-----------------------------------------------------------------------------
(* Rewinding *)

\* The blocks from the header down to h, h excluded, by their place on the path.
Rewound(h) == (Len(Path[h]) + 1)..Len(Path[header])

CanRewind(h) ==
    \A n \in Rewound(h) : Path[header][n] \in blocks /\ spent[Path[header][n]] /= NULL

LeavesToAdd(h) ==
    UNION {{spent[Path[header][n]][c].leaf : c \in Inputs[Path[header][n]]} : n \in Rewound(h)}

\* BitmapFile::Rewind sets the leaves and then clears all from numLeaves on.
RewoundLeafSet(leafSet, numLeaves, leavesToAdd) ==
    (leafSet \cup leavesToAdd) \cap 1..numLeaves

\* Block by block, downwards: its outputs lose their positions, its inputs get
\* theirs back; the last word on c is the lowest block that mentions it.
RewoundPositions(h) ==
    [c \in Commitment |->
        LET mentions == {n \in Rewound(h) : c \in Inputs[Path[header][n]]
                                                    \cup Range(Outputs[Path[header][n]])}
            lowest == Path[header][CHOOSE n \in mentions : \A m \in mentions : n <= m]
        IN  IF mentions = {} THEN positions[c]
            ELSE IF c \in Inputs[lowest] THEN spent[lowest][c] ELSE NULL]

\* HandleReorg rewinds at the start of a batch.
TxHashSetRewind(h) ==
    /\ ~batch
    /\ Len(Path[h]) < Len(Path[header]) /\ Path[header][Len(Path[h])] = h
    /\ CanRewind(h)
    /\ pmmr' = [t \in PMMR |->
                  [leaves  |-> Prefix(pmmr[t].leaves, Len(AllOutputs[h])),
                   leafSet |-> RewoundLeafSet(pmmr[t].leafSet, Len(AllOutputs[h]), LeavesToAdd(h))]]
    /\ positions' = RewoundPositions(h)
    /\ kernels' = Prefix(kernels, NumKernels(h))
    /\ header' = h
    /\ batch' = TRUE
    /\ UNCHANGED <<spent, blocks, flushed, onDisk>>

-----------------------------------------------------------------------------
(* Batches *)

Committed == [pmmr |-> pmmr, kernels |-> kernels, positions |-> positions,
              spent |-> spent, blocks |-> blocks]

\* A block was applied and its chain is the confirmed one.
Commit ==
    /\ batch
    /\ header \in blocks
    /\ onDisk' = Committed
    /\ flushed' = header
    /\ batch' = FALSE
    /\ UNCHANGED <<header, pmmr, kernels, positions, spent, blocks>>

\* Mutant: the positions are not part of the batch.
RestoreAllButPositions ==
    /\ pmmr' = onDisk.pmmr
    /\ kernels' = onDisk.kernels
    /\ spent' = onDisk.spent
    /\ header' = flushed
    /\ batch' = FALSE
    /\ UNCHANGED <<flushed, positions>>

Restore ==
    /\ pmmr' = onDisk.pmmr
    /\ kernels' = onDisk.kernels
    /\ positions' = onDisk.positions
    /\ spent' = onDisk.spent
    /\ header' = flushed
    /\ batch' = FALSE
    /\ UNCHANGED flushed

\* A block failed halfway, or the process ended.
Rollback ==
    /\ batch
    /\ Restore
    /\ blocks' = onDisk.blocks
    /\ UNCHANGED onDisk

\* A fork was applied but has too little work: only its blocks are kept.
RollbackButStoreBlocks ==
    /\ batch
    /\ header \in blocks
    /\ Restore
    /\ onDisk' = [onDisk EXCEPT !.blocks = blocks]
    /\ UNCHANGED blocks

GenesisPMMR == [t \in PMMR |-> [leaves |-> Outputs[Genesis], leafSet |-> DOMAIN Outputs[Genesis]]]

\* TxHashSetManager::Open on empty files, and the migration that saves the
\* positions of a new database.
SetInit ==
    /\ header = Genesis
    /\ flushed = Genesis
    /\ pmmr = GenesisPMMR
    /\ kernels = Kernels[Genesis]
    /\ positions = PositionOf[Genesis]
    /\ spent = [h \in Hash |-> NULL]
    /\ blocks = {}
    /\ onDisk = Committed
    /\ batch = FALSE
    /\ checksBitmap \in BOOLEAN
    /\ stage = "open"
    /\ replaced = FALSE
    /\ synced = NULL

-----------------------------------------------------------------------------
(* State sync *)

\* SaveOutputPositions on top of what the table has.
SavedPositions(h) ==
    [c \in Commitment |-> IF PositionOf[h][c] /= NULL THEN PositionOf[h][c] ELSE positions[c]]

\* The kernels on the way to h, each with the height of its block.
KernelHistory ==
    [h \in Hash |->
        FlattenSeq([n \in DOMAIN Path[h] |->
            [j \in DOMAIN Kernels[Path[h][n]] |->
                [kernel |-> Kernels[Path[h][n]][j], height |-> n - 1]]])]

\* nrdKernelPositions has the last kernel with an excess.
LastDuplicate(duplicates) == CHOOSE j \in duplicates : \A i \in duplicates : i <= j

ValidateNRDKernelHistory(h) ==
    \A k \in DOMAIN KernelHistory[h] :
        LET at(i) == KernelHistory[h][i]
            duplicates == {j \in 1..(k - 1) : at(j).kernel.nrd /\ at(j).kernel.excess = at(k).kernel.excess}
        IN  at(k).kernel.nrd =>
              /\ at(k).kernel.relative \in 1..MaxRelative
              /\ duplicates /= {} =>
                    at(k).height - at(LastDuplicate(duplicates)).height >= at(k).kernel.relative

\* The sum of the unspent outputs is that of the kernels: each commitment counts
\* as often as it was created and not spent.
ValidateKernelSums(h) ==
    \A c \in Commitment :
        Cardinality({i \in DOMAIN AllOutputs[h] : AllOutputs[h][i] = c})
            = Cardinality({n \in DOMAIN Path[h] : c \in Inputs[Path[h][n]]})
                + Cardinality({i \in Unspent[h] : AllOutputs[h][i] = c})

\* TxHashSetValidator, on the loaded files.  Maturity, and that a commitment is
\* unspent only once, are not looked at.  Every unspent output must have its range
\* proof; what else the leaf set of the range proofs has is left open.
ValidateTxHashSet(h) ==
    /\ Len(kernels) = NumKernels(h) /\ \A t \in PMMR : Len(pmmr[t].leaves) = Len(AllOutputs[h])
    /\ ValidateRoots(h, pmmr, kernels)
    /\ ValidateNRDKernelHistory(h)
    /\ ValidateKernelSums(h)
    /\ pmmr["output"].leafSet \subseteq pmmr["rangeproof"].leafSet

\* ProcessTxHashSet first closes the set, with the lock of a write.
Close ==
    /\ stage = "open" /\ ~batch
    /\ stage' = "closed"
    /\ UNCHANGED <<header, pmmr, kernels, positions, spent, blocks, flushed, onDisk, batch, replaced, synced>>

\* States are asked for when the blocks are more than a horizon behind, and at a
\* height near the tip of the headers, which have version 3 or later.
IsRequested(h) == checksBitmap /\ h \in Archived /\ Height(h) > Height(flushed)

\* The files of block g in a peer's archive.
Archives(g) ==
    {[kernels |-> AllKernels[g],
      pmmr |-> [output |-> [leaves |-> AllOutputs[g], leafSet |-> Unspent[g]],
                rangeproof |-> [leaves |-> AllOutputs[g], leafSet |-> Unspent[g] \cup kept]]] :
        kept \in SUBSET (Extra \cap DOMAIN AllOutputs[g])}

ReplaceFiles(ks, p) ==
    /\ kernels' = ks
    /\ pmmr' = p
    /\ onDisk' = [onDisk EXCEPT !.kernels = ks, !.pmmr = p]
    /\ replaced' = TRUE

\* LoadFromZip extracts over the files of the set, without a lock, and cuts them
\* to the sizes of the header.  The archive may be one of another block.
LoadFromZip(h) ==
    /\ stage = "closed"
    /\ IsRequested(h)
    /\ \E g \in Archived : \E archive \in Archives(g) :
          ReplaceFiles(Prefix(archive.kernels, NumKernels(h)),
                       [t \in PMMR |->
                          [leaves  |-> Prefix(archive.pmmr[t].leaves, Len(AllOutputs[h])),
                           leafSet |-> RewoundLeafSet(archive.pmmr[t].leafSet, Len(AllOutputs[h]), {})]])
    /\ header' = h
    /\ stage' = "loaded"
    /\ UNCHANGED <<positions, spent, blocks, flushed, batch, synced>>

\* Extract fails in one of the folders, in the order kernel, output, rangeproof:
\* the ones before it are replaced, and its own was emptied, which the next Load
\* makes genesis.
ExtractFails(h) ==
    /\ stage = "closed"
    /\ IsRequested(h)
    /\ \E failed \in 1..3 : \E archive \in Archives(h) :
          LET folder(place, new, empty, old) ==
                  IF place < failed THEN new ELSE IF place = failed THEN empty ELSE old
          IN  ReplaceFiles(folder(1, archive.kernels, Kernels[Genesis], onDisk.kernels),
                           [t \in PMMR |-> folder(IF t = "output" THEN 2 ELSE 3,
                                                  archive.pmmr[t], GenesisPMMR[t], onDisk.pmmr[t])])
    /\ UNCHANGED <<header, positions, spent, blocks, flushed, batch, stage, synced>>

\* The batch of ProcessTxHashSet, when the header is still on the candidate chain.
Install ==
    /\ stage = "loaded"
    /\ ValidateTxHashSet(header)
    /\ positions' = SavedPositions(header)
    /\ flushed' = header
    /\ onDisk' = [onDisk EXCEPT !.positions = positions']
    /\ stage' = "open"
    /\ replaced' = FALSE
    /\ synced' = header
    /\ UNCHANGED <<header, pmmr, kernels, spent, blocks, batch>>

\* The files are not valid, or the candidate chain has left the header in the
\* meantime: the set stays closed, and nothing brings the old files back.
RefuseTxHashSet ==
    /\ stage = "loaded"
    /\ stage' = "closed"
    /\ header' = flushed
    /\ UNCHANGED <<pmmr, kernels, positions, spent, blocks, flushed, onDisk, batch, replaced, synced>>

\* A new process opens the files it finds, with the tip of the confirmed chain.
Reopen ==
    /\ stage /= "open"
    /\ Restore
    /\ stage' = "open"
    /\ UNCHANGED <<blocks, onDisk, replaced, synced>>

SetNext ==
    /\ \/ /\ stage = "open"
          /\ \/ \E h \in Hash \ {Genesis} : ApplyBlock(h)
             \/ \E h \in Hash : TxHashSetRewind(h)
             \/ Commit
             \/ Rollback
             \/ RollbackButStoreBlocks
          /\ UNCHANGED <<stage, replaced, synced>>
       \/ Close
       \/ \E h \in Hash : LoadFromZip(h) \/ ExtractFails(h)
       \/ Install
       \/ RefuseTxHashSet
       \/ Reopen
    /\ UNCHANGED checksBitmap

SetSpec == SetInit /\ [][SetNext]_setVars

-----------------------------------------------------------------------------
(* Properties *)

\* The files belong to the chain, and no download is under way.
IsWhole == stage = "open" /\ ~replaced

FollowsChain(p, ks, h) ==
    /\ \A t \in PMMR : p[t].leaves = AllOutputs[h]
    /\ p["output"].leafSet = Unspent[h]
    /\ IF synced = NULL THEN p["rangeproof"].leafSet = Unspent[h]
                        ELSE Unspent[h] \subseteq p["rangeproof"].leafSet
    /\ ks = AllKernels[h]

\* Whatever was applied, rewound, rolled back, downloaded and reopened on the way:
\* the three MMRs hold the outputs, unspent outputs and kernels of the chain that
\* ends in the header (ApplyBlock, Rewind, Commit, Rollback of TxHashSet,
\* ProcessTxHashSet), in memory and on disk, unless a download that failed has
\* replaced the files.  The range proofs of a downloaded state may be too many.
PMMRsMatchChain ==
    /\ IsWhole => FollowsChain(pmmr, kernels, header)
    /\ ~replaced => FollowsChain(onDisk.pmmr, onDisk.kernels, flushed)

\* OUTPUT_POS has exactly the unspent outputs of the chain, each with the leaf
\* and the height of the block that created it last, even when a commitment was
\* spent and created again (ApplyBlock and Rewind keep the table in step).  A
\* downloaded state is added to what the table has, so that from then on it may
\* keep positions of older outputs (SaveOutputPositions), but each unspent
\* output has its own.
PositionsMatchChain ==
    IF synced = NULL
    THEN stage = "open" => positions = PositionOf[header] /\ onDisk.positions = PositionOf[flushed]
    ELSE IsWhole =>
           \A c \in Commitment : PositionOf[header][c] /= NULL => positions[c] = PositionOf[header][c]

\* A block is applied only if it is valid on its chain: it spends unspent, mature
\* outputs, creates none that is unspent and repeats no NRD kernel too soon
\* (ApplyBlock, ValidateNRDKernelRules, ValidateRoots), also with the positions
\* that a downloaded state leaves behind.  Until then every valid block is
\* applied, and the output that ApplyBlock asserts at a position is there.
\* A chain that was partly taken over by a state sync and partly applied block by
\* block keeps the NRD rule, whose two implementations agree
\* (ValidateNRDKernelHistory, ValidateNRDKernelRules), and spends nothing that was
\* never created (ValidateKernelSums).
AppliesExactlyValidBlocks ==
    IsWhole =>
      /\ \A h \in Hash \ {Genesis} :
            Prev(h) = header =>
              /\ CanApply(h) => IsValidBlock(h)
              /\ synced = NULL => InputsAreOutputs(h) /\ (IsValidBlock(h) => CanApply(h))
      /\ \A n \in 2..Len(Path[header]) :
            /\ NoRecentDuplicate(Path[header][n])
            /\ Inputs[Path[header][n]] \subseteq Range(AllOutputs[Path[header][n - 1]])

\* A transaction is valid for the pool if and only if the next block may contain
\* it (TxHashSet::IsValid agrees with ApplyBlock), also with the positions that a
\* downloaded state leaves behind: the pool compares the output it finds.
PoolAgreesWithBlocks ==
    IsWhole =>
      \A c \in Commitment :
        /\ IsValid({c}, {}) <=> MaySpend(header, c)
        /\ IsValid({}, {c}) <=> MayCreate(header, c)

\* A block is applied exactly when it is valid (after a download, only when), and the
\* pool takes exactly what the next block may contain: one set of rules in three
\* places of the code.
RulesAgree == AppliesExactlyValidBlocks /\ PoolAgreesWithBlocks

\* Every block of the chain can be rewound: the block and the positions it spent
\* were committed with it (HandleReorg, TxHashSet::Rewind).  A downloaded state
\* comes without them: only the blocks above it can.
EveryBlockCanBeRewound ==
    IsWhole =>
      \A n \in DOMAIN Path[header] :
        (synced = NULL \/ synced \in Range(Prefix(Path[header], n))) => CanRewind(Path[header][n])

\* The set and the table of positions both follow the chain, whichever blocks were
\* applied, rewound or rolled back together, and can be taken back along it.
StateMatchesChain == PMMRsMatchChain /\ PositionsMatchChain /\ EveryBlockCanBeRewound
=============================================================================
