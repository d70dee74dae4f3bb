----------------------------- MODULE PrunedMmr -----------------------------
(***************************************************************************)
(* The output range of a node over its life: loaded from a compacted       *)
(* archive, changed by blocks and reorganisations, committed or rolled     *)
(* back, and rebuilt from segments by a node that starts from the genesis  *)
(* output alone.  The segments come from snapshots of nodes that compacted *)
(* different subtrees.                                                     *)
(*                                                                         *)
(* A set is [hashes, data, leafSet, list]: the two files, the bitmap of    *)
(* unspent leaves and the prune list with its caches.  A state of the      *)
(* chain is [leaves, spent]: every output ever made and which are spent.   *)
(***************************************************************************)
EXTENDS MmrSegment

CONSTANTS
    ArchiveLeaves,   \* outputs of the archive the node starts from
    MaxLeaves,       \* bound on the outputs of a chain
    MaxBlocks,       \* bound on the blocks after the archive
    MaxForks,        \* bound on reorganisations
    MaxSyncs,        \* bound on rebuilds from segments
    SegmentHeight,   \* height of output segments (11)
    BitmapHeight     \* height of bitmap segments (9)

VARIABLES
    mem,     \* the set as the open files show it
    disk,    \* the set as committed
    cache,   \* cached bitmap: size it is for and chunks, or Nothing
    base,    \* chain state at the oldest block the node can return to
    chain,   \* blocks after it: outputs and the leaves they spend
    saved,   \* chain at the last commit
    forks,   \* reorganisations so far; tells the outputs of branches apart
    sync     \* the rebuild: stage, peers, bitmap and size applied

prunedVars == <<mem, disk, cache, base, chain, saved, forks, sync>>

-----------------------------------------------------------------------------
(* Operations on a set.                                                    *)

EmptySet == [hashes |-> <<>>, data |-> <<>>, leafSet |-> {}, list |-> PruneListOf({})]

\* The parents that a node at the end of the hash file completes.
AddParents(set, position) ==
    LET at(file, p) == GetHashAt([set EXCEPT !.hashes = file], p)
        last == CHOOSE q \in position..(2 * position + 1) :
                    IsLeaf(q + 1) /\ \A p \in (position + 1)..q : ~IsLeaf(p)
        grow[p \in Nat] ==
            IF p = position THEN set.hashes
            ELSE Append(grow[p - 1],
                        HashParentWithIndex(at(grow[p - 1], GetLeftChild(p)),
                                            at(grow[p - 1], GetRightChild(p)), p))
    IN  [set EXCEPT !.hashes = grow[last]]

AppendLeaf(set, leaf) ==
    LET position == GetSize(set)
    IN  AddParents([set EXCEPT !.leafSet = @ \cup {CalculateLeafIndex(position)},
                               !.data    = Append(@, leaf),
                               !.hashes  = Append(@, HashLeafWithIndex(leaf, position))], position)

AppendPrunedSubtree(set, hash, position) ==
    AddParents([set EXCEPT !.hashes = Append(@, hash), !.list = AddPrunedRoot(@, position)], position)

AppendAll(set, leaves) ==
    LET grown[i \in Nat] == IF i = 0 THEN set ELSE AppendLeaf(grown[i - 1], leaves[i])
    IN  grown[Len(leaves)]

\* First the leaves spent since are set, then those made since are unset.
RewoundLeafSetSpent(leafSet, numLeaves, leavesToAdd) == leafSet \cap 0..(numLeaves - 1)
RewoundLeafSet(leafSet, numLeaves, leavesToAdd) == (leafSet \cup leavesToAdd) \cap 0..(numLeaves - 1)

\* Rewind: the files lose what is after the leaf, the prune list stays.
RewindSet(set, numLeaves, leavesToAdd) ==
    LET before == LeafAt(numLeaves) - 1
    IN  [set EXCEPT !.hashes  = SubSeq(@, 1, before + 1 - GetShift(set.list, before)),
                    !.data    = SubSeq(@, 1, numLeaves - GetLeafShift(set.list, before)),
                    !.leafSet = RewoundLeafSet(@, numLeaves, leavesToAdd)]

RewindToEmpty(set) == [set EXCEPT !.hashes = <<>>, !.data = <<>>, !.leafSet = {}]

\* Opening the files: the caches of the prune list are computed anew.
OpenFiles(files) == [files EXCEPT !.list = PruneListOf(@.roots)]

\* A pruned subtree from the first position on takes the place of the one
\* output an empty set has.
ReplacesGenesis(start, localSize) == start = 0 /\ localSize = 1

\* One node of a segment, in the order of positions.
ApplyNode(set, segment, p, target, bitmap) ==
    LET localSize == GetSize(set)
        start     == GetSubtreeFirstPosition(p)
        done(new) == [set |-> new, ok |-> TRUE]
        failed    == [set |-> set, ok |-> FALSE]
    IN  IF p < localSize THEN done(set)
        ELSE IF p \in DOMAIN segment.hashes
        THEN IF IsRequiredByBitmap(bitmap, p, target) THEN done(set)
             ELSE IF ReplacesGenesis(start, localSize)
             THEN done(AppendPrunedSubtree(RewindToEmpty(set), segment.hashes[p], p))
             ELSE IF start = localSize THEN done(AppendPrunedSubtree(set, segment.hashes[p], p))
             ELSE failed
        ELSE IF ~IsLeafRequiredByBitmap(bitmap, p, target) THEN done(set)
             ELSE IF p = localSize THEN done(AppendLeaf(set, segment.leaves[p]))
             ELSE failed

\* The nodes up to the first that does not fit; what was applied stays.
ApplySegment(set, segment, target, bitmap) ==
    LET nodes == SortedPositions(DOMAIN segment.hashes \cup DOMAIN segment.leaves)
        upTo[i \in Nat] ==
            IF i = 0 THEN [set |-> set, ok |-> TRUE]
            ELSE IF ~upTo[i - 1].ok THEN upTo[i - 1]
            ELSE ApplyNode(upTo[i - 1].set, segment, nodes[i], target, bitmap)
    IN  upTo[Len(nodes)]

UpdateLeafSet(set, bitmap, numLeaves) ==
    [set EXCEPT !.leafSet = {i \in 0..(numLeaves - 1) : BitmapContains(bitmap, i)}]

\* The bitmap a set serves: cached for its size, or built from the leaf set.
OutputBitmap(set, cached) ==
    IF cached # Nothing /\ cached.size = GetSize(set) THEN cached.chunks
    ELSE ChunksOf({i \in set.leafSet : IsUnpruned(set, i)}, CountLeaves(GetSize(set)))
-----------------------------------------------------------------------------
(* The chain, and the archive of a node that compacted it.                 *)

After(from, blocks) ==
    LET state[i \in Nat] ==
            IF i = 0 THEN from
            ELSE [leaves |-> state[i - 1].leaves \o blocks[i].outputs,
                  spent  |-> state[i - 1].spent \cup blocks[i].inputs]
    IN  state[Len(blocks)]

Unspent(state) == 0..(Len(state.leaves) - 1) \ state.spent

FullSet(state) == [AppendAll(EmptySet, state.leaves) EXCEPT !.leafSet = Unspent(state)]

\* Compaction, by the node that made the archive: the largest subtrees all of
\* whose leaves were pruned, and the files without what is below them.
WholePruned(pruned, size) == {p \in 0..(size - 1) : SubtreeLeaves(p, size + 1) \subseteq pruned}

TopsOf(whole) == {p \in whole : GetParent(p) \notin whole}

KeepOnly(file, kept) == [i \in DOMAIN kept |-> file[kept[i] + 1]]

Without(full, gone, roots) ==
    [hashes  |-> KeepOnly(full.hashes, SortedPositions(0..(Len(full.hashes) - 1) \ gone)),
     data    |-> KeepOnly(full.data, SortedPositions({i \in 0..(Len(full.data) - 1) : LeafAt(i) \notin gone})),
     leafSet |-> full.leafSet,
     list    |-> PruneListOf(roots)]

CompactTo(full, roots) == Without(full, BuildPrunedCache(roots) \ roots, roots)

Compacted(state, pruned) ==
    CompactTo(FullSet(state), TopsOf(WholePruned(pruned, LeafAt(Len(state.leaves)))))

\* A copy of the committed set taken back to a block of the chain.
CreateSnapshot(k) ==
    LET left   == After(base, SubSeq(saved, 1, k))
        undone == UNION {saved[i].inputs : i \in (k + 1)..Len(saved)}
    IN  RewindSet(OpenFiles(disk), Len(left.leaves), undone)

NoSync == [stage |-> "none", header |-> Nothing, peers |-> {}, used |-> {},
           bitmap |-> <<>>, applied |-> 0, count |-> 0]

Genesis == AppendLeaf(EmptySet, <<0, 0>>)

PrunedInit ==
    /\ \E spent \in SUBSET (0..(ArchiveLeaves - 1)) : \E pruned \in SUBSET spent :
        /\ base = [leaves |-> [i \in 1..ArchiveLeaves |-> <<i - 1, 0>>], spent |-> spent]
        /\ disk = Compacted(base, pruned)
    /\ mem = OpenFiles(disk)
    /\ cache = Nothing /\ chain = <<>> /\ saved = <<>> /\ forks = 0 /\ sync = NoSync
-----------------------------------------------------------------------------
(* What a header commits to, from the outputs alone.  The n-th leaf        *)
(* completes a tree of height k when 2^k divides n; a range of n leaves    *)
(* has n \div 2^k trees of each height k.                                  *)

Completes(n, k) == n % 2^k = 0

RefSize(n) == LET size[m \in Nat] == IF m = 0 THEN 0 ELSE m + size[m \div 2] IN size[n]

\* The trees the n-th leaf completes come last, the highest at the end.
RefPosition(n, k) ==
    RefSize(n) - 1 - Cardinality({j \in 1..n : j > k /\ Completes(n, j)})

RefTrees(leaves) ==
    LET tree[n \in Nat, k \in Nat] ==
            IF k = 0 THEN HashLeafWithIndex(leaves[n], RefPosition(n, 0))
            ELSE HashParentWithIndex(tree[n - 2^(k - 1), k - 1], tree[n, k - 1], RefPosition(n, k))
    IN  tree

\* Height of the tree that starts after n leaves and is a peak of a range.
PeakHeight(n, total) == CHOOSE k \in 0..total : 2^k <= total - n /\ total - n < 2^(k + 1)

RefRoot(leaves) ==
    LET total == Len(leaves)
        from[n \in Nat] ==
            LET k    == PeakHeight(n, total)
                peak == RefTrees(leaves)[n + 2^k, k]
            IN  IF n + 2^k = total THEN peak
                ELSE HashParentWithIndex(peak, from[n + 2^k], RefSize(total))
    IN  from[0]

RefChunks(state) ==
    [c \in 1..((Len(state.leaves) + ChunkBits - 1) \div ChunkBits) |->
        {b \in 0..(ChunkBits - 1) : (c - 1) * ChunkBits + b \in Unspent(state)}]

RefHeader(state) ==
    LET size == RefSize(Len(state.leaves))
    IN  [outputs |-> Len(state.leaves), size |-> size,
         root |-> HashParentWithIndex(RefRoot(state.leaves), RefRoot(RefChunks(state)), size)]
-----------------------------------------------------------------------------
(* Blocks.                                                                 *)

ApplyBlock(inputs, number) ==
    LET now == After(base, chain)
        outputs == [i \in 1..number |-> <<Len(now.leaves) + i - 1, forks>>]
    IN  /\ sync.stage = "none" /\ Len(chain) < MaxBlocks
        /\ Len(now.leaves) + number <= MaxLeaves
        /\ \A i \in inputs : GetAt(mem, i) # Nothing
        /\ mem' = AppendAll([mem EXCEPT !.leafSet = @ \ inputs], outputs)
        /\ chain' = Append(chain, [outputs |-> outputs, inputs |-> inputs])
        /\ cache' = Nothing
        /\ UNCHANGED <<disk, base, saved, forks, sync>>

Rewind(k) ==
    /\ sync.stage = "none" /\ forks < MaxForks
    /\ mem' = RewindSet(mem, Len(After(base, SubSeq(chain, 1, k)).leaves),
                        UNION {chain[i].inputs : i \in (k + 1)..Len(chain)})
    /\ chain' = SubSeq(chain, 1, k)
    /\ forks' = forks + 1
    /\ cache' = Nothing
    /\ UNCHANGED <<disk, base, saved, sync>>

\* Writing the prune list rebuilds its caches.
CommitSet ==
    /\ sync.stage = "none" /\ saved # chain
    /\ mem' = OpenFiles(mem) /\ disk' = mem' /\ saved' = chain
    /\ UNCHANGED <<cache, base, chain, forks, sync>>

Rollback ==
    /\ sync.stage = "none" /\ saved # chain
    /\ mem' = OpenFiles(disk) /\ chain' = saved /\ cache' = Nothing
    /\ UNCHANGED <<disk, base, saved, forks, sync>>

BuildOutputBitmapCache ==
    /\ sync.stage = "none"
    /\ cache' = [size |-> GetSize(mem), chunks |-> OutputBitmap(mem, cache)]
    /\ cache' # cache
    /\ UNCHANGED <<mem, disk, base, chain, saved, forks, sync>>
-----------------------------------------------------------------------------
(* A new node rebuilds the set of a block from two peers: the node so far, *)
(* and one that pruned nothing.                                            *)

TargetSize == sync.header.size
BitmapSize == LeafAt(NumChunks(CountLeaves(TargetSize)))

StartPIBD(k) ==
    /\ sync.stage = "none" /\ sync.count < MaxSyncs
    /\ LET archive == After(base, SubSeq(saved, 1, k))
       IN  /\ base' = archive
           /\ sync' = [stage |-> "bitmap", header |-> RefHeader(archive),
                       peers |-> {CreateSnapshot(k), FullSet(archive)}, used |-> {},
                       bitmap |-> <<>>, applied |-> GetSize(Genesis), count |-> sync.count + 1]
    /\ mem' = Genesis /\ disk' = Genesis
    /\ cache' = Nothing /\ chain' = <<>> /\ saved' = <<>>
    /\ UNCHANGED forks

AddBitmapSegment(message, outputRoot) ==
    ValidateWith(ToSegment(message), BitmapSize, sync.header.root, TargetSize, outputRoot, TRUE, NoBitmap)

AddOutputSegment(segment, bitmap) ==
    ValidateWith(segment, TargetSize, sync.header.root, TargetSize, BitmapRoot(bitmap), FALSE, bitmap)

ReceiveBitmapSegment(peer) ==
    LET index == NextRequiredSegmentIndex(LeafAt(Len(sync.bitmap)), BitmapHeight)
    IN  /\ sync.stage = "bitmap"
        /\ \E message \in OutputBitmapSegment(OutputBitmap(peer, Nothing), BitmapHeight, index) :
              LET chunks == sync.bitmap \o ChunksOfBlocks(message.blocks)
              IN  /\ AddBitmapSegment(message, MMRRoot(peer, TargetSize))
                  /\ sync' = [sync EXCEPT !.bitmap = chunks,
                                          !.stage = IF LeafAt(Len(chunks)) = BitmapSize THEN "segments" ELSE @]
        /\ UNCHANGED <<mem, disk, cache, base, chain, saved, forks>>

ReceiveOutputSegment(peer) ==
    LET index == NextRequiredSegmentIndex(sync.applied, SegmentHeight)
    IN  /\ sync.stage = "segments" /\ sync.applied < TargetSize
        /\ \E segment \in BuildSegment(peer, SegmentHeight, index) :
                \E result \in {ApplySegment(mem, segment, TargetSize, sync.bitmap)} :
                  /\ AddOutputSegment(segment, sync.bitmap)
                  /\ mem' = result.set
                  /\ sync' = [sync EXCEPT
                                !.used = @ \cup {peer},
                                !.stage = IF result.ok THEN @ ELSE "failed",
                                !.applied = IF result.ok
                                            THEN AppliedMMRSizeAfterSegment(SegmentHeight, index, TargetSize)
                                            ELSE @]
        /\ UNCHANGED <<disk, cache, base, chain, saved, forks>>

\* The call that applied segments ends with a commit (~InnerWriter), also when
\* it could not apply one of them.
CommitSegments ==
    /\ sync.stage \in {"segments", "failed"} /\ disk # OpenFiles(mem)
    /\ mem' = OpenFiles(mem) /\ disk' = mem'
    /\ UNCHANGED <<cache, base, chain, saved, forks, sync>>

\* A restart, or an abort and a new start, goes on from the committed files; a
\* process that ends before the commit loses the segments of that call.  The
\* bitmap is asked for again.
ResumePIBD ==
    /\ sync.stage \in {"bitmap", "segments", "failed"}
    /\ mem' = OpenFiles(disk) /\ disk' = mem'
    /\ sync' = [sync EXCEPT !.stage = "bitmap", !.bitmap = <<>>, !.applied = GetSize(mem')]
    /\ UNCHANGED <<cache, base, chain, saved, forks>>

UpdateLeafSets ==
    /\ sync.stage = "segments" /\ sync.applied = TargetSize /\ disk = OpenFiles(mem)
    /\ mem' = OpenFiles(UpdateLeafSet(mem, sync.bitmap, sync.header.outputs))
    /\ disk' = mem'
    /\ cache' = [size |-> GetSize(mem), chunks |-> sync.bitmap]
    /\ sync' = [NoSync EXCEPT !.count = sync.count]
    /\ UNCHANGED <<base, chain, saved, forks>>

PrunedNext ==
    \/ \E number \in 1..2, inputs \in SUBSET Unspent(After(base, chain)) :
            Cardinality(inputs) <= 1 /\ ApplyBlock(inputs, number)
    \/ \E k \in 0..(Len(chain) - 1) : Rewind(k)
    \/ CommitSet \/ Rollback \/ BuildOutputBitmapCache
    \/ \E k \in 0..Len(saved) : StartPIBD(k)
    \/ \E peer \in sync.peers : ReceiveBitmapSegment(peer) \/ ReceiveOutputSegment(peer)
    \/ CommitSegments \/ ResumePIBD \/ UpdateLeafSets

PrunedSpec == PrunedInit /\ [][PrunedNext]_prunedVars
-----------------------------------------------------------------------------
(* Properties.                                                             *)

\* A set shows a state of the chain: its size and root, every hash it still
\* has, the hash of every tree with an unspent leaf, and the data of the
\* unspent leaves only.
Shows(set, state) ==
    LET total == Len(state.leaves)
        trees == RefTrees(state.leaves)
    IN  /\ GetSize(set) = RefSize(total)
        /\ MMRRoot(set, RefSize(total)) = RefRoot(state.leaves)
        /\ \A n \in 1..total : \A k \in {j \in 0..total : Completes(n, j)} :
              LET hash == GetHashAt(set, RefPosition(n, k))
              IN  \/ hash = trees[n, k]
                  \/ hash = Nothing /\ (n - 2^k)..(n - 1) \subseteq state.spent
        /\ \A i \in 0..(total - 1) :
              GetAt(set, i) = IF i \in state.spent THEN Nothing ELSE state.leaves[i + 1]

\* Through blocks, reorganisations, commits, rollbacks and a rebuild from
\* segments, the open set and the committed one show the outputs of their
\* chain, and the bitmap the node serves is the one of its unspent outputs.
ReadsMatchChain ==
    sync.stage = "none" =>
        /\ Shows(mem, After(base, chain))
        /\ Shows(OpenFiles(disk), After(base, saved))
        /\ OutputBitmap(mem, cache) = RefChunks(After(base, chain))

\* A peer can serve every segment of the set at a block, whatever subtrees
\* it compacted, and the segment passes the checks of the receiver: the
\* bitmap segments first, the output segments with that bitmap.
ServedSegmentsValidate ==
    sync.stage = "bitmap" /\ sync.bitmap = <<>> =>
        \A peer \in sync.peers :
            /\ OutputBitmap(peer, Nothing) = RefChunks(base)
            /\ \A i \in 0..(CountSegmentsRequired(BitmapSize, BitmapHeight) - 1) :
                  \E message \in OutputBitmapSegment(RefChunks(base), BitmapHeight, i) :
                      AddBitmapSegment(message, MMRRoot(peer, TargetSize))
            /\ \A i \in 0..(CountSegmentsRequired(TargetSize, SegmentHeight) - 1) :
                  \E segment \in BuildSegment(peer, SegmentHeight, i) :
                      AddOutputSegment(segment, RefChunks(base))

\* A validated segment that does not fit the set built so far was cut from
\* subtrees compacted otherwise than those of an earlier segment: with the
\* segments of one peer, aborts and restarts included, the rebuild goes on.
FailsOnlyWhenMixed == sync.stage = "failed" => Cardinality(sync.used) > 1

\* The segments a node serves are the segments another node can use: each one
\* validates, and those of one peer fit together.
SegmentsRebuildSet == ServedSegmentsValidate /\ FailsOnlyWhenMixed
=============================================================================
