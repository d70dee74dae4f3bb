----------------------------- MODULE MmrSegment -----------------------------
(***************************************************************************)
(* A pruned Merkle mountain range as its files hold it, and the segments   *)
(* it is sent in.  The hash file and the data file hold only what was not  *)
(* compacted: a prune list of subtree roots tells how far a position is    *)
(* shifted.  A segment carries the leaves and hashes of a range of         *)
(* positions and a proof that they belong under the root of the header;    *)
(* which of them must be there follows from a bitmap of the unspent        *)
(* outputs, itself sent in segments.                                       *)
(*                                                                         *)
(* A hash is the term it is computed from, so that two hashes are equal    *)
(* when their inputs are.  A read that throws or returns null is Nothing.  *)
(***************************************************************************)
EXTENDS MmrIndex

CONSTANTS
    ChunkBits,      \* bits of a bitmap chunk (1024)
    BlockChunks,    \* chunks of a bitmap block (64)
    BlockThreshold  \* positions a bitmap block lists at most (4096)

Nothing == <<>>

HashLeafWithIndex(data, position) == <<position, data>>
HashParentWithIndex(left, right, position) == <<position, left, right>>

\* Peak hashes from the left joined into one, the rightmost two first.
BagPeaks(hashes, size) ==
    LET bag[i \in Nat] ==
            IF i = Len(hashes) THEN hashes[i]
                               ELSE HashParentWithIndex(hashes[i], bag[i + 1], size)
    IN  IF hashes = <<>> THEN Nothing ELSE bag[1]

-----------------------------------------------------------------------------
(* The prune list.  Roots are positions; the bitmap on disk holds them     *)
(* plus one.                                                               *)

SortedPositions(S) == [i \in 1..Cardinality(S) |-> CHOOSE p \in S : Cardinality({q \in S : q < p}) = i - 1]

NodesBelow(root) == GetSubtreeFirstPosition(root)..root

\* Nodes, and leaves, that a root of a height takes out of the files.
ShiftOf(root) == 2 * (2^CalculateHeight(root) - 1)
LeafShiftOf(root) == IF IsLeaf(root) THEN 0 ELSE 2^CalculateHeight(root)

RunningSums(seq) ==
    LET sum[i \in Nat] == IF i = 0 THEN 0 ELSE sum[i - 1] + seq[i]
    IN  [i \in DOMAIN seq |-> sum[i]]

BuildShiftCaches(roots) ==
    LET sorted == SortedPositions(roots)
    IN  [shift |-> RunningSums([i \in DOMAIN sorted |-> ShiftOf(sorted[i])]),
         leaf  |-> RunningSums([i \in DOMAIN sorted |-> LeafShiftOf(sorted[i])])]

BuildPrunedCache(roots) == UNION {NodesBelow(r) : r \in roots}

PruneListOf(roots) ==
    [roots |-> roots, pruned |-> BuildPrunedCache(roots),
     shift |-> BuildShiftCaches(roots).shift, leaf |-> BuildShiftCaches(roots).leaf]

LastOrZero(seq) == IF seq = <<>> THEN 0 ELSE seq[Len(seq)]

AddPrunedRoot(list, root) ==
    IF root \in list.roots THEN list
    ELSE IF \A r \in list.roots : root > r
    THEN [roots  |-> list.roots \cup {root},
          pruned |-> list.pruned \cup NodesBelow(root),
          shift  |-> Append(list.shift, LastOrZero(list.shift) + ShiftOf(root)),
          leaf   |-> Append(list.leaf, LastOrZero(list.leaf) + LeafShiftOf(root))]
    ELSE PruneListOf(list.roots \cup {root})

IsCompacted(list, position) == position \in list.pruned \ list.roots

CachedShift(rank, cache) ==
    IF rank = 0 \/ cache = <<>> THEN 0
    ELSE IF rank > Len(cache) THEN cache[Len(cache)] ELSE cache[rank]

GetShift(list, position) == CachedShift(Cardinality({r \in list.roots : r <= position}), list.shift)

GetLeafShift(list, position) == CachedShift(Cardinality({r \in list.roots : r <= position}), list.leaf)

\* The shift at the position after the last root: all of them.
GetTotalShift(list) ==
    IF list.roots = {} THEN 0
    ELSE GetShift(list, (CHOOSE r \in list.roots : \A q \in list.roots : q <= r) + 1)
-----------------------------------------------------------------------------
(* Reads of a pruned range: hash file, data file, leaf set, prune list.    *)

GetSize(set) == GetTotalShift(set.list) + Len(set.hashes)

InFile(file, index) == IF index \in 0..(Len(file) - 1) THEN file[index + 1] ELSE Nothing

GetHashAt(set, position) ==
    IF IsCompacted(set.list, position) THEN Nothing
    ELSE InFile(set.hashes, position - GetShift(set.list, position))

\* A value for each element of a sequence, looked up in a function.
Look(seq, f) == [i \in DOMAIN seq |-> f[seq[i]]]

MMRRoot(set, size) ==
    BagPeaks(Look(GetPeakIndices(size),
                  [p \in 0..size |-> InFile(set.hashes, p - GetShift(set.list, p))]), size)

IsUnpruned(set, leafIndex) == LeafAt(leafIndex) < GetSize(set) /\ leafIndex \in set.leafSet

\* The data of a leaf, spent or not; the shift is taken one position on.
GetDataAt(set, leafIndex) ==
    IF LeafAt(leafIndex) >= GetSize(set) \/ IsCompacted(set.list, LeafAt(leafIndex)) THEN Nothing
    ELSE InFile(set.data, leafIndex - GetLeafShift(set.list, LeafAt(leafIndex) + 1))

GetAt(set, leafIndex) == IF IsUnpruned(set, leafIndex) THEN GetDataAt(set, leafIndex) ELSE Nothing

-----------------------------------------------------------------------------
(* The bitmap of unspent outputs: a range of its own whose leaves are      *)
(* chunks, each the set of its bits.                                       *)

NumChunks(numOutputs) == (numOutputs + ChunkBits - 1) \div ChunkBits

ChunksOf(bits, numOutputs) ==
    [c \in 1..NumChunks(numOutputs) |->
        {b \in 0..(ChunkBits - 1) : (c - 1) * ChunkBits + b \in bits /\ (c - 1) * ChunkBits + b < numOutputs}]

BitmapContains(chunks, bit) ==
    /\ bit \div ChunkBits < Len(chunks)
    /\ bit % ChunkBits \in chunks[bit \div ChunkBits + 1]

\* The nodes of the range over the chunks, as AppendChunk adds them.
ChunkNodes(chunks) ==
    LET node[p \in Nat] ==
            IF IsLeaf(p) THEN HashLeafWithIndex(chunks[CalculateLeafIndex(p) + 1], p)
            ELSE HashParentWithIndex(node[GetLeftChild(p)], node[GetRightChild(p)], p)
    IN  [p \in 0..(LeafAt(Len(chunks)) - 1) |-> node[p]]

BitmapRoot(chunks) ==
    BagPeaks(Look(GetPeakIndices(LeafAt(Len(chunks))), ChunkNodes(chunks)), LeafAt(Len(chunks)))

\* A block of chunks on the wire: the set positions when they are few, else
\* the unset ones when they are few, else the raw bits.
FromChunks(chunks) ==
    LET set   == {b \in 0..(Len(chunks) * ChunkBits - 1) : BitmapContains(chunks, b)}
        unset == 0..(Len(chunks) * ChunkBits - 1) \ set
    IN  IF Cardinality(set) < BlockThreshold
        THEN [count |-> Len(chunks), mode |-> "set", positions |-> set, raw |-> <<>>]
        ELSE IF Cardinality(unset) < BlockThreshold
        THEN [count |-> Len(chunks), mode |-> "unset", positions |-> unset, raw |-> <<>>]
        ELSE [count |-> Len(chunks), mode |-> "raw", positions |-> {}, raw |-> chunks]

ToChunks(block) ==
    LET listed(c) == {b \in 0..(ChunkBits - 1) : (c - 1) * ChunkBits + b \in block.positions}
    IN  [c \in 1..block.count |->
            CASE block.mode = "raw"   -> block.raw[c]
              [] block.mode = "set"   -> listed(c)
              [] block.mode = "unset" -> 0..(ChunkBits - 1) \ listed(c)]

\* The chunks of a segment cut into blocks, and put together again.
BlocksOf(chunks) ==
    [b \in 1..((Len(chunks) + BlockChunks - 1) \div BlockChunks) |->
        FromChunks(SubSeq(chunks, (b - 1) * BlockChunks + 1,
                          IF b * BlockChunks < Len(chunks) THEN b * BlockChunks ELSE Len(chunks)))]

ChunksOfBlocks(blocks) ==
    LET join[b \in Nat] == IF b = 0 THEN <<>> ELSE join[b - 1] \o ToChunks(blocks[b])
    IN  join[Len(blocks)]
-----------------------------------------------------------------------------
(* The proof of a segment: the siblings on the way up to its peak, the     *)
(* peaks to the right joined into one, the peaks to the left one by one.   *)

\* Positions a proof needs: the siblings from startPos on, the peaks to the
\* right and those to the left, nearest first.
LastParent(branch, last) == IF branch = <<>> THEN last ELSE branch[Len(branch)].parent

Reversed(seq) == [i \in DOMAIN seq |-> seq[Len(seq) + 1 - i]]

ProofOutline(branch, peaks, range, startPos) ==
    [path  |-> SelectSeq(branch, LAMBDA e : e.parent >= startPos),
     right |-> SelectSeq(peaks, LAMBDA p : p > LastParent(branch, range.last)),
     left  |-> Reversed(SelectSeq(peaks, LAMBDA p : p < range.first))]

OutlineOf(mmrSize, range, startPos) ==
    ProofOutline(FamilyBranch(range.last, mmrSize), GetPeakIndices(mmrSize), range, startPos)

\* The hashes at those positions, the right peaks joined into one.  No proof
\* when one is Nothing: an optional result is a set of at most one element.
HashesOf(outline, hashAt, mmrSize) ==
    [i \in DOMAIN outline.path |-> hashAt[outline.path[i].sibling]]
    \o (IF outline.right = <<>> THEN <<>> ELSE <<BagPeaks(Look(outline.right, hashAt), mmrSize)>>)
    \o Look(outline.left, hashAt)

Needs(outline) ==
    {outline.path[i].sibling : i \in DOMAIN outline.path}
    \cup {outline.right[i] : i \in DOMAIN outline.right}
    \cup {outline.left[i] : i \in DOMAIN outline.left}

Prove(outline, hashAt, mmrSize) ==
    IF \E p \in Needs(outline) : hashAt[p] = Nothing THEN {} ELSE {HashesOf(outline, hashAt, mmrSize)}

Generate(mmrSize, range, startPos, hashAt) == Prove(OutlineOf(mmrSize, range, startPos), hashAt, mmrSize)

\* The root that a proof leads to from the root of the segment, or Nothing
\* when the proof has too few hashes or too many.
Follow(proof, outline, segmentRoot, mmrSize) ==
    LET path  == outline.path
        right == IF outline.right = <<>> THEN 0 ELSE 1
        up[i \in Nat] ==
            IF i = 0 THEN segmentRoot
            ELSE IF i <= Len(path)
            THEN IF IsLeftSibling(path[i].sibling)
                 THEN HashParentWithIndex(proof[i], up[i - 1], path[i].parent)
                 ELSE HashParentWithIndex(up[i - 1], proof[i], path[i].parent)
            ELSE IF i <= Len(path) + right
            THEN HashParentWithIndex(up[i - 1], proof[i], mmrSize)
            ELSE HashParentWithIndex(proof[i], up[i - 1], mmrSize)
    IN  IF Len(proof) # Len(path) + right + Len(outline.left) THEN Nothing ELSE up[Len(proof)]

ReconstructRoot(proof, mmrSize, range, segmentRoot, unprunedPos) ==
    Follow(proof, OutlineOf(mmrSize, range, unprunedPos), segmentRoot, mmrSize)
-----------------------------------------------------------------------------
(* Building a segment of what the files still hold.                        *)

SiblingLeaf(leafIndex, position) ==
    IF IsLeftSibling(position) THEN leafIndex + 1
    ELSE IF leafIndex = 0 THEN leafIndex ELSE leafIndex - 1

\* The leaf itself or its sibling is unspent, or it is the last node.
RequiresLeafData(set, position) ==
    \/ position = GetSize(set) - 1
    \/ \E i \in {CalculateLeafIndex(position), SiblingLeaf(CalculateLeafIndex(position), position)} :
            IsUnpruned(set, i)

Positions(range) == range.first..range.last

HasData(set, position) == IsLeaf(position) /\ GetDataAt(set, CalculateLeafIndex(position)) # Nothing

\* What the files have of a range: leaves with data, hashes of the others.
Content(set, range) ==
    [leaves |-> {p \in Positions(range) : HasData(set, p)},
     hashes |-> {p \in Positions(range) : ~HasData(set, p) /\ GetHashAt(set, p) # Nothing}]

FirstOf(positions) == {p \in positions : \A q \in positions : p <= q}

\* When they have nothing of it, the hash of the first ancestor they have.
KeptAncestors(set, branch) == {e.parent : e \in {branch[i] : i \in DOMAIN branch}}
                              \cap {p \in 0..GetSize(set) : GetHashAt(set, p) # Nothing}

Outer(set, range, content) ==
    IF content.leaves # {} \/ content.hashes # {} THEN {}
    ELSE FirstOf(KeptAncestors(set, FamilyBranch(range.last, GetSize(set))))

StartAtFirst(outer) == 0
StartAfter(outer) == IF outer = {} THEN 0 ELSE (CHOOSE p \in outer : TRUE) + 1

MakeSegment(set, id, range, content, outer) ==
    {[height |-> id.height, index |-> id.index, proof |-> proof,
      hashes |-> [p \in content.hashes \cup outer |-> GetHashAt(set, p)],
      leaves |-> [p \in content.leaves |-> GetDataAt(set, CalculateLeafIndex(p))]] :
        proof \in Generate(GetSize(set), range, StartAfter(outer),
                           [p \in 0..(GetSize(set) - 1) |-> GetHashAt(set, p)])}

FillSegment(set, id, range, content) ==
    IF \E p \in Positions(range) \ content.leaves : IsLeaf(p) /\ RequiresLeafData(set, p) THEN {}
    ELSE MakeSegment(set, id, range, content, Outer(set, range, content))

BuildSegment(set, height, index) ==
    LET range == GetPositionRange(height, index, GetSize(set))
    IN  IF GetSegmentUnprunedSize(height, index, GetSize(set)) = 0 THEN {}
        ELSE FillSegment(set, [height |-> height, index |-> index], range, Content(set, range))

OutputBitmapSegment(chunks, height, index) ==
    LET size   == LeafAt(Len(chunks))
        number == GetSegmentUnprunedSize(height, index, size)
        from   == GetLeafOffset(height, index)
    IN  IF number = 0 THEN {}
        ELSE {[height |-> height, index |-> index, proof |-> proof,
               blocks |-> BlocksOf(SubSeq(chunks, from + 1, from + number))] :
                proof \in Generate(size, GetPositionRange(height, index, size), 0, ChunkNodes(chunks))}

\* Back to leaves at positions, given the chunks of a message.
SegmentOf(message, from, chunks) ==
    [height |-> message.height, index |-> message.index, proof |-> message.proof,
     hashes |-> <<>>,
     leaves |-> [p \in {LeafAt(from + i - 1) : i \in DOMAIN chunks} |->
                    chunks[CalculateLeafIndex(p) - from + 1]]]

ToSegment(message) ==
    SegmentOf(message, GetLeafOffset(message.height, message.index), ChunksOfBlocks(message.blocks))
-----------------------------------------------------------------------------
(* Checking a segment.  bitmap is a sequence of chunks, or NoBitmap when   *)
(* every leaf must be there.                                               *)

NoBitmap == Nothing

IsRequiredByBitmap(bitmap, position, mmrSize) ==
    \E i \in SubtreeLeaves(position, mmrSize) : BitmapContains(bitmap, i)

IsLeafRequiredByBitmap(bitmap, position, mmrSize) ==
    \/ position = mmrSize - 1
    \/ BitmapContains(bitmap, CalculateLeafIndex(position))
    \/ \E i \in {SiblingLeaf(CalculateLeafIndex(position), position)} :
            i < CountLeaves(mmrSize) /\ BitmapContains(bitmap, i)

StoredHash(segment, position) ==
    IF position \in DOMAIN segment.hashes THEN segment.hashes[position] ELSE Nothing

OrStored(hash, segment, position) == IF hash = Nothing THEN StoredHash(segment, position) ELSE hash

\* A node of the range: Nothing above leaves nobody needs, Missing where
\* something needed is not there.
Missing == <<"missing">>

LeafNode(segment, p, mmrSize, bitmap) ==
    IF bitmap # NoBitmap /\ ~IsLeafRequiredByBitmap(bitmap, p, mmrSize) THEN Nothing
    ELSE IF p \in DOMAIN segment.leaves THEN HashLeafWithIndex(segment.leaves[p], p)
    ELSE Missing

JoinKnown(left, right, p) ==
    IF Nothing \in {left, right} THEN Missing ELSE HashParentWithIndex(left, right, p)

JoinNode(left, right, segment, p) ==
    IF Missing \in {left, right} THEN Missing
    ELSE IF {left, right} = {Nothing} THEN Nothing
    ELSE JoinKnown(OrStored(left, segment, GetLeftChild(p)), OrStored(right, segment, GetRightChild(p)), p)

NodeHashes(segment, range, mmrSize, bitmap) ==
    LET node[p \in Nat] ==
            IF IsLeaf(p) THEN LeafNode(segment, p, mmrSize, bitmap)
            ELSE JoinNode(node[GetLeftChild(p)], node[GetRightChild(p)], segment, p)
    IN  [p \in Positions(range) |-> node[p]]

\* The root of a segment cut short by the end of the range: its peaks.
JoinPeaks(hashes, mmrSize) ==
    IF \E i \in DOMAIN hashes : hashes[i] = Nothing THEN Nothing ELSE BagPeaks(hashes, mmrSize)

RootOf(segment, range, node, mmrSize) ==
    IF \E p \in DOMAIN node : node[p] = Missing THEN Nothing
    ELSE IF IsFull(segment.height, segment.index, mmrSize) THEN node[range.last]
    ELSE JoinPeaks(Look(SelectSeq(GetPeakIndices(mmrSize), LAMBDA p : p \in Positions(range)),
                        [p \in Positions(range) |-> OrStored(node[p], segment, p)]), mmrSize)

SegmentRoot(segment, range, mmrSize, bitmap) ==
    RootOf(segment, range, NodeHashes(segment, range, mmrSize, bitmap), mmrSize)

\* Hashes of the segment that stand for the whole of it and nobody needs: of
\* its root, or of an ancestor.
Around(segment, last, branch, mmrSize, bitmap) ==
    {p \in {last} \cup {branch[i].parent : i \in DOMAIN branch} :
        p \in DOMAIN segment.hashes /\ ~IsRequiredByBitmap(bitmap, p, mmrSize)}

\* The root of the segment, or of the pruned subtree around it, with the
\* position its proof starts from.
FirstUnprunedParent(segment, range, root, mmrSize, bitmap) ==
    IF root # Nothing THEN {[hash |-> root, pos |-> range.last + 1]}
    ELSE IF bitmap = NoBitmap \/ ~IsFull(segment.height, segment.index, mmrSize) THEN {}
    ELSE {[hash |-> segment.hashes[p], pos |-> p + 1] :
            p \in FirstOf(Around(segment, range.last, FamilyBranch(range.last, mmrSize), mmrSize, bitmap))}

\* The roots of the whole range that a segment proves: one or none.
ProvenRoots(segment, range, mmrSize, bitmap) ==
    {ReconstructRoot(segment.proof, mmrSize, range, parent.hash, parent.pos) :
        parent \in FirstUnprunedParent(segment, range, SegmentRoot(segment, range, mmrSize, bitmap),
                                       mmrSize, bitmap)} \ {Nothing}

ValidateWith(segment, mmrSize, mmrRoot, hashLastPos, other, otherIsLeft, bitmap) ==
    \E root \in ProvenRoots(segment, GetPositionRange(segment.height, segment.index, mmrSize),
                            mmrSize, bitmap) :
        mmrRoot = IF otherIsLeft THEN HashParentWithIndex(other, root, hashLastPos)
                                 ELSE HashParentWithIndex(root, other, hashLastPos)
=============================================================================
