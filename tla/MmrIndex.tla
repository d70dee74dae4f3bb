------------------------------ MODULE MmrIndex ------------------------------
(***************************************************************************)
(* Positions in a Merkle mountain range.  The nodes are numbered from 0 in *)
(* postorder; a leaf also has a leaf index, and a range of leaves that is  *)
(* sent in one message has a segment identifier.  Everything is arithmetic *)
(* on positions: the loops of the code run over the sizes 2^k - 1 of the   *)
(* perfect trees, from the largest that fits.                              *)
(***************************************************************************)
EXTENDS Integers, Sequences, FiniteSets

\* Number of binary digits of x (0 for 0).
NumBits(x) == CHOOSE k \in 0..x : 2^k > x /\ (k = 0 \/ 2^(k - 1) <= x)

\* All bits below the highest one set: the largest peak that could fit.
FillOnesToRight(x) == 2^NumBits(x) - 1

CountBitsSet(x) == Cardinality({k \in 0..NumBits(x) : (x \div 2^k) % 2 = 1})

\* Height of the node at a position: what is left of the position when the
\* trees to its left are taken off, the largest first.
TakeOff(rest, peakSize) == IF rest >= peakSize THEN rest - peakSize ELSE rest

CalculateHeight(position) ==
    LET left[peakSize \in Nat] ==
            TakeOff(IF peakSize >= FillOnesToRight(position) THEN position
                    ELSE left[2 * peakSize + 1], peakSize)
    IN  IF position = 0 THEN 0 ELSE left[1]

\* The same with the leaves and the roots of the trees.
TakeTree(before, peakSize) ==
    IF before.rest >= peakSize
    THEN [rest   |-> before.rest - peakSize,
          leaves |-> before.leaves + (peakSize + 1) \div 2,
          sum    |-> before.sum + peakSize,
          peaks  |-> Append(before.peaks, before.sum + peakSize - 1)]
    ELSE before

TakeTrees(position) ==
    LET take[peakSize \in Nat] ==
            TakeTree(IF peakSize >= FillOnesToRight(position)
                     THEN [rest |-> position, leaves |-> 0, sum |-> 0, peaks |-> <<>>]
                     ELSE take[2 * peakSize + 1], peakSize)
    IN  take[1]

\* Number of leaves strictly before the position.
CalculateLeafIndex(position) == IF position = 0 THEN 0 ELSE TakeTrees(position).leaves

\* The roots of the perfect trees of a range of the given size, from the
\* left; empty when a parent is missing.
GetPeakIndices(size) ==
    IF size = 0 \/ TakeTrees(size).rest > 0 THEN <<>> ELSE TakeTrees(size).peaks

IsLeaf(position) == CalculateHeight(position) = 0

\* A node whose successor is one higher is a right child.
IsRight(position) == CalculateHeight(position + 1) = CalculateHeight(position) + 1

GetParent(position) ==
    IF IsRight(position) THEN position + 1 ELSE position + 2^(CalculateHeight(position) + 1)

GetSibling(position) ==
    IF IsRight(position) THEN position + 1 - 2^(CalculateHeight(position) + 1)
                         ELSE position + 2^(CalculateHeight(position) + 1) - 1

GetLeftChild(position) == position - 2^CalculateHeight(position)

GetRightChild(position) == position - 1

\* Position of the leaf with an index.
LeafAt(leafIndex) == 2 * leafIndex - CountBitsSet(leafIndex)

CountLeaves(size) == IF size = 0 THEN 0 ELSE CalculateLeafIndex(size)

IsLeftSibling(position) == GetLeftChild(GetParent(position)) = position

\* The ancestors of a node in a range of a size, each with the child that is
\* not on the path.
Family(position) == [parent |-> GetParent(position), sibling |-> GetSibling(position)]

FamilyBranch(position, size) ==
    LET onward(family, branches) ==
            IF family.parent >= size THEN <<>> ELSE <<family>> \o branches[family.parent]
        up[p \in Nat] == onward(Family(p), up)
    IN  IF position >= size THEN <<>> ELSE up[position]

GetSubtreeFirstPosition(position) == position + 1 - (2^(CalculateHeight(position) + 1) - 1)

GetFirstLeafIndex(position) == CalculateLeafIndex(GetSubtreeFirstPosition(position))

\* Leaf indices below a node, clipped to the leaves of a range of a size.
SubtreeLeaves(position, size) ==
    {i \in {GetFirstLeafIndex(position) + k : k \in 0..(2^CalculateHeight(position) - 1)} :
        i < CountLeaves(size)}

-----------------------------------------------------------------------------
(* Segment identifiers: a height and an index.                             *)

GetLeafOffset(height, index) == index * 2^height

AtMost(number, most) == IF number <= 0 THEN 0 ELSE IF number < most THEN number ELSE most

GetSegmentUnprunedSize(height, index, mmrSize) ==
    AtMost(CountLeaves(mmrSize) - GetLeafOffset(height, index), 2^height)

IsFull(height, index, mmrSize) == GetSegmentUnprunedSize(height, index, mmrSize) = 2^height

\* First and last position of a segment that has leaves.
GetPositionRange(height, index, mmrSize) ==
    [first |-> LeafAt(GetLeafOffset(height, index)),
     last  |-> IF IsFull(height, index, mmrSize)
               THEN LeafAt(GetLeafOffset(height, index) + 2^height - 1) + height
               ELSE mmrSize - 1]

CountSegmentsRequired(mmrSize, height) == (CountLeaves(mmrSize) + 2^height - 1) \div 2^height

GetPMMRSize(numSegments, height) ==
    IF numSegments = 0 THEN 0 ELSE LeafAt(numSegments * 2^height)

\* Where the receiver goes on: the segment that holds the next position.
NextRequiredSegmentIndex(localSize, height) ==
    LET partial(count) == count > 0 /\ localSize < GetPMMRSize(count, height)
    IN  IF localSize \in {0, 1} THEN 0
        ELSE CountSegmentsRequired(localSize, height)
             - (IF partial(CountSegmentsRequired(localSize, height)) THEN 1 ELSE 0)

AppliedMMRSizeAfterSegment(height, index, targetSize) ==
    AtMost(GetPMMRSize(index + 1, height), targetSize)
=============================================================================
