------------------------------ MODULE MMRNodes ------------------------------
(***************************************************************************)
(* The nodes of a Merkle mountain range: the arithmetic on their positions *)
(* (Index, LeafIndex, SiblingIter), the hashes a new leaf adds, and the    *)
(* root.  An Index is a position with its height; positions number the     *)
(* nodes in the order they are added, a parent right after its right       *)
(* child.                                                                  *)
(***************************************************************************)
EXTENDS Integers, Sequences, FiniteSets

-----------------------------------------------------------------------------
(* BitUtil.                                                                *)

RECURSIVE FillOnesToRight(_)
FillOnesToRight(x) == IF x = 0 THEN 0 ELSE 2 * FillOnesToRight(x \div 2) + 1

RECURSIVE CountBitsSet(_)
CountBitsSet(x) == IF x = 0 THEN 0 ELSE (x % 2) + CountBitsSet(x \div 2)

RECURSIVE CountRightmostZeros(_)
CountRightmostZeros(x) == IF x % 2 = 1 THEN 0 ELSE 1 + CountRightmostZeros(x \div 2)
-----------------------------------------------------------------------------
(* Index and LeafIndex.                                                    *)

Index(position, height) == [pos |-> position, height |-> height]

\* The loop that jumps over the mountains to the left of a position; peakSize
\* is one less than a power of two, and halved in every round.
RECURSIVE Jump(_, _)
Jump(height, peakSize) ==
    IF peakSize = 0 THEN height
    ELSE Jump(IF height >= peakSize THEN height - peakSize ELSE height, peakSize \div 2)

CalculateHeight(position) == Jump(position, FillOnesToRight(position + 1))

At(position) == Index(position, CalculateHeight(position))

IsLeaf(idx) == idx.height = 0

GetNext(idx) == At(idx.pos + 1)

\* The position of a leaf.
LeafAt(leaf) == 2 * leaf - CountBitsSet(leaf)

\* The leaves under the mountains of numLeft nodes.
RECURSIVE LeavesUnder(_, _)
LeavesUnder(numLeft, peakSize) ==
    IF peakSize = 0 THEN 0
    ELSE IF numLeft >= peakSize
         THEN (peakSize + 1) \div 2 + LeavesUnder(numLeft - peakSize, peakSize \div 2)
         ELSE LeavesUnder(numLeft, peakSize \div 2)

CalculateLeafIndex(position) == LeavesUnder(position, FillOnesToRight(position))

IsRightSibling(idx) == CalculateHeight(idx.pos + 1) = idx.height + 1

GetParent(idx) ==
    Index(idx.pos + IF IsRightSibling(idx) THEN 1 ELSE 2^(idx.height + 1),
          idx.height + 1)

\* Mutant: one too far for a left sibling.
GetSiblingAfter(idx) ==
    Index(IF IsRightSibling(idx) THEN idx.pos + 1 - 2^(idx.height + 1)
                                 ELSE idx.pos + 2^(idx.height + 1),
          idx.height)

GetSibling(idx) ==
    Index(IF IsRightSibling(idx) THEN idx.pos + 1 - 2^(idx.height + 1)
                                 ELSE idx.pos + 2^(idx.height + 1) - 1,
          idx.height)

GetLeftChild(idx) == Index(idx.pos - 2^idx.height, idx.height - 1)

GetRightChild(idx) == Index(idx.pos - 1, idx.height - 1)

\* The positions that SiblingIter takes at a height.
SiblingPos(height) ==
    LET pos[k \in Nat] ==
            IF k = 0 THEN 2^(height + 1) - 2
            ELSE pos[k - 1] + 2^(height + 1) - 1 + CountRightmostZeros(k)
    IN  pos

\* The nodes of a height that SiblingIter visits up to the last node.
Siblings(height, last) ==
    LET pos == SiblingPos(height)
    IN  {Index(pos[k], height) : k \in {j \in 0 .. last : pos[j] <= last}}
-----------------------------------------------------------------------------
(* Hashes.  A hash is the tuple that was hashed: equal hashes, equal trees. *)

ZeroHash == <<>>

LeafHash(leaf, data) == <<LeafAt(leaf), data>>

ParentHash(position, left, right) == <<position, left, right>>

\* The hash file has no hash for the positions that are compacted: those
\* behind them are shifted (PruneList::GetShift).
Shift(compact, position) == Cardinality({p \in compact : p < position})

GetHash(hashes, compact, position) ==
    hashes[position - Shift(compact, position) + 1]

\* The hashes in the file, in order of position, after the leaf is added: its
\* own hash, and those of the parents it completes.
RECURSIVE AddParents(_, _)
AddParents(hashes, compact) ==
    LET next == At(Len(hashes) + Cardinality(compact))
    IN  IF IsLeaf(next) THEN hashes
        ELSE AddParents(
                Append(hashes,
                    ParentHash(next.pos,
                        GetHash(hashes, compact, GetLeftChild(next).pos),
                        hashes[Len(hashes)])),
                compact)

AddLeaf(hashes, compact, leaf, data) ==
    AddParents(Append(hashes, LeafHash(leaf, data)), compact)

\* The peaks of the mountains of numLeft nodes behind the first sum nodes.
RECURSIVE PeaksOf(_, _, _)
PeaksOf(numLeft, peakSize, sum) ==
    IF peakSize = 0 THEN <<>>
    ELSE IF numLeft >= peakSize
         THEN <<sum + peakSize - 1>>
                \o PeaksOf(numLeft - peakSize, peakSize \div 2, sum + peakSize)
         ELSE PeaksOf(numLeft, peakSize \div 2, sum)

Peaks(size) == PeaksOf(size, FillOnesToRight(size), 0)

\* The hashes of the peaks, bagged from the right.
RECURSIVE Bag(_, _)
Bag(hashes, size) ==
    CASE hashes = <<>>   -> ZeroHash
      [] Len(hashes) = 1 -> hashes[1]
      [] OTHER           -> ParentHash(size, hashes[1], Bag(Tail(hashes), size))

\* Mutant: the peaks are bagged from the left.
RootFromLeft(hashes, compact, size) ==
    LET peaks == Peaks(size)
        bag[i \in 0 .. Len(peaks)] ==
            CASE i = 0 -> ZeroHash
              [] i = 1 -> GetHash(hashes, compact, peaks[i])
              [] OTHER -> ParentHash(size, bag[i - 1], GetHash(hashes, compact, peaks[i]))
    IN  bag[Len(peaks)]

\* The root of the first size nodes.
Root(hashes, compact, size) ==
    LET peaks == Peaks(size)
    IN  Bag([i \in DOMAIN peaks |-> GetHash(hashes, compact, peaks[i])], size)
-----------------------------------------------------------------------------
(* Reference definitions.                                                  *)

MaxHeight == 10     \* bound: the height of the tree

\* The tree over the leaves: a node is known by its last leaf and its height,
\* which is such that the leaves divide into blocks of that size.
TreeNodes(leaves) ==
    {<<l, h>> \in (0 .. leaves - 1) \X {k \in 0 .. MaxHeight : 2^k <= leaves} :
        (l + 1) % 2^h = 0}

\* The nodes are added with their last leaf, the lower first.
Before(m, n) == m[1] < n[1] \/ (m[1] = n[1] /\ m[2] < n[2])

PositionOf(n) == Cardinality({m \in TreeNodes(n[1] + 1) : Before(m, n)})

\* The parent's last leaf is that of the block of twice the size.
ParentOf(n) == <<((n[1] \div 2^(n[2] + 1)) + 1) * 2^(n[2] + 1) - 1, n[2] + 1>>

\* The hash of node n over the leaves' data.
RECURSIVE TreeHash(_, _)
TreeHash(data, n) ==
    IF n[2] = 0 THEN <<PositionOf(n), data[n[1] + 1]>>
    ELSE <<PositionOf(n), TreeHash(data, <<n[1] - 2^(n[2] - 1), n[2] - 1>>),
                          TreeHash(data, <<n[1], n[2] - 1>>)>>

\* The hashes of all nodes over the data, by position.
TreeHashes(data) ==
    LET nodes == TreeNodes(Len(data))
    IN  [p \in 1 .. Cardinality(nodes) |->
            TreeHash(data, CHOOSE n \in nodes : PositionOf(n) = p - 1)]

\* The root over the data: the hash of a perfect tree, or else the largest
\* perfect tree on the left under a node at the end with the root of the rest.
RECURSIVE BagOf(_, _, _)
BagOf(data, from, size) ==
    LET peak == CHOOSE n \in TreeNodes(Len(data)) :
                    /\ n[1] + 1 - 2^n[2] = from
                    /\ \A m \in TreeNodes(Len(data)) :
                          m[1] + 1 - 2^m[2] = from => m[2] <= n[2]
    IN  IF peak[1] + 1 = Len(data) THEN TreeHash(data, peak)
        ELSE <<size, TreeHash(data, peak), BagOf(data, peak[1] + 1, size)>>

RootOf(data) ==
    IF data = <<>> THEN ZeroHash
    ELSE BagOf(data, 0, Cardinality(TreeNodes(Len(data))))
=============================================================================
