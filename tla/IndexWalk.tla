------------------------------ MODULE IndexWalk ------------------------------
(***************************************************************************)
(* The arithmetic on positions, against the tree it stands for.  The walk  *)
(* goes through the nodes as the loops of the code do, by operator++ of    *)
(* Index, while node names the node of the tree that it should be at.      *)
(***************************************************************************)
EXTENDS MMRNodes

CONSTANTS
    MaxPosition,    \* bound: the last position of the walk
    MaxRoot         \* bound: leaves of which the root is taken

ASSUME PositionAssumption == MaxPosition \in Nat /\ MaxRoot \in Nat

VARIABLES index, node

place == <<index, node>>

AtStart == index = At(0) /\ node = <<0, 0>>

\* operator++.  In the tree, a node whose last leaf ends a larger block is
\* followed by its parent, and every other one by the next leaf.
Increment ==
    /\ index.pos < MaxPosition
    /\ index' = GetNext(index)
    /\ node' = IF (node[1] + 1) % 2^(node[2] + 1) = 0
               THEN <<node[1], node[2] + 1>>
               ELSE <<node[1] + 1, 0>>

Walk == AtStart /\ [][Increment]_place
-----------------------------------------------------------------------------
\* The Index of a node of the tree.
IndexOf(n) == Index(PositionOf(n), n[2])

\* At, GetNext, LeafIndex::At and GetLeafIndex number the nodes and the leaves
\* in the order in which they are added.
WalksInOrder ==
    /\ index = IndexOf(node)
    /\ IsLeaf(index) =>
          LeafAt(node[1]) = index.pos /\ CalculateLeafIndex(index.pos) = node[1]

\* GetParent, GetSibling, GetLeftChild and GetRightChild agree with the tree,
\* the height that they pass on without calculating it included; and SiblingIter
\* visits every node of a height up to the last and no other.
FamilyAgrees ==
    LET parent == ParentOf(node)
        right  == <<parent[1], node[2]>>
        left   == <<parent[1] - 2^node[2], node[2]>>
    IN  /\ GetParent(index) = IndexOf(parent)
        /\ GetLeftChild(GetParent(index)) = IndexOf(left)
        /\ GetRightChild(GetParent(index)) = IndexOf(right)
        /\ GetSibling(index) = IF node = left THEN IndexOf(right) ELSE IndexOf(left)
        /\ \A h \in 0 .. CalculateHeight(index.pos) + 1 :
              Siblings(h, index.pos) =
                  {IndexOf(n) : n \in {m \in TreeNodes(node[1] + 1) :
                                          m[2] = h /\ (m = node \/ Before(m, node))}}

\* Wherever the loops get to, positions, heights, leaf indices and relatives are
\* those of the tree: the caches of the MMR, the pruned MMR and its proofs find
\* every hash by this arithmetic.
IndicesOfTree == WalksInOrder /\ FamilyAgrees

\* The peaks of a size at which a leaf comes next are the nodes without a
\* parent, from the left.
PeaksAreRoots ==
    IsLeaf(index) =>
        LET nodes == TreeNodes(node[1])
            peaks == Peaks(index.pos)
        IN  /\ {peaks[i] : i \in DOMAIN peaks} =
                  {PositionOf(n) : n \in {m \in nodes : ParentOf(m) \notin nodes}}
            /\ \A i, j \in DOMAIN peaks : i < j => peaks[i] < peaks[j]

\* The root, from which header and block are compared with the view, is that
\* of the leaves, bagged from the right, for every pattern of peaks: it can
\* stand for their list.  Behind the last size of which the root is computed,
\* the peaks are compared.
RootOfLeaves ==
    /\ PeaksAreRoots
    /\ IsLeaf(index) /\ node[1] <= MaxRoot =>
          LET data == [i \in 1 .. node[1] |-> i]
          IN  Root(TreeHashes(data), {}, index.pos) = RootOf(data)
=============================================================================
