------------------------------ MODULE PrunedMMR ------------------------------
(***************************************************************************)
(* The output MMR of a node that was given a state instead of the blocks:  *)
(* the leaves that are unspent, and the hashes of the largest trees of     *)
(* spent leaves.  MMRFactory rebuilds from these the hashes it needs, the  *)
(* PruneList says which there are, and the FileBackend goes on from there, *)
(* block after block.  The state is taken as ApplyState hands it to        *)
(* MMRFactory.                                                             *)
(***************************************************************************)
EXTENDS MMRNodes, TLC

CONSTANT MaxMined    \* bound: outputs of the chain, one fewer in a state

ASSUME PrunedAssumption == MaxMined \in Nat

VARIABLES
    leafset,    \* for every output of the chain, whether it is unspent
    synced      \* the output MMR of the node that was given a state: the
                \* hashes in its file, the positions that are compacted, and
                \* the leafset and its size at that time; or NotSynced

mmr == <<leafset, synced>>

NotSynced == [size |-> 0]

\* The outputs are told apart by their leaf.
Output(n) == [i \in 1 .. n |-> i - 1]
-----------------------------------------------------------------------------
(* BitSet.                                                                 *)

Test(bits, i) == i < Len(bits) /\ bits[i + 1]

\* The set bits below the index.
Rank(set, i) == Cardinality({j \in set : j < i})

Unspent(bits) == {l \in 0 .. Len(bits) - 1 : Test(bits, l)}
-----------------------------------------------------------------------------
(* MMRUtil.                                                                *)

SpentLeaves(bits, n) == {LeafAt(l) : l \in {m \in 0 .. n - 1 : m < Len(bits) /\ ~bits[m + 1]}}

Children(idx) == {GetLeftChild(idx).pos, GetRightChild(idx).pos}

\* From height h up, every node whose children are both in set takes their
\* place.
RECURSIVE RaiseTo(_, _, _)
RaiseTo(set, h, last) ==
    IF 2^(h + 1) - 2 > last THEN set
    ELSE LET full == {idx \in Siblings(h, last) : Children(idx) \subseteq set}
         IN  RaiseTo((set \ UNION {Children(idx) : idx \in full})
                        \cup {idx.pos : idx \in full}, h + 1, last)

CalcPrunedParents(bits) ==
    RaiseTo(SpentLeaves(bits, Len(bits)), 1, LeafAt(Len(bits)))

\* From height h up, a node whose children are both prunable is so itself, and
\* the children can be compacted.
RECURSIVE Compact(_, _, _, _)
Compact(prunable, compact, h, last) ==
    IF 2^(h + 1) - 2 > last + 1 THEN compact
    ELSE LET full == {idx \in Siblings(h, last) : Children(idx) \subseteq prunable}
         IN  Compact(prunable \cup {idx.pos : idx \in full},
                     compact \cup UNION {Children(idx) : idx \in full}, h + 1, last)

\* Mutant: the node that takes the children's place is compacted too.
CompactWithParents(n, bits) ==
    Compact(SpentLeaves(bits, n), SpentLeaves(bits, n), 1, LeafAt(n) - 1)

BuildCompactBitSet(n, bits) == Compact(SpentLeaves(bits, n), {}, 1, LeafAt(n) - 1)
-----------------------------------------------------------------------------
(* MMRFactory.                                                             *)

\* A hash read behind the end of the vector.
Undefined == <<>>

\* CalcHashes from position pos on, with the hashes so far and the positions
\* they are of: of the unspent leaves, of the parents given, and of what
\* follows from these.
RECURSIVE CalcFrom(_, _, _, _, _)
CalcFrom(pos, hashes, have, state, pruned) ==
    LET idx        == At(pos)
        leaf       == CalculateLeafIndex(pos)
        unspent    == IsLeaf(idx) /\ Test(state.bits, leaf)
        complete   == ~IsLeaf(idx) /\ Children(idx) \subseteq have
        With(hash) == CalcFrom(pos + 1, Append(hashes, hash), have \cup {pos}, state, pruned)
        Hash(p)    == hashes[Rank(have, p) + 1]
    IN  CASE pos >= 2 * Len(state.bits) -> hashes
          [] pos < 2 * Len(state.bits) /\ unspent ->
                With(LeafHash(leaf, state.utxos[Rank(Unspent(state.bits), leaf) + 1]))
          [] pos < 2 * Len(state.bits) /\ ~unspent /\ pos \in pruned ->
                With(IF Rank(pruned, pos) < Len(state.parents)
                     THEN state.parents[Rank(pruned, pos) + 1] ELSE Undefined)
          [] pos < 2 * Len(state.bits) /\ pos \notin pruned /\ complete ->
                With(ParentHash(pos, Hash(GetLeftChild(idx).pos), Hash(GetRightChild(idx).pos)))
          [] OTHER -> CalcFrom(pos + 1, hashes, have, state, pruned)

CalcHashes(state) == CalcFrom(0, <<>>, {}, state, CalcPrunedParents(state.bits))

\* MMRFactory::Build, with the list that is built for the header's outputs.
Build(state, n) ==
    [hashes |-> CalcHashes(state), compact |-> BuildCompactBitSet(n, state.bits)]
-----------------------------------------------------------------------------
(* Snapshot.                                                               *)

InOrder(set) == [i \in 1 .. Cardinality(set) |->
                    CHOOSE x \in set : Cardinality({y \in set : y < x}) = i - 1]

\* Mutant: every hash is read one position further on.
ParentHashesAfter(hashes, bits) ==
    LET at == InOrder(CalcPrunedParents(bits))
    IN  [i \in DOMAIN at |-> hashes[((at[i] + 1) % Len(hashes)) + 1]]

ParentHashes(hashes, bits) ==
    LET at == InOrder(CalcPrunedParents(bits)) IN [i \in DOMAIN at |-> hashes[at[i] + 1]]
-----------------------------------------------------------------------------
Unmined == leafset = <<>> /\ synced = NotSynced

\* A block brings an output.
Mine ==
    /\ Len(leafset) < MaxMined
    /\ leafset' = Append(leafset, TRUE)
    /\ synced' = IF synced = NotSynced THEN synced
                 ELSE [synced EXCEPT !.hashes = AddLeaf(@, synced.compact, Len(leafset),
                                                        Len(leafset))]

Spend(l) ==
    /\ Test(leafset, l)
    /\ leafset' = [leafset EXCEPT ![l + 1] = FALSE]
    /\ UNCHANGED synced

\* FileBackend::Rewind to n leaves.
Cut(m, n) ==
    [m EXCEPT !.hashes = SubSeq(@, 1, LeafAt(n) - Shift(m.compact, LeafAt(n)))]

\* The outputs behind n are undone; what is spent by then may be unspent.  A
\* node that was given a state has no undo data for what was before.
Undo(n, unspent) ==
    /\ n \in synced.size .. Len(leafset) - 1
    /\ \A l \in unspent : l < n /\ ~leafset[l + 1]
          /\ (l < synced.size => synced.leafset[l + 1])
    /\ leafset' = [i \in 1 .. n |-> leafset[i] \/ i - 1 \in unspent]
    /\ synced' = IF synced = NotSynced THEN synced ELSE Cut(synced, n)

\* Another node is given the state at the tip.
Sync ==
    LET n     == Len(leafset)
        state == [bits    |-> leafset,
                  utxos   |-> InOrder(Unspent(leafset)),
                  parents |-> ParentHashes(TreeHashes(Output(n)), leafset)]
    IN  /\ synced = NotSynced /\ n \in 1 .. MaxMined - 1
        /\ synced' = [size |-> n, leafset |-> leafset] @@ Build(state, n)
        /\ UNCHANGED leafset

Step ==
    \/ Mine
    \/ \E l \in 0 .. MaxMined - 1 : Spend(l)
    \/ \E n \in 0 .. MaxMined : \E unspent \in SUBSET (0 .. MaxMined - 1) : Undo(n, unspent)
    \/ Sync

PrunedSpec == Unmined /\ [][Step]_mmr
-----------------------------------------------------------------------------
(* Properties.                                                             *)

\* The node that was given the state has the MMR of the node that saw all
\* blocks, now and after any blocks and undos: the same number of leaves, the
\* same root, and the same hash at every position that is not compacted.
SyncedMMR ==
    synced # NotSynced =>
        LET n      == Len(leafset)
            hashes == TreeHashes(Output(n))
            size   == Len(synced.hashes) + Cardinality(synced.compact)
        IN  /\ size = LeafAt(n) /\ CalculateLeafIndex(size) = n
            /\ Root(synced.hashes, synced.compact, size) = RootOf(Output(n))
            /\ \A p \in (0 .. size - 1) \ synced.compact :
                  GetHash(synced.hashes, synced.compact, p) = hashes[p + 1]

\* The nodes all of whose leaves are spent.
AllSpent(bits) ==
    {t \in TreeNodes(Len(bits)) : \A l \in t[1] + 1 - 2^t[2] .. t[1] : ~bits[l + 1]}

\* Compacted are the nodes under which, and under whose sibling, every leaf is
\* spent, and no other: no hash that a later leaf or a read needs is dropped.
\* And the hashes a state carries are those of the largest trees of spent leaves.
PrunesExactly ==
    LET spent == AllSpent(leafset)
    IN  /\ BuildCompactBitSet(Len(leafset), leafset)
              = {PositionOf(t) : t \in {u \in spent : ParentOf(u) \in spent}}
        /\ CalcPrunedParents(leafset)
              = {PositionOf(t) : t \in {u \in spent : ParentOf(u) \notin spent}}
=============================================================================
