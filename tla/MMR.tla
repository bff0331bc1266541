--------------------------------- MODULE MMR ---------------------------------
(***************************************************************************)
(* An MMR under two caches: the hash file and the table of leaves, the     *)
(* MMRCache of the long-lived coins view, and that of the temporary view   *)
(* in which a block is connected or disconnected.  Module CoinsView takes  *)
(* an MMR to be the list of its leaves and its root to be that list; here  *)
(* every node has its hash, at the position where the code keeps it.       *)
(***************************************************************************)
EXTENDS MMRNodes

CONSTANTS
    Data,           \* what a leaf may hold
    MaxLeaves,      \* bound: leaves of the MMR
    ReorgFlush      \* leaves that the file holds may be replaced

ASSUME MMRAssumption ==
    MaxLeaves \in Nat /\ ReorgFlush \in BOOLEAN

VARIABLES
    file,       \* the hashes in the file, and the leaves in the table
    cache,      \* the cache over the file: its first leaf, the data of its
                \* leaves and the hashes of their nodes
    temp        \* the cache over that cache

vars == <<file, cache, temp>>
-----------------------------------------------------------------------------
(* What a level answers: the hashes of all its nodes, by position, and the *)
(* data of all its leaves.                                                 *)

FileLeaves == file.leaves

Hashes(k, base) == SubSeq(base, 1, LeafAt(k.first)) \o k.nodes

Leaves(k, base) == SubSeq(base, 1, k.first) \o k.leaves

CacheHashes == Hashes(cache, file.hashes)
CacheLeaves == Leaves(cache, FileLeaves)
TempHashes == Hashes(temp, CacheHashes)
TempLeaves == Leaves(temp, CacheLeaves)
-----------------------------------------------------------------------------
(* MMRCache.                                                               *)

NextLeaf(k) == k.first + Len(k.leaves)

NewCache(first) == [first |-> first, leaves |-> <<>>, nodes |-> <<>>]

\* AddLeaf to cache k over a base with these hashes.
Add(k, base, data) ==
    LET hashes == AddLeaf(Hashes(k, base), {}, NextLeaf(k), data)
    IN  [k EXCEPT !.leaves = Append(@, data),
                  !.nodes  = SubSeq(hashes, LeafAt(k.first) + 1, Len(hashes))]

\* Mutant: the nodes of leaves that are gone stay.
RewindKeepsNodes(k, n) ==
    IF n <= k.first THEN NewCache(n)
    ELSE [k EXCEPT !.leaves = SubSeq(@, 1, n - k.first)]

Rewind(k, n) ==
    IF n <= k.first THEN NewCache(n)
    ELSE LET leaves == SubSeq(k.leaves, 1, n - k.first)
         IN  [k EXCEPT !.leaves = leaves,
                       !.nodes  = SubSeq(@, 1, LeafAt(k.first + Len(leaves))
                                                  - LeafAt(k.first))]

RECURSIVE AddAll(_, _, _)
AddAll(k, base, data) ==
    IF data = <<>> THEN k
    ELSE AddAll(Add(k, base, Head(data)), base, Tail(data))

\* Mutant: the leaves are added without the rewind.
BatchAppend(k, base, w) == AddAll(k, base, w.leaves)

\* BatchWrite of what a cache over k holds.
BatchWrite(k, base, w) == AddAll(Rewind(k, w.first), base, w.leaves)
-----------------------------------------------------------------------------
(* MMR and FileBackend.                                                    *)

\* The buffer after BatchWrite: the hashes of the leaves given, the rest being
\* read from the file up to the first of them.
RECURSIVE Buffered(_, _, _)
Buffered(hashes, leaf, data) ==
    IF data = <<>> THEN hashes
    ELSE Buffered(AddLeaf(hashes, {}, leaf, Head(data)), leaf + 1, Tail(data))

\* AppendOnlyFile::Commit: the buffer goes behind the old content, whatever
\* position is sought, and the file is cut to the right length.
Committed(content, position, buffer) ==
    IF buffer = <<>> THEN SubSeq(content, 1, position)
    ELSE SubSeq(content \o buffer, 1, position + Len(buffer))

\* BatchWrite and Commit.  Leaves behind the end stay in the table, where
\* nothing reads them: the model drops them.
WriteFile(w) ==
    LET position == LeafAt(w.first)
        hashes   == Buffered(SubSeq(file.hashes, 1, position), w.first, w.leaves)
        buffer   == SubSeq(hashes, position + 1, Len(hashes))
    IN  [hashes |-> Committed(file.hashes, position, buffer),
         leaves |-> SubSeq(file.leaves, 1, w.first) \o w.leaves]
-----------------------------------------------------------------------------
Init ==
    /\ file = [hashes |-> <<>>, leaves |-> <<>>]
    /\ cache = NewCache(0)
    /\ temp = NewCache(0)

\* A block's output or kernel is added.
AddToTemp ==
    \E d \in Data :
        /\ NextLeaf(temp) < MaxLeaves
        /\ temp' = Add(temp, CacheHashes, d)
        /\ UNCHANGED <<file, cache>>

\* A block is undone.
RewindTemp ==
    \E n \in 0 .. NextLeaf(temp) :
        /\ temp' = Rewind(temp, n)
        /\ UNCHANGED <<file, cache>>

\* The temporary cache is flushed, and gone.  The next one is created on what
\* is then below.
FlushTemp ==
    /\ cache' = BatchWrite(cache, file.hashes, temp)
    /\ temp' = NewCache(NextLeaf(cache'))
    /\ UNCHANGED file

\* The block was refused.
DropTemp ==
    /\ temp' = NewCache(NextLeaf(cache))
    /\ UNCHANGED <<file, cache>>

Flushed(k) == NewCache(NextLeaf(k))

\* The cache is flushed into the file.
FlushCache ==
    /\ temp = NewCache(NextLeaf(cache))
    /\ ReorgFlush \/ cache.leaves = <<>>
          \/ cache.first = CalculateLeafIndex(Len(file.hashes))
    /\ file' = WriteFile(cache)
    /\ cache' = Flushed(cache)
    /\ UNCHANGED temp

Next == AddToTemp \/ RewindTemp \/ FlushTemp \/ DropTemp \/ FlushCache

Spec == Init /\ [][Next]_vars
-----------------------------------------------------------------------------
(* Properties.                                                             *)

\* Every level has at every position the hash that the tree over its leaves
\* has there, so that the hashes a cache takes from below and those it keeps
\* itself always fit together.
HashesOfTree ==
    /\ file.hashes = TreeHashes(FileLeaves)
    /\ CacheHashes = TreeHashes(CacheLeaves)
    /\ TempHashes = TreeHashes(TempLeaves)

\* The caches are transparent: the leaves are those of three plain lists.
Lists == INSTANCE LeafLists WITH
            top <- TempLeaves, middle <- CacheLeaves, saved <- FileLeaves

ImplementsLists == Lists!Spec
=============================================================================
