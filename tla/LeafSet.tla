------------------------------- MODULE LeafSet -------------------------------
(***************************************************************************)
(* The leafset, byte by byte: the file, the LeafSetCache of the long-lived *)
(* coins view over it, and that of the temporary view.  A cache keeps the  *)
(* bytes in which it changed a bit, neighbours of the bit included, and    *)
(* what it flushes are bytes.  Module CoinsView takes the caches to keep   *)
(* the bits that are set and cleared.                                      *)
(***************************************************************************)
EXTENDS Integers, Sequences

CONSTANTS
    MaxLeaves,      \* bound: leaves
    ByteBits        \* bits of a byte (8 in the code)

ASSUME LeafSetAssumption == MaxLeaves \in Nat \ {0} /\ ByteBits \in Nat \ {0}

VARIABLES
    file,       \* the bytes of the file, those behind its end being 0, and
                \* the index of the next leaf, which the file has in front
    cache,      \* the bytes modified in the cache, and its next leaf
    temp        \* the same of the temporary cache

vars == <<file, cache, temp>>

\* A byte is the set of its bits that are 1.
Offset == 0 .. (MaxLeaves - 1) \div ByteBits
None == [i \in {} |-> {}]
-----------------------------------------------------------------------------
\* GetByte of a cache k over a base with these bytes.
Bytes(k, base) == [i \in Offset |-> IF i \in DOMAIN k.modified THEN k.modified[i]
                                                               ELSE base[i]]

\* SetByte of some bytes, over those that were modified before.
SetBytes(values, modified) ==
    [i \in DOMAIN values \cup DOMAIN modified |->
        IF i \in DOMAIN values THEN values[i] ELSE modified[i]]

\* The bits of some leaves in byte i.
BitsIn(i, leaves) == {l % ByteBits : l \in {m \in leaves : m \div ByteBits = i}}

Touched(leaves) == {l \div ByteBits : l \in leaves}

\* Mutant: the new byte has the new bit alone.
AddAlone(k, base, leaves) ==
    [modified |-> SetBytes([i \in Touched(leaves) |-> BitsIn(i, leaves)], k.modified),
     next     |-> CHOOSE n \in {k.next} \cup {l + 1 : l \in leaves} :
                      \A l \in leaves : n > l /\ n >= k.next]

\* Add of one leaf after another.
Add(k, base, leaves) ==
    [modified |-> SetBytes([i \in Touched(leaves) |->
                               Bytes(k, base)[i] \cup BitsIn(i, leaves)], k.modified),
     next     |-> CHOOSE n \in {k.next} \cup {l + 1 : l \in leaves} :
                      \A l \in leaves : n > l /\ n >= k.next]

Remove(k, base, leaves) ==
    [k EXCEPT !.modified =
        SetBytes([i \in Touched(leaves) |-> Bytes(k, base)[i] \ BitsIn(i, leaves)], @)]

\* Mutant: the leaves behind the new end are not removed.
RewindKeepsBits(k, base, n, leaves) == [Add(k, base, leaves) EXCEPT !.next = n]

Rewind(k, base, n, leaves) ==
    LET added == Add(k, base, leaves)
    IN  [Remove(added, base, n .. added.next - 1) EXCEPT !.next = n]

\* LeafSetCache::ApplyUpdates of what w, a cache over k, has modified.
ApplyToCache(k, w) == [modified |-> SetBytes(w.modified, k.modified), next |-> w.next]

\* LeafSet::ApplyUpdates, which also clears the bits behind the new end.
ApplyToFile(w) ==
    LET level == [modified |-> w.modified, next |-> file.next]
    IN  [bytes |-> Bytes(Remove(level, file.bytes, w.next .. file.next - 1), file.bytes),
         next  |-> w.next]

NewCache(next) == [modified |-> None, next |-> next]

CacheBytes == Bytes(cache, file.bytes)
TempBytes == Bytes(temp, CacheBytes)
-----------------------------------------------------------------------------
Init ==
    /\ file = [bytes |-> [i \in Offset |-> {}], next |-> 0]
    /\ cache = NewCache(0)
    /\ temp = NewCache(0)

Contains(bytes, l) == l % ByteBits \in bytes[l \div ByteBits]

\* A block adds an output, and spends one.
AddToTemp ==
    /\ temp.next < MaxLeaves
    /\ temp' = Add(temp, CacheBytes, {temp.next})
    /\ UNCHANGED <<file, cache>>

RemoveFromTemp ==
    \E l \in 0 .. temp.next - 1 :
        /\ Contains(TempBytes, l)
        /\ temp' = Remove(temp, CacheBytes, {l})
        /\ UNCHANGED <<file, cache>>

\* A block is undone: the coins it had spent are older than those it added.
RewindTemp ==
    \E n \in 0 .. temp.next : \E leaves \in SUBSET (0 .. n - 1) :
        /\ temp' = Rewind(temp, CacheBytes, n, leaves)
        /\ UNCHANGED <<file, cache>>

FlushTemp ==
    /\ cache' = ApplyToCache(cache, temp)
    /\ temp' = NewCache(temp.next)
    /\ UNCHANGED file

\* The block was refused.
DropTemp ==
    /\ temp' = NewCache(cache.next)
    /\ UNCHANGED <<file, cache>>

FlushCache ==
    /\ temp = NewCache(cache.next)
    /\ file' = ApplyToFile(cache)
    /\ cache' = NewCache(cache.next)
    /\ UNCHANGED temp

Next ==
    \/ AddToTemp \/ RemoveFromTemp \/ RewindTemp
    \/ FlushTemp \/ DropTemp \/ FlushCache

Spec == Init /\ [][Next]_vars
-----------------------------------------------------------------------------
(* Properties.                                                             *)

\* The unspent leaves of a level.
Level(bytes, next) ==
    [bits |-> {l \in 0 .. next - 1 : Contains(bytes, l)}, next |-> next]

\* The bytes that Root hashes.
RootBytes(bytes, next) ==
    [i \in 0 .. (next + ByteBits - 1) \div ByteBits - 1 |-> bytes[i]]

\* The root is over whole bytes, and yet two leafsets of one length have the
\* same root only if they have the same leaves, and the other way round: no
\* bit behind the end, left from leaves that were rewound, gets into it.
RootsAgree ==
    LET levels == {<<file.bytes, file.next>>, <<CacheBytes, cache.next>>,
                   <<TempBytes, temp.next>>}
    IN  \A v, w \in levels :
            v[2] = w[2] =>
                (RootBytes(v[1], v[2]) = RootBytes(w[1], w[2])
                    <=> Level(v[1], v[2]) = Level(w[1], w[2]))

\* The caches are transparent: the levels are three plain sets of leaves.
Bits == INSTANCE LeafBits WITH
            top    <- Level(TempBytes, temp.next),
            middle <- Level(CacheBytes, cache.next),
            saved  <- Level(file.bytes, file.next)

ImplementsBits == Bits!Spec
=============================================================================
