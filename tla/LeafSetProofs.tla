---------------------------- MODULE LeafSetProofs ----------------------------
(***************************************************************************)
(* The leafset's bytes and caches are three sets of leaves, and its roots  *)
(* tell them apart.  And what a state that comes with a leafset brings:    *)
(* its kernels are accepted where they are the chain's.                    *)
(***************************************************************************)
EXTENDS LeafSet, StateKernels, WellFoundedInduction, TLAPS

Byte == SUBSET (0 .. ByteBits - 1)

\* The leaves there are bytes for.
Places == {l \in Nat : l \div ByteBits \in Offset}

\* A cache has modified some bytes.
CacheType(k) ==
    /\ k = [modified |-> k.modified, next |-> k.next]
    /\ DOMAIN k.modified \subseteq Offset
    /\ k.modified \in [DOMAIN k.modified -> Byte]
    /\ k.next \in 0 .. MaxLeaves

\* No bit is set from the next leaf on.
Clear(bytes, next) == \A l \in Places : Contains(bytes, l) => l < next
-----------------------------------------------------------------------------
(* Leaves and bytes.                                                       *)

\* A leaf is in a byte, at a bit.
LEMMA DivMod ==
    ASSUME NEW l \in Nat
    PROVE  /\ l \div ByteBits \in Nat
           /\ l % ByteBits \in 0 .. ByteBits - 1
           /\ l = ByteBits * (l \div ByteBits) + (l % ByteBits)
BY LeafSetAssumption

\* The bit b of byte i is a leaf whose byte is i and whose bit is b.
LEMMA BitOfByte ==
    ASSUME NEW i \in Nat, NEW b \in 0 .. ByteBits - 1
    PROVE  /\ ByteBits * i + b \in Nat
           /\ (ByteBits * i + b) \div ByteBits = i
           /\ (ByteBits * i + b) % ByteBits = b
BY LeafSetAssumption

\* Leaves in order are in bytes in order.
LEMMA DivOrder ==
    ASSUME NEW l \in Nat, NEW m \in Nat, l <= m
    PROVE  l \div ByteBits <= m \div ByteBits
BY LeafSetAssumption

\* Each leaf has a place in the bytes.
LEMMA LeafHasPlace ==
    ASSUME NEW l \in 0 .. MaxLeaves - 1
    PROVE  l \in Places /\ l \div ByteBits \in Offset
BY LeafSetAssumption, DivOrder, DivMod DEF Offset, Places

\* Leaves with the same byte and the same bit are the same.
LEMMA SameLeaf ==
    ASSUME NEW l \in Nat, NEW m \in Nat,
           l \div ByteBits = m \div ByteBits, l % ByteBits = m % ByteBits
    PROVE  l = m
BY DivMod

\* Bytes are the same if they have the same bits.
LEMMA SameBytes ==
    ASSUME NEW v \in [Offset -> Byte], NEW w \in [Offset -> Byte], NEW i \in Offset,
           \A l \in Places : l \div ByteBits = i => (Contains(v, l) <=> Contains(w, l))
    PROVE  v[i] = w[i]
<1>1. v[i] \in Byte /\ w[i] \in Byte /\ i \in Nat
  BY DEF Offset
<1>2. ASSUME NEW b \in 0 .. ByteBits - 1
      PROVE  b \in v[i] <=> b \in w[i]
  <2> DEFINE l == ByteBits * i + b
  <2>1. l \in Nat /\ l \div ByteBits = i /\ l % ByteBits = b
    BY <1>1, BitOfByte
  <2> HIDE DEF l
  <2>2. l \in Places
    BY <2>1 DEF Places
  <2>3. QED  BY <2>1, <2>2 DEF Contains
<1>3. QED  BY <1>1, <1>2 DEF Byte

\* The bits of some leaves.
LEMMA BitsOfLeaves ==
    ASSUME NEW leaves \in SUBSET Places, NEW l \in Places
    PROVE  /\ l % ByteBits \in BitsIn(l \div ByteBits, leaves) <=> l \in leaves
           /\ l \in leaves => l \div ByteBits \in Touched(leaves)
<1>1. l \in Nat /\ \A m \in leaves : m \in Nat
  BY DEF Places
<1>2. ASSUME l % ByteBits \in BitsIn(l \div ByteBits, leaves)
      PROVE  l \in leaves
  <2>1. PICK m \in leaves : m \div ByteBits = l \div ByteBits /\ m % ByteBits = l % ByteBits
    BY <1>2 DEF BitsIn
  <2>2. m = l
    BY <1>1, <2>1, SameLeaf
  <2>3. QED  BY <2>2
<1>3. l \in leaves => l % ByteBits \in BitsIn(l \div ByteBits, leaves)
  BY DEF BitsIn
<1>4. l \in leaves => l \div ByteBits \in Touched(leaves)
  BY DEF Touched
<1>5. QED  BY <1>2, <1>3, <1>4

\* The bytes that leaves touch are bytes of the file.
LEMMA BitsType ==
    ASSUME NEW leaves \in SUBSET Places
    PROVE  /\ Touched(leaves) \subseteq Offset
           /\ \A i : BitsIn(i, leaves) \in Byte
<1>1. \A m \in leaves : m \in Nat /\ m \div ByteBits \in Offset
  BY DEF Places
<1>2. Touched(leaves) \subseteq Offset
  BY <1>1 DEF Touched
<1>3. \A m \in leaves : m % ByteBits \in 0 .. ByteBits - 1
  BY <1>1, DivMod
<1>4. QED  BY <1>2, <1>3 DEF BitsIn, Byte
-----------------------------------------------------------------------------
(* Caches.                                                                 *)

\* What a cache shows over bytes are bytes.
LEMMA BytesType ==
    ASSUME NEW k, CacheType(k), NEW base \in [Offset -> Byte]
    PROVE  Bytes(k, base) \in [Offset -> Byte]
BY DEF Bytes, CacheType

\* A write of some bytes over those that were modified before.
LEMMA Written ==
    ASSUME NEW k, CacheType(k), NEW f, NEW T \in SUBSET Offset, f \in [T -> Byte]
    PROVE  /\ DOMAIN (SetBytes(f, k.modified)) \subseteq Offset
           /\ SetBytes(f, k.modified) \in [DOMAIN (SetBytes(f, k.modified)) -> Byte]
           /\ \A next, base : \A i \in Offset :
                Bytes([modified |-> SetBytes(f, k.modified), next |-> next], base)[i]
                  = IF i \in T THEN f[i] ELSE Bytes(k, base)[i]
<1> DEFINE w == SetBytes(f, k.modified)
<1>1. /\ DOMAIN w = T \cup DOMAIN k.modified
      /\ \A i \in DOMAIN w : w[i] = IF i \in T THEN f[i] ELSE k.modified[i]
      /\ w = [i \in DOMAIN w |-> w[i]]
  BY DEF SetBytes
<1>2. DOMAIN k.modified \subseteq Offset /\ \A i \in DOMAIN k.modified : k.modified[i] \in Byte
  BY DEF CacheType
<1> HIDE DEF w
<1>3. DOMAIN w \subseteq Offset
  BY <1>1, <1>2
<1>4. \A i \in DOMAIN w : w[i] \in Byte
  BY <1>1, <1>2
<1>5. w \in [DOMAIN w -> Byte]
  BY <1>1, <1>4
<1>6. ASSUME NEW next, NEW base, NEW i \in Offset
      PROVE  Bytes([modified |-> w, next |-> next], base)[i]
               = IF i \in T THEN f[i] ELSE Bytes(k, base)[i]
  BY <1>1 DEF Bytes
<1>7. QED  BY <1>3, <1>5, <1>6 DEF w

\* The leaf after the last.
LEMMA NextLeaf ==
    ASSUME NEW next \in Nat, NEW leaves, \A l \in leaves : l \in Nat
    PROVE  /\ (\A l \in leaves : l < next) =>
                 (CHOOSE n \in {next} \cup {l + 1 : l \in leaves} :
                      \A l \in leaves : n > l /\ n >= next) = next
           /\ leaves = {next} =>
                 (CHOOSE n \in {next} \cup {l + 1 : l \in leaves} :
                      \A l \in leaves : n > l /\ n >= next) = next + 1
<1> DEFINE S == {next} \cup {l + 1 : l \in leaves}
           Last(n) == \A l \in leaves : n > l /\ n >= next
<1>1. ASSUME \A l \in leaves : l < next
      PROVE  (CHOOSE n \in S : Last(n)) = next
  <2>1. next \in S /\ Last(next)
    BY <1>1
  <2>2. ASSUME NEW n \in S, Last(n)  PROVE n = next
    <3>1. CASE n = next
      BY <3>1
    <3>2. CASE \E l \in leaves : n = l + 1
      BY <1>1, <2>2, <3>2
    <3>3. QED  BY <2>2, <3>1, <3>2
  <2> HIDE DEF S, Last
  <2>3. QED  BY <2>1, <2>2
<1>2. ASSUME leaves = {next}
      PROVE  (CHOOSE n \in S : Last(n)) = next + 1
  <2>1. next + 1 \in S /\ Last(next + 1)
    BY <1>2
  <2>2. ASSUME NEW n \in S, Last(n)  PROVE n = next + 1
    BY <1>2, <2>2
  <2> HIDE DEF S, Last
  <2>3. QED  BY <2>1, <2>2
<1>3. QED  BY <1>1, <1>2

\* Add sets the bits of the leaves and no other.
LEMMA Added ==
    ASSUME NEW k, CacheType(k), NEW base \in [Offset -> Byte],
           NEW leaves \in SUBSET Places, Add(k, base, leaves).next \in 0 .. MaxLeaves
    PROVE  /\ CacheType(Add(k, base, leaves))
           /\ \A l \in Places : Contains(Bytes(Add(k, base, leaves), base), l)
                                  <=> Contains(Bytes(k, base), l) \/ l \in leaves
<1> DEFINE T == Touched(leaves)
           f == [i \in T |-> Bytes(k, base)[i] \cup BitsIn(i, leaves)]
           w == SetBytes(f, k.modified)
           next == Add(k, base, leaves).next
<1>1. Add(k, base, leaves) = [modified |-> w, next |-> next]
  BY DEF Add
<1>2. T \in SUBSET Offset
  BY BitsType
<1>3. f \in [T -> Byte]
  <2>1. \A i \in Offset : Bytes(k, base)[i] \in Byte
    BY BytesType
  <2>2. QED  BY <1>2, <2>1, BitsType DEF Byte
<1> HIDE DEF next
<1>4. /\ DOMAIN w \subseteq Offset /\ w \in [DOMAIN w -> Byte]
      /\ \A i \in Offset : Bytes([modified |-> w, next |-> next], base)[i]
                             = IF i \in T THEN f[i] ELSE Bytes(k, base)[i]
  <2> HIDE DEF T, f
  <2>1. QED  BY <1>2, <1>3, Written
<1>5. CacheType([modified |-> w, next |-> next])
  <2> HIDE DEF w
  <2>1. QED  BY <1>4 DEF CacheType, next
<1>6. ASSUME NEW l \in Places
      PROVE  Contains(Bytes([modified |-> w, next |-> next], base), l)
               <=> Contains(Bytes(k, base), l) \/ l \in leaves
  <2> DEFINE i == l \div ByteBits
             all == Bytes([modified |-> w, next |-> next], base)
  <2>1. i \in Offset
    BY DEF Places
  <2>2. l % ByteBits \in BitsIn(i, leaves) <=> l \in leaves
    BY BitsOfLeaves
  <2>3. l \in leaves => i \in T
    BY BitsOfLeaves
  <2> HIDE DEF w, T, i
  <2>4. CASE i \in T
    <3>1. all[i] = Bytes(k, base)[i] \cup BitsIn(i, leaves)
      BY <1>4, <2>1, <2>4
    <3> HIDE DEF all
    <3>2. QED  BY <2>2, <3>1 DEF Contains, i, all
  <2>5. CASE i \notin T
    <3>1. all[i] = Bytes(k, base)[i]
      BY <1>4, <2>1, <2>5
    <3> HIDE DEF all
    <3>2. QED  BY <2>3, <2>5, <3>1 DEF Contains, i, all
  <2>6. QED  BY <2>4, <2>5
<1> HIDE DEF w
<1>7. QED  BY <1>1, <1>5, <1>6

\* Remove clears them and no other.
LEMMA Removed ==
    ASSUME NEW k, CacheType(k), NEW base \in [Offset -> Byte], NEW leaves \in SUBSET Places
    PROVE  /\ CacheType(Remove(k, base, leaves)) /\ Remove(k, base, leaves).next = k.next
           /\ \A l \in Places : Contains(Bytes(Remove(k, base, leaves), base), l)
                                  <=> Contains(Bytes(k, base), l) /\ l \notin leaves
<1> DEFINE T == Touched(leaves)
           f == [i \in T |-> Bytes(k, base)[i] \ BitsIn(i, leaves)]
           w == SetBytes(f, k.modified)
           next == k.next
<1>1. Remove(k, base, leaves) = [modified |-> w, next |-> next]
  <2> HIDE DEF f
  <2>1. QED  BY DEF Remove, CacheType, f
<1>2. T \in SUBSET Offset
  BY BitsType
<1>3. f \in [T -> Byte]
  <2>1. \A i \in Offset : Bytes(k, base)[i] \in Byte
    BY BytesType
  <2>2. QED  BY <1>2, <2>1, BitsType DEF Byte
<1>4. next \in 0 .. MaxLeaves
  BY DEF CacheType
<1> HIDE DEF next
<1>5. /\ DOMAIN w \subseteq Offset /\ w \in [DOMAIN w -> Byte]
      /\ \A i \in Offset : Bytes([modified |-> w, next |-> next], base)[i]
                             = IF i \in T THEN f[i] ELSE Bytes(k, base)[i]
  <2> HIDE DEF T, f
  <2>1. QED  BY <1>2, <1>3, Written
<1>6. CacheType([modified |-> w, next |-> next])
  <2> HIDE DEF w
  <2>1. QED  BY <1>4, <1>5 DEF CacheType
<1>7. ASSUME NEW l \in Places
      PROVE  Contains(Bytes([modified |-> w, next |-> next], base), l)
               <=> Contains(Bytes(k, base), l) /\ l \notin leaves
  <2> DEFINE i == l \div ByteBits
             all == Bytes([modified |-> w, next |-> next], base)
  <2>1. i \in Offset
    BY DEF Places
  <2>2. l % ByteBits \in BitsIn(i, leaves) <=> l \in leaves
    BY BitsOfLeaves
  <2>3. l \in leaves => i \in T
    BY BitsOfLeaves
  <2> HIDE DEF w, T, i
  <2>4. CASE i \in T
    <3>1. all[i] = Bytes(k, base)[i] \ BitsIn(i, leaves)
      BY <1>5, <2>1, <2>4
    <3> HIDE DEF all
    <3>2. QED  BY <2>2, <3>1 DEF Contains, i, all
  <2>5. CASE i \notin T
    <3>1. all[i] = Bytes(k, base)[i]
      BY <1>5, <2>1, <2>5
    <3> HIDE DEF all
    <3>2. QED  BY <2>3, <2>5, <3>1 DEF Contains, i, all
  <2>6. QED  BY <2>4, <2>5
<1> HIDE DEF w
<1>8. QED  BY <1>1, <1>6, <1>7 DEF next

\* Leaves that there are have a place.
LEMMA LeavesHavePlaces ==
    ASSUME NEW leaves, \A l \in leaves : l \in 0 .. MaxLeaves - 1
    PROVE  leaves \in SUBSET Places
BY LeafHasPlace

\* Rewind leaves the bits below the new end and those it adds.
LEMMA Rewound ==
    ASSUME NEW k, CacheType(k), NEW base \in [Offset -> Byte],
           Clear(Bytes(k, base), k.next),
           NEW n \in 0 .. k.next, NEW leaves \in SUBSET (0 .. n - 1)
    PROVE  /\ CacheType(Rewind(k, base, n, leaves)) /\ Rewind(k, base, n, leaves).next = n
           /\ \A l \in Places : Contains(Bytes(Rewind(k, base, n, leaves), base), l)
                <=> l < n /\ (Contains(Bytes(k, base), l) \/ l \in leaves)
<1> DEFINE more == Add(k, base, leaves)
           behind == n .. more.next - 1
           cut == Remove(more, base, behind)
           w == Rewind(k, base, n, leaves)
<1>1. k.next \in 0 .. MaxLeaves /\ n \in 0 .. MaxLeaves /\ n \in Nat /\ k.next \in Nat
  BY LeafSetAssumption DEF CacheType
<1>2. leaves \in SUBSET Places
  <2>1. \A l \in leaves : l \in 0 .. MaxLeaves - 1
    BY <1>1, LeafSetAssumption
  <2>2. QED  BY <2>1, LeavesHavePlaces
<1>3. /\ \A l \in leaves : l \in Nat
      /\ \A l \in leaves : l < k.next
  BY <1>1
<1>4. more.next = k.next
  BY <1>1, <1>3, NextLeaf DEF Add
<1>5. /\ CacheType(more)
      /\ \A l \in Places : Contains(Bytes(more, base), l)
                             <=> Contains(Bytes(k, base), l) \/ l \in leaves
  BY <1>1, <1>2, <1>4, Added
<1> HIDE DEF more
<1>6. behind \in SUBSET Places /\ \A l \in Nat : l \in behind <=> n <= l /\ l < k.next
  <2>1. \A l \in behind : l \in 0 .. MaxLeaves - 1
    BY <1>1, <1>4, LeafSetAssumption
  <2>2. behind \in SUBSET Places
    <3> HIDE DEF behind
    <3>1. QED  BY <2>1, LeavesHavePlaces
  <2>3. QED  BY <1>1, <1>4, <2>2
<1> HIDE DEF behind
<1>7. /\ CacheType(cut)
      /\ \A l \in Places : Contains(Bytes(cut, base), l)
                             <=> Contains(Bytes(more, base), l) /\ l \notin behind
  BY <1>5, <1>6, Removed
<1> HIDE DEF cut
<1>8. w = [cut EXCEPT !.next = n]
  BY DEF Rewind, cut, more, behind
<1>9. w = [modified |-> cut.modified, next |-> n]
  BY <1>7, <1>8 DEF CacheType
<1> HIDE DEF w
<1>10. CacheType(w) /\ w.next = n
  BY <1>1, <1>7, <1>9 DEF CacheType
<1>11. Bytes(w, base) = Bytes(cut, base)
  BY <1>9 DEF Bytes
<1>12. ASSUME NEW l \in Places
       PROVE  Contains(Bytes(w, base), l)
                <=> l < n /\ (Contains(Bytes(k, base), l) \/ l \in leaves)
  <2>1. l \in Nat
    BY DEF Places
  <2>2. Contains(Bytes(k, base), l) => l < k.next
    BY DEF Clear
  <2>3. l \in leaves => l < n
    BY <1>1
  <2>4. QED  BY <1>1, <1>5, <1>6, <1>7, <1>11, <2>1, <2>2, <2>3
<1>13. QED  BY <1>10, <1>12 DEF w

\* What is modified above goes into the cache below, and nothing is lost.
LEMMA Merged ==
    ASSUME NEW k, CacheType(k), NEW w, CacheType(w), NEW base \in [Offset -> Byte]
    PROVE  /\ CacheType(ApplyToCache(k, w)) /\ ApplyToCache(k, w).next = w.next
           /\ Bytes(ApplyToCache(k, w), base) = Bytes(w, Bytes(k, base))
<1> DEFINE f == w.modified
           T == DOMAIN f
           m == SetBytes(f, k.modified)
           next == w.next
<1>1. T \in SUBSET Offset /\ f \in [T -> Byte] /\ next \in 0 .. MaxLeaves
  BY DEF CacheType
<1>2. ApplyToCache(k, w) = [modified |-> m, next |-> next]
  BY DEF ApplyToCache
<1> HIDE DEF T, f, next
<1>3. /\ DOMAIN m \subseteq Offset /\ m \in [DOMAIN m -> Byte]
      /\ \A i \in Offset : Bytes([modified |-> m, next |-> next], base)[i]
                             = IF i \in T THEN f[i] ELSE Bytes(k, base)[i]
  <2>1. DOMAIN m \subseteq Offset
    BY <1>1, Written, Zenon
  <2>2. m \in [DOMAIN m -> Byte]
    BY <1>1, Written, Zenon
  <2>3. \A i \in Offset : Bytes([modified |-> m, next |-> next], base)[i]
                            = IF i \in T THEN f[i] ELSE Bytes(k, base)[i]
    BY <1>1, Written
  <2>4. QED  BY <2>1, <2>2, <2>3
<1> HIDE DEF m
<1>4. CacheType([modified |-> m, next |-> next])
  BY <1>1, <1>3 DEF CacheType
<1>5. Bytes([modified |-> m, next |-> next], base) = Bytes(w, Bytes(k, base))
  <2> DEFINE v == Bytes([modified |-> m, next |-> next], base)
             u == Bytes(w, Bytes(k, base))
  <2>1. v = [i \in Offset |-> v[i]] /\ u = [i \in Offset |-> u[i]]
    BY DEF Bytes
  <2>2. \A i \in Offset : u[i] = IF i \in T THEN f[i] ELSE Bytes(k, base)[i]
    BY DEF Bytes, T, f
  <2>3. \A i \in Offset : v[i] = u[i]
    BY <1>3, <2>2
  <2> HIDE DEF u, v
  <2>4. u = v
    BY <2>1, <2>3
  <2>5. QED  BY <2>4 DEF u, v
<1>6. QED  BY <1>2, <1>4, <1>5 DEF next

\* An empty cache.
LEMMA NewBytes ==
    ASSUME NEW n \in 0 .. MaxLeaves, NEW base \in [Offset -> Byte]
    PROVE  CacheType(NewCache(n)) /\ NewCache(n).next = n /\ Bytes(NewCache(n), base) = base
BY DEF CacheType, NewCache, None, Bytes

\* A flush makes the bytes of the file those of the cache over it: what is
\* behind the new end is clear already.
LEMMA FileBytes ==
    ASSUME file.bytes \in [Offset -> Byte], file.next \in 0 .. MaxLeaves,
           NEW w, CacheType(w), Clear(Bytes(w, file.bytes), w.next)
    PROVE  ApplyToFile(w).bytes = Bytes(w, file.bytes) /\ ApplyToFile(w).next = w.next
<1> DEFINE base == file.bytes
           level == [modified |-> w.modified, next |-> file.next]
           leaves == w.next .. file.next - 1
           v == Bytes(Remove(level, base, leaves), base)
           u == Bytes(w, base)
<1>1. CacheType(level)
  BY DEF CacheType
<1>2. leaves \in SUBSET Places
  BY LeafHasPlace, LeafSetAssumption DEF CacheType
<1>3. Bytes(level, base) = u
  BY DEF Bytes
<1> HIDE DEF level, leaves
<1>4. /\ CacheType(Remove(level, base, leaves))
      /\ \A l \in Places : Contains(v, l) <=> Contains(u, l) /\ l \notin leaves
  BY <1>1, <1>2, <1>3, Removed
<1>5. v \in [Offset -> Byte] /\ u \in [Offset -> Byte]
  BY <1>4, BytesType
<1>6. \A l \in Places : Contains(v, l) <=> Contains(u, l)
  <2>1. \A l \in Places : l \in Nat /\ (Contains(u, l) => l < w.next)
    BY DEF Clear, Places
  <2>2. \A l \in leaves : l >= w.next
    BY DEF leaves
  <2>3. w.next \in Nat
    BY DEF CacheType
  <2> HIDE DEF u, v
  <2>4. QED  BY <1>4, <2>1, <2>2, <2>3
<1> HIDE DEF u, v
<1>7. \A i \in Offset : v[i] = u[i]
  BY <1>5, <1>6, SameBytes
<1>8. v = u
  BY <1>5, <1>7
<1>9. ApplyToFile(w) = [bytes |-> v, next |-> w.next]
  BY DEF ApplyToFile, v, level, leaves
<1>10. QED  BY <1>8, <1>9 DEF u
-----------------------------------------------------------------------------
(* The three levels.                                                       *)

\* The bits of a level are those of leaves it has: nothing is left behind its
\* end, in the file or in a cache.
LevelsClear ==
    /\ Clear(file.bytes, file.next)
    /\ Clear(CacheBytes, cache.next)
    /\ Clear(TempBytes, temp.next)

Inv ==
    /\ file = [bytes |-> file.bytes, next |-> file.next]
    /\ file.bytes \in [Offset -> Byte] /\ file.next \in 0 .. MaxLeaves
    /\ CacheType(cache)
    /\ CacheType(temp)
    /\ LevelsClear

\* The types of the three levels, for the proofs to cite.
LEMMA LevelTypes ==
    ASSUME Inv
    PROVE  /\ file.bytes \in [Offset -> Byte]
           /\ CacheBytes \in [Offset -> Byte]
           /\ TempBytes \in [Offset -> Byte]
           /\ file.next \in 0 .. MaxLeaves /\ file.next \in Nat
           /\ cache.next \in 0 .. MaxLeaves /\ cache.next \in Nat
           /\ temp.next \in 0 .. MaxLeaves /\ temp.next \in Nat
<1>1. file.bytes \in [Offset -> Byte] /\ CacheType(cache) /\ CacheType(temp)
  BY DEF Inv
<1>2. CacheBytes \in [Offset -> Byte]
  BY <1>1, BytesType DEF CacheBytes
<1>3. TempBytes \in [Offset -> Byte]
  BY <1>1, <1>2, BytesType DEF TempBytes
<1>4. /\ file.next \in 0 .. MaxLeaves /\ cache.next \in 0 .. MaxLeaves
      /\ temp.next \in 0 .. MaxLeaves
  BY DEF Inv, CacheType
<1>5. QED  BY <1>1, <1>2, <1>3, <1>4

\* The leaves of a level are those whose bit is set, as far as there are leaves.
LEMMA LevelBits ==
    ASSUME NEW bytes, NEW next \in 0 .. MaxLeaves, Clear(bytes, next)
    PROVE  Level(bytes, next) = [bits |-> {l \in Places : Contains(bytes, l)}, next |-> next]
<1>1. \A l \in Places : l \in Nat /\ (Contains(bytes, l) => l < next)
  BY DEF Clear, Places
<1>2. \A l \in 0 .. next - 1 : l \in Places
  <2>1. \A l \in 0 .. next - 1 : l \in 0 .. MaxLeaves - 1
    BY LeafSetAssumption
  <2>2. QED  BY <2>1, LeafHasPlace
<1>3. {l \in 0 .. next - 1 : Contains(bytes, l)} = {l \in Places : Contains(bytes, l)}
  BY <1>1, <1>2
<1>4. QED  BY <1>3 DEF Level

\* At first the levels are those of the abstract stack.
LEMMA InitLevels == Init => Inv /\ Bits!Init
<1> SUFFICES ASSUME Init PROVE Inv /\ Bits!Init
  OBVIOUS
<1> DEFINE zero == [i \in Offset |-> {}]
<1>1. file = [bytes |-> zero, next |-> 0] /\ cache = NewCache(0) /\ temp = NewCache(0)
  BY DEF Init
<1>2. zero \in [Offset -> Byte] /\ 0 \in 0 .. MaxLeaves
  BY LeafSetAssumption DEF Byte
<1>3. \A l \in Places : ~Contains(zero, l)
  BY DEF Contains, Places
<1> HIDE DEF zero
<1>4. Clear(zero, 0) /\ Level(zero, 0) = [bits |-> {}, next |-> 0]
  <2>1. Clear(zero, 0)
    BY <1>3 DEF Clear
  <2>2. QED  BY <1>2, <1>3, <2>1, LevelBits
<1>5. CacheType(cache) /\ CacheType(temp) /\ cache.next = 0 /\ temp.next = 0
      /\ CacheBytes = zero /\ TempBytes = zero
  BY <1>1, <1>2, NewBytes DEF CacheBytes, TempBytes
<1>6. Inv
  BY <1>1, <1>2, <1>4, <1>5 DEF Inv, LevelsClear
<1>7. Bits!Init
  BY <1>1, <1>4, <1>5 DEF Bits!Init, Bits!Empty
<1>8. QED  BY <1>6, <1>7

\* The bits a level shows.
Shown(bytes) == {l \in Places : Contains(bytes, l)}

Top == Level(TempBytes, temp.next)
Middle == Level(CacheBytes, cache.next)
Saved == Level(file.bytes, file.next)

\* The levels of the refinement mapping, in terms of the bytes that they show.
LEMMA Levels ==
    ASSUME Inv
    PROVE  /\ Top = [bits |-> Shown(TempBytes), next |-> temp.next]
           /\ Middle = [bits |-> Shown(CacheBytes), next |-> cache.next]
           /\ Saved = [bits |-> Shown(file.bytes), next |-> file.next]
BY LevelTypes, LevelBits DEF Inv, LevelsClear, Top, Middle, Saved, Shown

\* Steps of the temporary cache: its new leaves are all that has to be shown.
LEMMA TempStep ==
    ASSUME Inv, CacheType(temp'), UNCHANGED <<file, cache>>,
           Clear(Bytes(temp', CacheBytes), temp'.next)
    PROVE  /\ Inv' /\ Middle' = Middle /\ Saved' = Saved
           /\ Top' = [bits |-> Shown(Bytes(temp', CacheBytes)), next |-> temp'.next]
<1>1. CacheBytes' = CacheBytes
  BY DEF CacheBytes
<1>2. TempBytes' = Bytes(temp', CacheBytes)
  BY <1>1 DEF TempBytes
<1>3. Middle' = Middle /\ Saved' = Saved
  BY <1>1 DEF Middle, Saved, Level, Contains
<1>4. Inv'
  BY <1>1, <1>2 DEF Inv, LevelsClear, Clear, Contains, CacheType
<1>5. Top' = Level(Bytes(temp', CacheBytes), temp'.next)
  BY <1>2 DEF Top
<1>6. temp'.next \in 0 .. MaxLeaves
  BY DEF CacheType
<1>7. QED  BY <1>3, <1>4, <1>5, <1>6, LevelBits DEF Shown

\* Adding a leaf to the temporary cache adds it to the topmost level,
LEMMA AddStep ==
    ASSUME Inv, AddToTemp
    PROVE  Inv' /\ Bits!Add
<1> DEFINE n == temp.next
           leaves == {n}
<1>1. n \in Nat /\ n \in 0 .. MaxLeaves - 1 /\ n + 1 \in 0 .. MaxLeaves
  BY LevelTypes, LeafSetAssumption DEF AddToTemp
<1>2. n \in Places /\ leaves \in SUBSET Places
  BY <1>1, LeafHasPlace
<1>3. temp' = Add(temp, CacheBytes, leaves) /\ UNCHANGED <<file, cache>>
  BY DEF AddToTemp
<1>4. temp'.next = n + 1
  BY <1>1, <1>3, NextLeaf DEF Add
<1>5. CacheType(temp) /\ CacheBytes \in [Offset -> Byte] /\ Clear(TempBytes, n)
  BY LevelTypes DEF Inv, LevelsClear
<1> HIDE DEF leaves
<1>6. /\ CacheType(temp')
      /\ \A l \in Places : Contains(Bytes(temp', CacheBytes), l)
                             <=> Contains(Bytes(temp, CacheBytes), l) \/ l \in leaves
  BY <1>1, <1>2, <1>3, <1>4, <1>5, Added
<1>7. \A l \in Places : Contains(Bytes(temp', CacheBytes), l)
                          <=> Contains(TempBytes, l) \/ l = n
  BY <1>6 DEF TempBytes, leaves
<1>8. \A l \in Places : l \in Nat /\ (Contains(TempBytes, l) => l < n)
  BY <1>5 DEF Clear, Places
<1>9. Clear(Bytes(temp', CacheBytes), n + 1)
  <2> SUFFICES ASSUME NEW l \in Places, Contains(Bytes(temp', CacheBytes), l)
               PROVE  l < n + 1
    BY DEF Clear
  <2>1. l = n \/ l < n
    BY <1>7, <1>8
  <2>2. QED  BY <1>1, <1>8, <2>1
<1> HIDE DEF n
<1>10. /\ Inv' /\ Middle' = Middle /\ Saved' = Saved
       /\ Top' = [bits |-> Shown(Bytes(temp', CacheBytes)), next |-> n + 1]
  BY <1>3, <1>4, <1>6, <1>9, TempStep
<1>11. Top = [bits |-> Shown(TempBytes), next |-> n]
  BY Levels DEF n
<1>12. Shown(Bytes(temp', CacheBytes)) = Shown(TempBytes) \cup {n}
  BY <1>2, <1>7 DEF Shown
<1>13. Top' = [bits |-> Top.bits \cup {Top.next}, next |-> Top.next + 1]
  BY <1>10, <1>11, <1>12
<1>14. QED
  BY <1>10, <1>13 DEF Bits!Add, Top, Middle, Saved

\* removing it removes it there,
LEMMA RemoveStep ==
    ASSUME Inv, RemoveFromTemp
    PROVE  Inv' /\ Bits!Remove
<1>1. PICK l \in 0 .. temp.next - 1 :
          /\ Contains(TempBytes, l)
          /\ temp' = Remove(temp, CacheBytes, {l})
          /\ UNCHANGED <<file, cache>>
  BY DEF RemoveFromTemp
<1> DEFINE leaves == {l}
<1>2. l \in Places /\ leaves \in SUBSET Places
  BY LevelTypes, LeafSetAssumption, LeafHasPlace
<1>3. CacheType(temp) /\ CacheBytes \in [Offset -> Byte] /\ Clear(TempBytes, temp.next)
  BY LevelTypes DEF Inv, LevelsClear
<1>4. temp' = Remove(temp, CacheBytes, leaves)
  BY <1>1
<1> HIDE DEF leaves
<1>5. /\ CacheType(temp') /\ temp'.next = temp.next
      /\ \A m \in Places : Contains(Bytes(temp', CacheBytes), m)
                             <=> Contains(Bytes(temp, CacheBytes), m) /\ m \notin leaves
  BY <1>2, <1>3, <1>4, Removed
<1>6. \A m \in Places : Contains(Bytes(temp', CacheBytes), m)
                          <=> Contains(TempBytes, m) /\ m # l
  BY <1>5 DEF TempBytes, leaves
<1>7. Clear(Bytes(temp', CacheBytes), temp'.next)
  BY <1>3, <1>5, <1>6 DEF Clear
<1>8. /\ Inv' /\ Middle' = Middle /\ Saved' = Saved
      /\ Top' = [bits |-> Shown(Bytes(temp', CacheBytes)), next |-> temp.next]
  BY <1>1, <1>5, <1>7, TempStep
<1>9. Top = [bits |-> Shown(TempBytes), next |-> temp.next]
  BY Levels
<1>10. Shown(Bytes(temp', CacheBytes)) = Shown(TempBytes) \ {l} /\ l \in Shown(TempBytes)
  BY <1>1, <1>2, <1>6 DEF Shown
<1>11. l \in Top.bits /\ Top' = [Top EXCEPT !.bits = @ \ {l}]
  <2> DEFINE B == Shown(TempBytes)
             C == Shown(Bytes(temp', CacheBytes))
  <2> HIDE DEF B, C
  <2>1. Top = [bits |-> B, next |-> temp.next] /\ Top' = [bits |-> C, next |-> temp.next]
    BY <1>8, <1>9 DEF B, C
  <2>2. C = B \ {l} /\ l \in B
    BY <1>10 DEF B, C
  <2>3. [Top EXCEPT !.bits = @ \ {l}] = [bits |-> B \ {l}, next |-> temp.next]
    BY <2>1
  <2>4. QED  BY <2>1, <2>2, <2>3
<1>12. QED
  BY <1>8, <1>11 DEF Bits!Remove, Top, Middle, Saved

\* and rewinding takes that level back.
LEMMA RewindStep ==
    ASSUME Inv, RewindTemp
    PROVE  Inv' /\ Bits!Rewind
<1>0. PICK n \in 0 .. temp.next : \E leaves \in SUBSET (0 .. n - 1) :
          /\ temp' = Rewind(temp, CacheBytes, n, leaves)
          /\ UNCHANGED <<file, cache>>
  BY DEF RewindTemp
<1>1. PICK leaves \in SUBSET (0 .. n - 1) :
          /\ temp' = Rewind(temp, CacheBytes, n, leaves)
          /\ UNCHANGED <<file, cache>>
  BY <1>0
<1>2. CacheType(temp) /\ CacheBytes \in [Offset -> Byte] /\ Clear(TempBytes, temp.next)
  BY LevelTypes DEF Inv, LevelsClear
<1>3. /\ CacheType(temp') /\ temp'.next = n
      /\ \A l \in Places : Contains(Bytes(temp', CacheBytes), l)
           <=> l < n /\ (Contains(TempBytes, l) \/ l \in leaves)
  BY <1>1, <1>2, Rewound DEF TempBytes
<1>4. Clear(Bytes(temp', CacheBytes), temp'.next)
  BY <1>3 DEF Clear
<1>5. /\ Inv' /\ Middle' = Middle /\ Saved' = Saved
      /\ Top' = [bits |-> Shown(Bytes(temp', CacheBytes)), next |-> n]
  BY <1>1, <1>3, <1>4, TempStep
<1>6. Top = [bits |-> Shown(TempBytes), next |-> temp.next]
  BY Levels
<1>7. n \in Nat /\ n \in 0 .. MaxLeaves
  BY LevelTypes, LeafSetAssumption
<1>8. \A l \in leaves : l \in Places /\ l \in Nat /\ l < n
  BY <1>7, LeafHasPlace, LeafSetAssumption
<1>9. \A l \in Places : l \in Nat
  BY DEF Places
<1>10. Shown(Bytes(temp', CacheBytes)) = (Shown(TempBytes) \cap (0 .. n - 1)) \cup leaves
  <2> DEFINE B == Shown(TempBytes)
             C == Shown(Bytes(temp', CacheBytes))
  <2>1. \A l \in Places : (l \in C <=> l < n /\ (l \in B \/ l \in leaves))
    BY <1>3 DEF Shown
  <2>2. B \subseteq Places /\ C \subseteq Places
    BY DEF Shown
  <2> HIDE DEF B, C
  <2>3. \A l : l \in C <=> l \in (B \cap (0 .. n - 1)) \cup leaves
    <3>1. ASSUME NEW l \in Places
          PROVE  l \in C <=> l \in (B \cap (0 .. n - 1)) \cup leaves
      <4>1. l \in Nat /\ (l < n <=> l \in 0 .. n - 1)
        BY <1>7, <1>9
      <4>2. QED  BY <1>8, <2>1, <4>1
    <3>2. QED  BY <1>8, <2>2, <3>1
  <2>4. QED  BY <2>3 DEF B, C
<1>11. Top' = [bits |-> (Top.bits \cap (0 .. n - 1)) \cup leaves, next |-> n]
  BY <1>5, <1>6, <1>10
<1>12. n \in 0 .. Top.next
  BY <1>6
<1>13. QED
  BY <1>1, <1>5, <1>11, <1>12 DEF Bits!Rewind, Top, Middle, Saved

\* Flushing the temporary cache makes the middle level what the topmost one is,
LEMMA FlushTempStep ==
    ASSUME Inv, FlushTemp
    PROVE  Inv' /\ Bits!FlushTop
<1>1. /\ CacheType(cache) /\ CacheType(temp) /\ file.bytes \in [Offset -> Byte]
      /\ TempBytes \in [Offset -> Byte] /\ temp.next \in 0 .. MaxLeaves
  BY LevelTypes DEF Inv
<1>2. cache' = ApplyToCache(cache, temp) /\ temp' = NewCache(temp.next) /\ file' = file
  BY DEF FlushTemp
<1>3. /\ CacheType(cache') /\ cache'.next = temp.next
      /\ Bytes(cache', file.bytes) = TempBytes
  BY <1>1, <1>2, Merged DEF TempBytes, CacheBytes
<1>4. CacheBytes' = TempBytes
  BY <1>2, <1>3 DEF CacheBytes
<1>5. CacheType(temp') /\ temp'.next = temp.next /\ TempBytes' = TempBytes
  BY <1>1, <1>2, <1>4, NewBytes DEF TempBytes
<1>6. Inv'
  BY <1>2, <1>3, <1>4, <1>5 DEF Inv, LevelsClear
<1>7. Middle' = Top /\ Top' = Top /\ Saved' = Saved
  BY <1>2, <1>3, <1>4, <1>5 DEF Middle, Top, Saved, Level, Contains
<1>8. QED  BY <1>6, <1>7 DEF Bits!FlushTop, Top, Middle, Saved

\* and dropping it makes the topmost level what the middle one is.
LEMMA DropTempStep ==
    ASSUME Inv, DropTemp
    PROVE  Inv' /\ Bits!DropTop
<1>1. CacheBytes \in [Offset -> Byte] /\ cache.next \in 0 .. MaxLeaves
  BY LevelTypes
<1>2. temp' = NewCache(cache.next) /\ cache' = cache /\ file' = file
  BY DEF DropTemp
<1>3. CacheBytes' = CacheBytes
  BY <1>2 DEF CacheBytes
<1>4. CacheType(temp') /\ temp'.next = cache.next /\ TempBytes' = CacheBytes
  BY <1>1, <1>2, <1>3, NewBytes DEF TempBytes
<1>5. Inv'
  BY <1>2, <1>3, <1>4 DEF Inv, LevelsClear, CacheType
<1>6. Top' = Middle /\ Middle' = Middle /\ Saved' = Saved
  BY <1>2, <1>3, <1>4 DEF Middle, Top, Saved, Level, Contains
<1>7. QED  BY <1>5, <1>6 DEF Bits!DropTop, Top, Middle, Saved

\* Flushing the cache saves the middle level.
LEMMA FlushCacheStep ==
    ASSUME Inv, FlushCache
    PROVE  Inv' /\ Bits!Save
<1>1. /\ CacheType(cache) /\ file.bytes \in [Offset -> Byte] /\ file.next \in 0 .. MaxLeaves
      /\ CacheBytes \in [Offset -> Byte] /\ cache.next \in 0 .. MaxLeaves
      /\ Clear(CacheBytes, cache.next)
  BY LevelTypes DEF Inv, LevelsClear
<1>2. /\ temp = NewCache(cache.next) /\ file' = ApplyToFile(cache)
      /\ cache' = NewCache(cache.next) /\ temp' = temp
  BY DEF FlushCache
<1>3. CacheType(temp) /\ temp.next = cache.next /\ TempBytes = CacheBytes
  BY <1>1, <1>2, NewBytes DEF TempBytes
<1>4. file'.bytes = CacheBytes /\ file'.next = cache.next
  BY <1>1, <1>2, FileBytes DEF CacheBytes
<1>5. file' = [bytes |-> file'.bytes, next |-> file'.next]
  BY <1>2 DEF ApplyToFile
<1>6. CacheType(cache') /\ cache'.next = cache.next /\ CacheBytes' = CacheBytes
  BY <1>1, <1>2, <1>4, NewBytes DEF CacheBytes
<1>7. TempBytes' = CacheBytes
  BY <1>1, <1>2, <1>6, NewBytes DEF TempBytes
<1>8. Inv'
  BY <1>1, <1>2, <1>3, <1>4, <1>5, <1>6, <1>7 DEF Inv, LevelsClear, CacheType
<1>9. Top = Middle /\ Top' = Top /\ Middle' = Middle /\ Saved' = Middle
  BY <1>2, <1>3, <1>4, <1>6, <1>7 DEF Middle, Top, Saved, Level, Contains
<1>10. QED  BY <1>8, <1>9 DEF Bits!Save, Top, Middle, Saved

\* So every step keeps the invariant and is a step of the stack, or none.
LEMMA NextLevels ==
    ASSUME Inv, [Next]_vars
    PROVE  Inv' /\ [Bits!Next]_<<Top, Middle, Saved>>
<1>1. CASE AddToTemp
  BY <1>1, AddStep DEF Bits!Next
<1>2. CASE RemoveFromTemp
  BY <1>2, RemoveStep DEF Bits!Next
<1>3. CASE RewindTemp
  BY <1>3, RewindStep DEF Bits!Next
<1>4. CASE FlushTemp
  BY <1>4, FlushTempStep DEF Bits!Next
<1>5. CASE DropTemp
  BY <1>5, DropTempStep DEF Bits!Next
<1>6. CASE FlushCache
  BY <1>6, FlushCacheStep DEF Bits!Next
<1>7. CASE UNCHANGED vars
  <2>1. file' = file /\ cache' = cache /\ temp' = temp
    BY <1>7 DEF vars
  <2>2. CacheBytes' = CacheBytes /\ TempBytes' = TempBytes
    BY <2>1 DEF CacheBytes, TempBytes
  <2>3. Inv'
    BY <2>1, <2>2 DEF Inv, LevelsClear, CacheType
  <2>4. Top' = Top /\ Middle' = Middle /\ Saved' = Saved
    BY <2>1, <2>2 DEF Top, Middle, Saved, Level, Contains
  <2>5. QED  BY <2>3, <2>4
<1>8. QED  BY <1>1, <1>2, <1>3, <1>4, <1>5, <1>6, <1>7 DEF Next

(* In the bytes of the file and of both caches no bit is set from the next *)
(* leaf on, whatever is added, spent, rewound or flushed                   *)
(* (ILeafSet.cpp:42-53, LeafSet.cpp:31-73).                                *)
THEOREM NothingBehind == Spec => []LevelsClear
<1>1. Init => Inv
  BY InitLevels
<1>2. Inv /\ [Next]_vars => Inv'
  BY NextLevels
<1>3. Inv => LevelsClear
  BY DEF Inv
<1>4. QED  BY <1>1, <1>2, <1>3, PTL DEF Spec

(* Byte caches are transparent: file, cache and temporary cache implement  *)
(* three plain sets of leaves (LeafSetCache.cpp, LeafSet.cpp).             *)
THEOREM CachesAreSets == Spec => ImplementsBits
<1>1. Init => Inv /\ Bits!Init
  BY InitLevels
<1>2. Inv /\ [Next]_vars => Inv' /\ [Bits!Next]_<<Top, Middle, Saved>>
  BY NextLevels
<1>3. Spec => Bits!Init /\ [][Bits!Next]_<<Top, Middle, Saved>>
  BY <1>1, <1>2, PTL DEF Spec
<1>4. QED
  BY <1>3 DEF ImplementsBits, Bits!Spec, Top, Middle, Saved
-----------------------------------------------------------------------------
(* Roots.                                                                  *)

\* The bytes of the root are those the leaves are in.
LEMMA BytesOfRoot ==
    ASSUME NEW n \in 0 .. MaxLeaves
    PROVE  /\ 0 .. (n + ByteBits - 1) \div ByteBits - 1 \subseteq Offset
           /\ \A l \in 0 .. n - 1 : l \div ByteBits \in 0 .. (n + ByteBits - 1) \div ByteBits - 1
<1> DEFINE bytes == (n + ByteBits - 1) \div ByteBits
<1>1. n \in Nat /\ ByteBits \in Nat \ {0} /\ n + ByteBits - 1 \in Nat
  BY LeafSetAssumption
<1>2. bytes \in Nat /\ ByteBits * bytes <= n + ByteBits - 1 /\ n <= ByteBits * bytes
  <2>1. /\ bytes \in Nat /\ (n + ByteBits - 1) % ByteBits \in 0 .. ByteBits - 1
        /\ n + ByteBits - 1 = ByteBits * bytes + ((n + ByteBits - 1) % ByteBits)
    BY <1>1, DivMod
  <2> HIDE DEF bytes
  <2>2. ByteBits * bytes \in Int
    BY <1>1, <2>1
  <2>3. QED  BY <1>1, <2>1, <2>2
<1> HIDE DEF bytes
<1>3. ASSUME NEW i \in 0 .. bytes - 1
      PROVE  i \in Offset
  <2>1. i \in Nat /\ i + 1 <= bytes
    BY <1>2
  <2>2. ByteBits * (i + 1) <= ByteBits * bytes /\ ByteBits * (i + 1) = ByteBits * i + ByteBits
    BY <1>1, <1>2, <2>1
  <2>3. ByteBits * i <= n - 1 /\ ByteBits * i \in Nat
    BY <1>1, <1>2, <2>1, <2>2
  <2>4. (ByteBits * i) \div ByteBits = i
    BY <1>1, <2>1
  <2>5. ByteBits * i <= MaxLeaves - 1 /\ MaxLeaves - 1 \in Nat
    BY <1>1, <2>3, LeafSetAssumption
  <2>6. i <= (MaxLeaves - 1) \div ByteBits /\ (MaxLeaves - 1) \div ByteBits \in Nat
    BY <2>3, <2>4, <2>5, DivOrder, DivMod
  <2>7. QED  BY <2>1, <2>6 DEF Offset
<1>4. ASSUME NEW l \in 0 .. n - 1
      PROVE  l \div ByteBits \in 0 .. bytes - 1
  <2>1. l \in Nat /\ l < n
    BY <1>1
  <2> DEFINE i == l \div ByteBits
  <2>2. i \in Nat /\ l % ByteBits \in 0 .. ByteBits - 1 /\ l = ByteBits * i + (l % ByteBits)
    BY <2>1, DivMod
  <2> HIDE DEF i
  <2>3. ByteBits * i <= l /\ ByteBits * i \in Nat
    BY <1>1, <2>1, <2>2
  <2>4. ByteBits * i < ByteBits * bytes
    BY <1>1, <1>2, <2>1, <2>3
  <2>5. i < bytes
    <3>1. CASE bytes <= i
      <4>1. ByteBits * bytes <= ByteBits * i
        BY <1>1, <1>2, <2>2, <3>1
      <4>2. QED  BY <1>1, <1>2, <2>3, <2>4, <4>1
    <3>2. QED  BY <1>2, <2>2, <3>1
  <2>6. QED  BY <1>2, <2>2, <2>5 DEF i
<1>5. QED  BY <1>3, <1>4 DEF bytes

\* Two bitmaps without bits past their length hash the same exactly if they are
\* the same set of leaves.
LEMMA RootAgrees ==
    ASSUME NEW n \in 0 .. MaxLeaves, NEW v \in [Offset -> Byte], NEW w \in [Offset -> Byte],
           Clear(v, n), Clear(w, n)
    PROVE  RootBytes(v, n) = RootBytes(w, n) <=> Level(v, n) = Level(w, n)
<1> DEFINE I == 0 .. (n + ByteBits - 1) \div ByteBits - 1
<1>1. RootBytes(v, n) = [i \in I |-> v[i]] /\ RootBytes(w, n) = [i \in I |-> w[i]]
  BY DEF RootBytes
<1>2. Level(v, n) = [bits |-> {l \in 0 .. n - 1 : Contains(v, l)}, next |-> n]
      /\ Level(w, n) = [bits |-> {l \in 0 .. n - 1 : Contains(w, l)}, next |-> n]
  BY DEF Level
<1>3. I \subseteq Offset /\ \A l \in 0 .. n - 1 : l \div ByteBits \in I
  BY BytesOfRoot
<1> HIDE DEF I
<1>4. ASSUME RootBytes(v, n) = RootBytes(w, n)
      PROVE  Level(v, n) = Level(w, n)
  <2>1. \A i \in I : v[i] = w[i]
    BY <1>1, <1>4
  <2>2. \A l \in 0 .. n - 1 : Contains(v, l) <=> Contains(w, l)
    BY <1>3, <2>1 DEF Contains
  <2>3. {l \in 0 .. n - 1 : Contains(v, l)} = {l \in 0 .. n - 1 : Contains(w, l)}
    BY <2>2
  <2>4. QED  BY <1>2, <2>3
<1>5. ASSUME Level(v, n) = Level(w, n)
      PROVE  RootBytes(v, n) = RootBytes(w, n)
  <2>1. {l \in 0 .. n - 1 : Contains(v, l)} = {l \in 0 .. n - 1 : Contains(w, l)}
    BY <1>2, <1>5
  <2>2. \A l \in 0 .. n - 1 : Contains(v, l) <=> Contains(w, l)
    BY <2>1
  <2>3. ASSUME NEW l \in Places
        PROVE  Contains(v, l) <=> Contains(w, l)
    <3>1. l \in Nat /\ n \in Nat
      BY LeafSetAssumption DEF Places
    <3>2. CASE l < n
      BY <2>2, <3>1, <3>2
    <3>3. CASE ~(l < n)
      BY <3>3 DEF Clear
    <3>4. QED  BY <3>2, <3>3
  <2>4. \A i \in I : v[i] = w[i]
    BY <1>3, <2>3, SameBytes
  <2>5. QED  BY <1>1, <2>4
<1>6. QED  BY <1>4, <1>5

(* Two leafsets of one length have the same root exactly if they have the  *)
(* same leaves, be they in the file, the cache or the temporary cache      *)
(* (ILeafSet.cpp:29-40).                                                   *)
THEOREM RootsTellApart == Spec => []RootsAgree
<1>1. Inv => RootsAgree
  <2> SUFFICES ASSUME Inv PROVE RootsAgree
    OBVIOUS
  <2> DEFINE levels == {<<file.bytes, file.next>>, <<CacheBytes, cache.next>>,
                        <<TempBytes, temp.next>>}
  <2>1. \A v \in levels : /\ v[1] \in [Offset -> Byte] /\ v[2] \in 0 .. MaxLeaves
                          /\ Clear(v[1], v[2])
    BY LevelTypes DEF Inv, LevelsClear
  <2> HIDE DEF levels
  <2>2. \A v, w \in levels : v[2] = w[2] =>
            (RootBytes(v[1], v[2]) = RootBytes(w[1], w[2])
                <=> Level(v[1], v[2]) = Level(w[1], w[2]))
    BY <2>1, RootAgrees
  <2>3. QED  BY <2>2 DEF RootsAgree, levels
<1>2. Init => Inv
  BY InitLevels
<1>3. Inv /\ [Next]_vars => Inv'
  BY NextLevels
<1>4. QED  BY <1>1, <1>2, <1>3, PTL DEF Spec

-----------------------------------------------------------------------------
(* The walk along the chain                                                *)

Begins(s, t) == Len(s) <= Len(t) /\ \A x \in 1 .. Len(s) : s[x] = t[x]

WalkTypes ==
    /\ headers \in Seq(Seq(Kernel)) /\ given.kernels \in Seq(Kernel)
    /\ added \in 0 .. Len(given.kernels) /\ iter \in 1 .. Len(headers) + 1
    /\ walk # "none" =>
          /\ given.at \in DOMAIN headers
          /\ Len(given.kernels) = Len(headers[given.at])

\* Every header has the kernels of those before it.
ChainGrows ==
    \A i, j \in DOMAIN headers : i <= j => Begins(headers[i], headers[j])

\* What the iterator has passed was right.
Passed ==
    \A j \in 1 .. iter - 1 : Len(headers[j]) <= added /\ Begins(headers[j], given.kernels)

\* Where the iterator is there are more kernels than have been added, unless it
\* has stopped at the header of the state.
Ahead ==
    Valid(iter) => \/ Len(headers[iter]) > added
                   \/ iter = given.at /\ headers[iter] = given.kernels

WalkInv ==
    /\ WalkTypes /\ ChainGrows
    /\ walk = "walking" => Passed /\ (headers[1] # <<>> => Ahead)
    /\ WalkDecides

\* The sequences a behaviour chooses from are sequences of kernels.
LEMMA ChosenKernels ==
    ASSUME NEW n, NEW s \in Seqs!SeqOf(Kernel, n)
    PROVE  s \in Seq(Kernel)
PROOF
BY DEF Seqs!SeqOf

\* Lists of one length with the same elements are the same.
LEMMA SameSeq ==
    ASSUME NEW X, NEW s \in Seq(X), NEW t \in Seq(X), Len(s) = Len(t),
           \A x \in 1 .. Len(s) : s[x] = t[x]
    PROVE  s = t
PROOF
OBVIOUS

\* The first elements of a list.
LEMMA PrefixOf ==
    ASSUME NEW X, NEW s \in Seq(X), NEW n \in 0 .. Len(s)
    PROVE  LET p == SubSeq(s, 1, n)
           IN  p \in Seq(X) /\ Len(p) = n /\ \A x \in 1 .. n : p[x] = s[x]
PROOF
OBVIOUS

\* A list joined to another begins with it.
LEMMA Longer ==
    ASSUME NEW X, NEW s \in Seq(X), NEW t \in Seq(X)
    PROVE  /\ s \o t \in Seq(X) /\ Len(s \o t) = Len(s) + Len(t)
           /\ \A x \in 1 .. Len(s) : (s \o t)[x] = s[x]
PROOF
OBVIOUS

\* A list with one more element begins with it, and ends with that.
LEMMA AnotherHeader ==
    ASSUME NEW X, NEW s \in Seq(X), NEW e \in X
    PROVE  /\ Append(s, e) \in Seq(X) /\ Len(Append(s, e)) = Len(s) + 1
           /\ \A x \in 1 .. Len(s) : Append(s, e)[x] = s[x]
           /\ Append(s, e)[Len(s) + 1] = e
PROOF
OBVIOUS

\* There is a place where the loop stops: behind the last header at the latest.
LEMMA LoopStops ==
    ASSUME headers \in Seq(Seq(Kernel)), NEW i \in 1 .. Len(headers) + 1, NEW mmr
    PROVE  /\ Stop(i, mmr) \in i .. Len(headers) + 1
           /\ ~GoesOn(Stop(i, mmr), mmr)
           /\ \A k \in i .. Stop(i, mmr) - 1 : GoesOn(k, mmr)
PROOF
<1> DEFINE n == Len(headers)
           T == {j \in i .. n + 1 : ~GoesOn(j, mmr)}
           R == OpToRel(<, Nat)
<1>1. n \in Nat
  OBVIOUS
<1>2. ~GoesOn(n + 1, mmr)
  BY <1>1 DEF GoesOn, Valid
<1> HIDE DEF n
<1>3. T \subseteq Nat /\ n + 1 \in T
  BY <1>1, <1>2 DEF n
<1>4. IsWellFoundedOn(R, Nat)
  BY NatLessThanWellFounded
<1> HIDE DEF R, T
<1>5. PICK j \in T : \A k \in T : ~(<<k, j>> \in R)
  BY <1>3, <1>4, WFMin
<1>6. \A k \in T : ~(k < j)
  BY <1>3, <1>5 DEF R, OpToRel
<1>7. \A k \in i .. j - 1 : GoesOn(k, mmr)
  BY <1>1, <1>3, <1>5, <1>6 DEF T
<1>8. j \in i .. n + 1 /\ ~GoesOn(j, mmr)
  BY <1>5 DEF T
<1>9. \E k \in i .. Len(headers) + 1 :
          ~GoesOn(k, mmr) /\ \A l \in i .. k - 1 : GoesOn(l, mmr)
  BY <1>7, <1>8 DEF n
<1> QED
  BY <1>9 DEF Stop

-----------------------------------------------------------------------------
(* Every step of the walk                                                  *)

\* A node that has synced nothing satisfies the invariant of the walk.
LEMMA WalkBegins == Unsynced => WalkInv
PROOF
<1> SUFFICES ASSUME Unsynced PROVE WalkInv
  OBVIOUS
<1>1. headers = <<>> /\ given.kernels = <<>> /\ added = 0 /\ iter = 1 /\ walk = "none"
  BY DEF Unsynced, NoState
<1> QED
  BY <1>1 DEF WalkInv, WalkTypes, ChainGrows, WalkDecides

\* Another header keeps it,
LEMMA ExtendStep ==
    ASSUME WalkInv, NEW kernels \in NewKernels, Extend(kernels)
    PROVE  WalkInv'
PROOF
<1> DEFINE n == Len(headers)
           before == IF headers = <<>> THEN <<>> ELSE Seqs!Last(headers)
           next == before \o kernels
<1>1. headers \in Seq(Seq(Kernel)) /\ kernels \in Seq(Kernel) /\ n \in Nat
  BY ChosenKernels DEF WalkInv, WalkTypes, NewKernels
<1>2. before \in Seq(Kernel) /\ (n # 0 => before = headers[n])
  BY <1>1 DEF Seqs!Last
<1>3. headers' = Append(headers, next)
  BY DEF Extend
<1> HIDE DEF n, before
<1>4. next \in Seq(Kernel) /\ Begins(before, next) /\ Begins(next, next)
  <2>1. /\ next \in Seq(Kernel) /\ Len(next) = Len(before) + Len(kernels)
        /\ \A x \in 1 .. Len(before) : next[x] = before[x]
    BY <1>1, <1>2, Longer
  <2>2. Len(before) \in Nat /\ Len(kernels) \in Nat
    BY <1>1, <1>2
  <2> QED
    BY <2>1, <2>2 DEF Begins
<1> HIDE DEF next
<1>5. /\ headers' \in Seq(Seq(Kernel)) /\ Len(headers') = n + 1
      /\ \A j \in 1 .. n : headers'[j] = headers[j]
      /\ headers'[n + 1] = next
  BY <1>1, <1>3, <1>4, AnotherHeader DEF n
<1>6. /\ walk = "none" /\ walk' = walk /\ given' = given
      /\ added' = added /\ iter' = iter
  BY DEF Extend
<1>7. WalkTypes'
  BY <1>1, <1>5, <1>6 DEF WalkInv, WalkTypes, n
<1>8. ChainGrows'
  <2> SUFFICES ASSUME NEW i \in 1 .. n + 1, NEW j \in 1 .. n + 1, i <= j
               PROVE  Begins(headers'[i], headers'[j])
    BY <1>5 DEF ChainGrows, Begins
  <2>1. \A k \in 1 .. n : Begins(headers[k], headers[n])
    BY <1>1 DEF WalkInv, ChainGrows, n
  <2>2. CASE j \in 1 .. n
    <3>1. i \in 1 .. n /\ headers'[i] = headers[i] /\ headers'[j] = headers[j]
      BY <2>2, <1>1, <1>5
    <3>2. Begins(headers[i], headers[j])
      BY <3>1, <2>2, <1>1 DEF WalkInv, ChainGrows, n
    <3> QED
      BY <3>1, <3>2, Zenon
  <2>3. CASE j = n + 1 /\ i = n + 1
    BY <2>3, <1>4, <1>5
  <2>4. CASE j = n + 1 /\ i # n + 1
    <3>1. i \in 1 .. n /\ n # 0
      BY <2>4, <1>1
    <3>2. Begins(headers[i], before)
      BY <3>1, <2>1, <1>2
    <3>3. headers[i] \in Seq(Kernel) /\ headers'[i] = headers[i]
      BY <3>1, <1>1, <1>5 DEF n
    <3>4. /\ Len(headers[i]) \in Nat /\ Len(before) \in Nat /\ Len(next) \in Nat
      BY <3>3, <1>2, <1>4
    <3> HIDE DEF n
    <3>5. Begins(headers[i], next)
      BY <3>2, <3>4, <1>4 DEF Begins
    <3> QED
      BY <3>3, <3>5, <2>4, <1>5
  <2> QED
    BY <2>2, <2>3, <2>4, <1>1
<1> QED
  BY <1>6, <1>7, <1>8 DEF WalkInv, WalkDecides

\* so does a state that a peer gives, right or wrong,
LEMMA GiveStep ==
    ASSUME WalkInv, NEW at \in 1 .. MaxHeaders, NEW same \in BOOLEAN,
           NEW kernels \in Seqs!SeqOf(Kernel, MaxKernels), GiveState(at, same, kernels)
    PROVE  WalkInv'
PROOF
<1>1. /\ headers' = headers /\ iter' = 1 /\ added' = 0 /\ walk' = "walking"
      /\ given'.kernels = kernels /\ given'.at = at
      /\ at \in DOMAIN headers /\ Len(kernels) = Len(headers[at])
  BY DEF GiveState
<1>2. headers \in Seq(Seq(Kernel)) /\ kernels \in Seq(Kernel) /\ ChainGrows
  BY ChosenKernels DEF WalkInv, WalkTypes
<1>3. WalkTypes'
  BY <1>1, <1>2 DEF WalkTypes
<1>4. ChainGrows'
  BY <1>1, <1>2 DEF ChainGrows
<1>5. Passed'
  BY <1>1 DEF Passed
<1>6. headers'[1] # <<>> => Ahead'
  <2>1. headers[1] \in Seq(Kernel)
    BY <1>1, <1>2
  <2>2. headers[1] # <<>> => Len(headers[1]) > 0
    BY <2>1
  <2> QED
    BY <2>2, <1>1 DEF Ahead
<1> QED
  BY <1>1, <1>3, <1>4, <1>5, <1>6 DEF WalkInv, WalkDecides

\* accepting that state when all its kernels are added,
LEMMA AcceptStep ==
    ASSUME WalkInv, Accept
    PROVE  WalkInv'
PROOF
<1>1. /\ headers' = headers /\ given' = given /\ added' = added /\ iter' = iter
      /\ walk = "walking" /\ walk' = "accepted" /\ added = Len(given.kernels)
  BY DEF Accept
<1>2. WalkTypes' /\ ChainGrows'
  BY <1>1 DEF WalkInv, WalkTypes, ChainGrows
<1>3. headers[1] # <<>> => TheChains
  <2> SUFFICES ASSUME headers[1] # <<>> PROVE TheChains
    OBVIOUS
  <2> DEFINE at == given.at
             K == given.kernels
  <2>1. /\ headers \in Seq(Seq(Kernel)) /\ K \in Seq(Kernel)
        /\ at \in 1 .. Len(headers) /\ iter \in 1 .. Len(headers) + 1
        /\ Len(K) = Len(headers[at])
    BY <1>1 DEF WalkInv, WalkTypes
  <2>2. headers[at] \in Seq(Kernel) /\ at \in Nat /\ iter \in Nat
    BY <2>1
  <2>3. Passed /\ Ahead /\ ChainGrows
    BY <1>1 DEF WalkInv
  <2>4. CASE at < iter
    <3>1. Begins(headers[at], K)
      BY <2>1, <2>2, <2>3, <2>4 DEF Passed
    <3>2. \A x \in 1 .. Len(K) : K[x] = headers[at][x]
      BY <3>1, <2>1 DEF Begins
    <3> HIDE DEF at, K
    <3>3. K = headers[at]
      BY <3>2, <2>1, <2>2, SameSeq
    <3> QED
      BY <3>3 DEF TheChains, at, K
  <2>5. CASE iter <= at
    <3>1. iter \in 1 .. Len(headers) /\ Valid(iter)
      BY <2>1, <2>5 DEF Valid
    <3>2. Begins(headers[iter], headers[at])
      BY <3>1, <2>1, <2>3, <2>5 DEF ChainGrows
    <3>3. headers[iter] \in Seq(Kernel)
      BY <3>1, <2>1
    <3>4. ~(Len(headers[iter]) > added)
      <4>1. Len(headers[iter]) \in Nat /\ Len(headers[at]) \in Nat
        BY <3>3, <2>2
      <4> QED
        BY <4>1, <3>2, <2>1, <1>1 DEF Begins
    <3> QED
      BY <3>1, <3>4, <2>3 DEF Ahead, TheChains
  <2> QED
    BY <2>2, <2>4, <2>5
<1> QED
  BY <1>1, <1>2, <1>3 DEF WalkInv, WalkDecides, TheChains

\* turning to another state,
LEMMA NextStateStep ==
    ASSUME WalkInv, NextState
    PROVE  WalkInv'
PROOF
<1>1. /\ headers' = headers /\ given'.kernels = <<>> /\ added' = 0 /\ iter' = 1
      /\ walk' = "none"
  BY DEF NextState, NoState
<1>2. headers \in Seq(Seq(Kernel)) /\ ChainGrows
  BY DEF WalkInv, WalkTypes
<1> QED
  BY <1>1, <1>2 DEF WalkInv, WalkTypes, ChainGrows, WalkDecides

\* and adding a kernel.
LEMMA KernelStep ==
    ASSUME WalkInv, AddKernel
    PROVE  WalkInv'
PROOF
<1> DEFINE at == given.at
           K == given.kernels
           n == Len(headers)
           next == added + 1
           mmr == SubSeq(K, 1, next)
           stop == Stop(iter, mmr)
<1>1. /\ headers \in Seq(Seq(Kernel)) /\ K \in Seq(Kernel)
      /\ at \in 1 .. n /\ iter \in 1 .. n + 1
      /\ Len(K) = Len(headers[at]) /\ added \in 0 .. Len(K)
      /\ walk = "walking" /\ added < Len(K)
  BY DEF AddKernel, WalkInv, WalkTypes
<1>2. n \in Nat /\ \A j \in 1 .. n : headers[j] \in Seq(Kernel) /\ Len(headers[j]) \in Nat
  BY <1>1
<1>3. Passed /\ (headers[1] # <<>> => Ahead) /\ ChainGrows
  BY <1>1 DEF WalkInv
<1>4. /\ headers' = headers /\ given' = given
      /\ Valid(iter) => /\ added' = next /\ iter' = stop
                        /\ walk' = IF Mismatch(stop, mmr) THEN "refused" ELSE walk
      /\ ~Valid(iter) => walk' = "refused" /\ added' = added /\ iter' = iter
  BY DEF AddKernel
\* As long as a kernel of the header is missing, its place is not passed.
<1>5. Valid(iter)
  <2>1. CASE at \in 1 .. iter - 1
    <3>1. Len(headers[at]) <= added
      BY <2>1, <1>3 DEF Passed
    <3> QED
      BY <3>1, <1>1, <1>2
  <2>2. CASE at \notin 1 .. iter - 1
    BY <2>2, <1>1, <1>2 DEF Valid
  <2> QED
    BY <2>1, <2>2
<1>6. /\ stop \in iter .. n + 1 /\ ~GoesOn(stop, mmr)
      /\ \A k \in iter .. stop - 1 : GoesOn(k, mmr)
  BY <1>1, LoopStops
<1>7. /\ Len(K) \in Nat /\ next \in 1 .. Len(K)
  BY <1>1
<1>8. mmr \in Seq(Kernel) /\ Len(mmr) = next /\ \A x \in 1 .. next : mmr[x] = K[x]
  BY <1>1, <1>7, PrefixOf
<1> HIDE DEF mmr, stop, n, at, K
<1>9. Begins(mmr, K)
  BY <1>7, <1>8 DEF Begins
<1>10. stop \in 1 .. n + 1 /\ iter \in 1 .. n /\ iter <= stop
  BY <1>1, <1>2, <1>5, <1>6 DEF Valid, n
<1>11. Passed'
  <2> SUFFICES ASSUME NEW j \in 1 .. stop - 1
               PROVE  Len(headers[j]) <= next /\ Begins(headers[j], K)
    BY <1>4, <1>5, Zenon DEF Passed, K
  <2>1. CASE j \in 1 .. iter - 1
    <3>1. Len(headers[j]) <= added /\ Begins(headers[j], K)
      BY <2>1, <1>3 DEF Passed, K
    <3> QED
      BY <3>1, <1>1, <1>2, <1>7, <1>10
  <2>2. CASE j \in iter .. stop - 1
    <3>1. headers[j] = mmr
      BY <2>2, <1>6 DEF GoesOn
    <3> QED
      BY <3>1, <1>7, <1>8, <1>9
  <2> QED
    BY <2>1, <2>2, <1>10
<1>12. stop \in 1 .. n => Len(headers[stop]) >= Len(headers[iter])
  BY <1>2, <1>3, <1>10 DEF ChainGrows, Begins, n
<1>13. headers[1] # <<>> /\ ~Mismatch(stop, mmr) => Ahead'
  <2> SUFFICES ASSUME headers[1] # <<>>, ~Mismatch(stop, mmr), Valid(stop)
               PROVE  \/ Len(headers[stop]) > next
                      \/ stop = at /\ headers[stop] = K
    BY <1>4, <1>5, Zenon DEF Ahead, Valid, at, K
  <2>1. stop \in 1 .. n
    BY <1>2, <1>10 DEF Valid, n
  <2>2. Len(headers[iter]) > added
    <3>1. Len(headers[iter]) > added \/ headers[iter] = K
      BY <1>3, <1>5 DEF Ahead, K
    <3> QED
      BY <3>1, <1>1, <1>10
  <2>3. Len(headers[stop]) >= next
    BY <2>1, <2>2, <1>1, <1>2, <1>10, <1>12
  <2>4. CASE Len(headers[stop]) = next
    <3>1. headers[stop] = mmr
      BY <2>4, <1>8 DEF Mismatch
    <3>2. stop = at
      BY <3>1, <1>6 DEF GoesOn, IsStateHeader, at
    <3>3. Len(mmr) = Len(K)
      BY <3>1, <3>2, <1>1
    <3>4. mmr = K
      BY <3>3, <1>1, <1>8, SameSeq
    <3> QED
      BY <3>1, <3>2, <3>4
  <2>5. CASE Len(headers[stop]) # next
    BY <2>1, <2>3, <2>5, <1>1, <1>2, <1>7
  <2> QED
    BY <2>4, <2>5
\* A header with another root refuses only what is not the chain's.
<1>14. Mismatch(stop, mmr) => K # headers[at]
  <2> SUFFICES ASSUME Mismatch(stop, mmr), K = headers[at] PROVE FALSE
    OBVIOUS
  <2>1. stop \in 1 .. n /\ Len(headers[stop]) = next /\ headers[stop] # mmr
    BY <1>2, <1>8, <1>10 DEF Mismatch, Valid, n
  <2>2. \A i, j \in 1 .. n : i <= j => Begins(headers[i], headers[j])
    BY <1>1, <1>3 DEF ChainGrows, n
  <2>3. \A x \in 1 .. next : headers[stop][x] = K[x]
    <3>1. CASE stop <= at
      <4>1. Begins(headers[stop], K)
        BY <3>1, <2>1, <2>2, <1>1, Zenon
      <4> QED
        BY <4>1, <2>1 DEF Begins
    <3>2. CASE at <= stop
      <4>1. Begins(headers[at], headers[stop])
        BY <3>2, <2>1, <2>2, <1>1, Zenon
      <4>2. Begins(K, headers[stop])
        BY <4>1, K = headers[at], Zenon
      <4> QED
        BY <4>2, <2>1, <1>7 DEF Begins
    <3> QED
      BY <3>1, <3>2, <2>1, <1>1
  <2>4. headers[stop] = mmr
    BY <2>1, <2>3, <1>2, <1>8, SameSeq
  <2> QED
    BY <2>1, <2>4
<1>15. WalkTypes'
  <2>1. given.at \in DOMAIN headers /\ Len(given.kernels) = Len(headers[given.at])
    BY <1>1 DEF n, at, K
  <2>2. next \in 0 .. Len(K) /\ added' = next /\ iter' = stop
    BY <1>4, <1>5, <1>7
  <2> QED
    BY <2>1, <2>2, <1>1, <1>4, <1>10 DEF WalkTypes, n, K
<1>16. ChainGrows'
  BY <1>3, <1>4, Zenon DEF ChainGrows
<1>17. walk' = "walking" => ~Mismatch(stop, mmr)
  BY <1>4, <1>5
<1>18. walk' # "accepted" /\ (walk' = "refused" => Mismatch(stop, mmr))
  BY <1>1, <1>4, <1>5
<1>19. WalkDecides'
  BY <1>4, <1>14, <1>18 DEF WalkDecides, TheChains, K, at
<1> QED
  BY <1>4, <1>11, <1>13, <1>15, <1>16, <1>17, <1>19 DEF WalkInv

\* Where the first block has kernels, BuildAndValidateKernelMMR accepts the
\* kernels of a state only if they are those of the chain, however long it is
\* and whatever later blocks have none; it never refuses those of the chain.
THEOREM KernelsDecide == WalkSpec => []WalkDecides
PROOF
<1>1. WalkInv /\ [WalkNext]_sync => WalkInv'
  <2> SUFFICES ASSUME WalkInv, [WalkNext]_sync PROVE WalkInv'
    OBVIOUS
  <2>1. CASE UNCHANGED sync
    BY <2>1 DEF sync, WalkInv, WalkTypes, ChainGrows, Passed, Ahead, Valid, WalkDecides, TheChains
  <2>2. ASSUME NEW kernels \in NewKernels, Extend(kernels) PROVE WalkInv'
    BY <2>2, ExtendStep
  <2>3. ASSUME NEW at \in 1 .. MaxHeaders, NEW same \in BOOLEAN,
               NEW kernels \in Seqs!SeqOf(Kernel, MaxKernels), GiveState(at, same, kernels)
        PROVE  WalkInv'
    BY <2>3, GiveStep
  <2>4. CASE AddKernel
    BY <2>4, KernelStep
  <2>5. CASE Accept
    BY <2>5, AcceptStep
  <2>6. CASE NextState
    BY <2>6, NextStateStep
  <2> QED
    BY <2>1, <2>2, <2>3, <2>4, <2>5, <2>6 DEF WalkNext
<1>2. WalkInv => WalkDecides
  BY DEF WalkInv
<1> QED
  BY WalkBegins, <1>1, <1>2, PTL DEF WalkSpec
=============================================================================
