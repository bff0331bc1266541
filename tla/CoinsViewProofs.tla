--------------------------- MODULE CoinsViewProofs ---------------------------
(***************************************************************************)
(* Lemmas about states and views of them, for the proofs about             *)
(* ExtBlockChain and about Node: what Apply makes of a state, what a cache *)
(* shows after it was flushed into, and what blocks and undos do to the    *)
(* coins of a view.                                                        *)
(***************************************************************************)
EXTENDS CoinsView, FiniteSetTheorems, WellFoundedInduction, TLAPS

-----------------------------------------------------------------------------
(* Induction, and folds of lists and of finite sets.                       *)

\* Induction up to a bound, over a set.
LEMMA BoundedInduction ==
    ASSUME NEW n \in Nat, NEW T, 0 \in T, \A k \in 1 .. n : k - 1 \in T => k \in T
    PROVE  0 .. n \subseteq T
PROOF
<1> DEFINE R == OpToRel(<, Nat)
           U == (0 .. n) \ T
<1>1. IsWellFoundedOn(R, Nat)
  BY NatLessThanWellFounded
<1>2. SUFFICES ASSUME U # {} PROVE FALSE
  OBVIOUS
<1>3. U \subseteq Nat
  OBVIOUS
<1> HIDE DEF U, R
<1>4. PICK j \in U : \A k \in U : ~(<<k, j>> \in R)
  BY <1>1, <1>2, <1>3, WFMin
<1>5. \A k \in U : ~(k < j)
  BY <1>3, <1>4 DEF R, OpToRel
<1>6. j \in 1 .. n /\ j - 1 \in 0 .. n /\ j - 1 < j
  BY <1>4 DEF U
<1>7. j - 1 \in T
  BY <1>5, <1>6 DEF U
<1>8. j \in T
  BY <1>6, <1>7
<1> QED
  BY <1>4, <1>8 DEF U

\* The greatest of some numbers, as the module of finite sets has it, is one of
\* them.
Most(u) == CHOOSE x \in u : \A y \in u : x >= y

\* Numbers up to a bound have a greatest one.
LEMMA Greatest ==
    ASSUME NEW n \in Nat, NEW u \in SUBSET (1 .. n), u # {}
    PROVE  Most(u) \in u /\ \A x \in u : x <= Most(u)
PROOF
<1> DEFINE T == {m \in Nat : (\E x \in u : x > n - m) => \E x \in u : \A y \in u : x >= y}
<1>1. 0 \in T
  OBVIOUS
<1>2. \A k \in 1 .. n : k - 1 \in T => k \in T
  <2> SUFFICES ASSUME NEW k \in 1 .. n, k - 1 \in T, \E x \in u : x > n - k
               PROVE  \E x \in u : \A y \in u : x >= y
    OBVIOUS
  <2>1. CASE \E x \in u : x > n - (k - 1)
    BY <2>1
  <2>2. CASE ~\E x \in u : x > n - (k - 1)
    <3>1. PICK x \in u : x > n - k
      OBVIOUS
    <3>2. \A y \in u : x >= y
      BY <2>2, <3>1
    <3> QED
      BY <3>2
  <2> QED
    BY <2>1, <2>2
<1> HIDE DEF T
<1>3. n \in T
  BY <1>1, <1>2, BoundedInduction
<1>4. \E x \in u : x > n - n
  <2>1. PICK x \in u : x \in 1 .. n
    OBVIOUS
  <2>2. x > n - n
    BY <2>1
  <2> QED
    BY <2>2
<1>5. \E x \in u : \A y \in u : x >= y
  BY <1>3, <1>4 DEF T
<1> QED
  BY <1>5 DEF Most

\* The recursion over the subsets of a set that MapThenFoldSet makes, which takes
\* the elements in the order of pick, and its solutions.
Folds(W, pick, V, base, step) ==
    {g \in [SUBSET W -> V] :
        \A u \in SUBSET W :
            g[u] = IF u = {} THEN base
                   ELSE step[<<g[u \ {pick[u]}], pick[u]>>]}

\* The recursion has a solution: it is built from that for sets with one
\* element less.
LEMMA FoldExists ==
    ASSUME NEW W, IsFiniteSet(W), NEW pick,
           \A u \in SUBSET W : u # {} => pick[u] \in u,
           NEW V, NEW base \in V, NEW step \in [V \X W -> V]
    PROVE  Folds(W, pick, V, base, step) # {}
PROOF
<1> DEFINE n == Cardinality(W)
           L(k) == {u \in SUBSET W : Cardinality(u) <= k}
           Next(g, u) == IF u = {} THEN base
                         ELSE step[<<g[u \ {pick[u]}], pick[u]>>]
           G(k) == {g \in [L(k) -> V] : \A u \in L(k) : g[u] = Next(g, u)}
           T == {k \in 0 .. n : G(k) # {}}
<1>1. n \in Nat /\ \A u \in SUBSET W : Cardinality(u) \in Nat /\ Cardinality(u) <= n
  BY FS_CardinalityType, FS_Subset
<1>2. ASSUME NEW u \in SUBSET W, u # {}
      PROVE  /\ pick[u] \in W /\ u \ {pick[u]} \in SUBSET W
             /\ Cardinality(u \ {pick[u]}) = Cardinality(u) - 1
  BY <1>2, FS_RemoveElement, FS_Subset
<1> HIDE DEF n
<1>3. 0 \in T
  <2>1. \A u \in L(0) : u = {}
    BY <1>1, FS_EmptySet, FS_Subset
  <2> DEFINE g == [u \in L(0) |-> base]
  <2>2. g \in [L(0) -> V] /\ \A u \in L(0) : g[u] = Next(g, u)
    BY <2>1
  <2> HIDE DEF g, Next, L
  <2>3. g \in G(0)
    BY <2>2
  <2> HIDE DEF G
  <2> QED
    BY <1>1, <2>3
<1>4. \A k \in 1 .. n : k - 1 \in T => k \in T
  <2> SUFFICES ASSUME NEW k \in 1 .. n, G(k - 1) # {} PROVE G(k) # {}
    <3> HIDE DEF G
    <3> QED
      OBVIOUS
  <2>1. PICK g \in [L(k - 1) -> V] : \A u \in L(k - 1) : g[u] = Next(g, u)
    <3> HIDE DEF Next, L
    <3> QED
      OBVIOUS
  <2> DEFINE h == [u \in L(k) |-> Next(g, u)]
  <2>2. \A u \in L(k) : u # {} => pick[u] \in W /\ u \ {pick[u]} \in L(k - 1)
    BY <1>1, <1>2
  <2>3. \A u \in L(k) : Next(g, u) \in V
    <3> HIDE DEF L, G, T
    <3> QED
      BY <2>2
  <2>4. \A w \in L(k - 1) : w \in L(k) /\ h[w] = g[w]
    <3>1. \A w \in L(k - 1) : w \in L(k)
      BY <1>1
    <3> HIDE DEF G, Next, L
    <3> QED
      BY <2>1, <3>1
  <2>5. \A u \in L(k) : h[u] = Next(h, u)
    <3> SUFFICES ASSUME NEW u \in L(k) PROVE Next(g, u) = Next(h, u)
      BY Zenon
    <3>1. u # {} => h[u \ {pick[u]}] = g[u \ {pick[u]}]
      BY <2>2, <2>4
    <3> HIDE DEF h, G, L
    <3> QED
      BY <3>1
  <2>6. h \in [L(k) -> V]
    <3> HIDE DEF Next, G, L
    <3> QED
      BY <2>3
  <2> HIDE DEF h, Next, L
  <2> QED
    BY <2>5, <2>6
<1> HIDE DEF T
<1>5. n \in T
  BY <1>1, <1>3, <1>4, BoundedInduction
<1>6. PICK g \in [L(n) -> V] : \A u \in L(n) : g[u] = Next(g, u)
  <2> HIDE DEF Next, L
  <2> QED
    BY <1>5 DEF T
<1>7. L(n) = SUBSET W
  BY <1>1
<1> QED
  BY <1>6, <1>7 DEF Folds

\* The same over the places of a list, from the last one down, as in FoldLeft.
ListFolds(n, V, base, step) ==
    {g \in [SUBSET (1 .. n) -> V] :
        \A u \in SUBSET (1 .. n) :
            g[u] = IF u = {} THEN base
                   ELSE step[<<g[u \ {Most(u)}], Most(u)>>]}

\* There is such a function: the values for smaller sets give those for larger
\* ones.
LEMMA ListFoldExists ==
    ASSUME NEW n \in Nat, NEW V, NEW base \in V, NEW step \in [V \X (1 .. n) -> V]
    PROVE  ListFolds(n, V, base, step) # {}
PROOF
<1> DEFINE pick == [u \in SUBSET (1 .. n) |-> Most(u)]
<1>1. \A u \in SUBSET (1 .. n) : u # {} => pick[u] \in u
  BY Greatest
<1>2. IsFiniteSet(1 .. n)
  BY FS_Interval
<1>3. \A u \in SUBSET (1 .. n) : pick[u] = Most(u)
  OBVIOUS
<1> HIDE DEF pick
<1>4. Folds(1 .. n, pick, V, base, step) # {}
  BY <1>1, <1>2, FoldExists
<1> QED
  BY <1>3, <1>4 DEF Folds, ListFolds

\* The sets of places that a fold of the whole list goes through.
LEMMA Segments ==
    ASSUME NEW k \in Nat, k # 0
    PROVE  Most(1 .. k) = k /\ (1 .. k) \ {k} = 1 .. k - 1 /\ 1 .. k # {}
PROOF
<1>1. 1 .. k \in SUBSET (1 .. k) /\ k \in 1 .. k /\ 1 .. k # {}
  OBVIOUS
<1>2. Most(1 .. k) \in 1 .. k /\ \A x \in 1 .. k : x <= Most(1 .. k)
  BY <1>1, Greatest
<1> DEFINE m == Most(1 .. k)
<1> HIDE DEF m
<1>3. m \in 1 .. k /\ k <= m
  BY <1>1, <1>2 DEF m
<1>4. m = k /\ (1 .. k) \ {k} = 1 .. k - 1
  BY <1>3
<1> QED
  BY <1>1, <1>4 DEF m

\* What is known of the function that FoldLeft chooses.
Recurs(iter, n, V, base, step) ==
    /\ iter[{}] = base
    /\ \A u \in SUBSET (1 .. n) :
          u # {} /\ iter[u \ {Most(u)}] \in V =>
              iter[u] = step[<<iter[u \ {Most(u)}], Most(u)>>]

\* The values of a fold after each element of the list.
ListSteps(n, V, base, step, last) ==
    {p \in [0 .. n -> V] :
        /\ p[0] = base /\ p[n] = last
        /\ \A k \in 1 .. n : p[k] = step[<<p[k - 1], k>>]}

\* Restricted to the sets of the first numbers, it is a list of steps.
LEMMA FoldSteps ==
    ASSUME NEW n \in Nat, NEW V, NEW base \in V, NEW step \in [V \X (1 .. n) -> V],
           NEW iter, Recurs(iter, n, V, base, step)
    PROVE  ListSteps(n, V, base, step, iter[1 .. n]) # {}
PROOF
<1> DEFINE p == [k \in 0 .. n |-> iter[1 .. k]]
           T == {k \in 0 .. n : p[k] \in V}
<1>1. p[0] = base /\ p[n] = iter[1 .. n]
  <2>1. 1 .. 0 = {} /\ 0 \in 0 .. n /\ n \in 0 .. n
    OBVIOUS
  <2> QED
    BY <2>1 DEF Recurs
<1>2. \A k \in 1 .. n : p[k - 1] \in V => p[k] = step[<<p[k - 1], k>>]
  <2> SUFFICES ASSUME NEW k \in 1 .. n, iter[1 .. k - 1] \in V
               PROVE  iter[1 .. k] = step[<<iter[1 .. k - 1], k>>]
    OBVIOUS
  <2>1. k \in Nat /\ k # 0 /\ 1 .. k \in SUBSET (1 .. n)
    OBVIOUS
  <2>2. Most(1 .. k) = k /\ (1 .. k) \ {k} = 1 .. k - 1 /\ 1 .. k # {}
    BY <2>1, Segments
  <2> QED
    BY <2>1, <2>2 DEF Recurs
<1> HIDE DEF p
<1>3. 0 \in T /\ \A k \in 1 .. n : k - 1 \in T => k \in T
  <2>1. 0 \in 0 .. n /\ \A k \in 1 .. n : k - 1 \in 0 .. n /\ k \in 0 .. n
    OBVIOUS
  <2>2. 0 \in T
    BY <1>1, <2>1
  <2>3. ASSUME NEW k \in 1 .. n, k - 1 \in T PROVE k \in T
    <3>1. p[k] = step[<<p[k - 1], k>>]
      BY <1>2, <2>3
    <3> QED
      BY <2>1, <2>3, <3>1
  <2> QED
    BY <2>2, <2>3
<1> HIDE DEF T
<1>4. 0 .. n \subseteq T
  BY <1>3, BoundedInduction
<1>5. \A k \in 0 .. n : p[k] \in V
  BY <1>4 DEF T
<1>6. p \in [0 .. n -> V]
  BY <1>5 DEF p
<1>7. \A k \in 1 .. n : p[k] = step[<<p[k - 1], k>>]
  BY <1>2, <1>5
<1> QED
  BY <1>1, <1>6, <1>7 DEF ListSteps

-----------------------------------------------------------------------------
(* States.                                                                 *)

\* The lists of a body are sequences, and its outputs are in strict order.
LEMMA BodyType ==
    ASSUME NEW b \in Body
    PROVE  /\ b.ins \subseteq Commitment
           /\ b.outs \in Seq(Commitment)
           /\ b.kernels \in Seq(Kernel)
           /\ \A i, j \in DOMAIN b.outs : i # j => b.outs[i] # b.outs[j]
<1>1. \A S, n : \A l \in Lists(S, n) : l \in Seq(S)
  BY DEF Lists
<1>2. /\ b.ins \subseteq Commitment
      /\ b.outs \in Seq(Commitment)
      /\ b.kernels \in Seq(Kernel)
  BY <1>1 DEF Body
<1>3. ASSUME NEW i \in DOMAIN b.outs, NEW j \in DOMAIN b.outs, i # j
      PROVE  b.outs[i] # b.outs[j]
  <2>1. /\ i \in Nat /\ j \in Nat
        /\ b.outs[i] \in Nat /\ b.outs[j] \in Nat
    <3>1. /\ i \in Nat /\ j \in Nat
          /\ b.outs[i] \in Commitment /\ b.outs[j] \in Commitment
      BY <1>2, <1>3
    <3> QED  BY <3>1, CommitmentAssumption
  <2>2. \A p, q \in DOMAIN b.outs : p < q => b.outs[p] < b.outs[q]
    BY DEF Body
  <2>3. CASE i < j  BY <2>1, <2>2, <2>3
  <2>4. CASE j < i  BY <2>1, <2>2, <2>4
  <2> QED  BY <1>3, <2>1, <2>3, <2>4
<1> QED  BY <1>2, <1>3

\* The header of a state has the type of headers, so it is not null.
LEMMA HeaderOfType ==
    ASSUME NEW txos \in Seq(Commitment), NEW kernels \in Seq(Kernel),
           NEW unspent \in SUBSET Nat
    PROVE  /\ HeaderOf(txos, kernels, unspent) \in Header
           /\ HeaderOf(txos, kernels, unspent) # NoHeader
<1>1. (Len(txos) + ByteBits - 1) \div ByteBits \in Nat
  BY ByteAssumption
<1>2. HeaderOf(txos, kernels, unspent) \in Header
  <2> DEFINE bytes == (Len(txos) + ByteBits - 1) \div ByteBits
  <2>1. Len(txos) \in Nat /\ Len(kernels) \in Nat
    OBVIOUS
  <2>2. <<bytes, unspent>> \in Nat \X SUBSET Nat
    <3> HIDE DEF bytes
    <3>1. bytes \in Nat
      BY <1>1 DEF bytes
    <3> QED  BY <3>1, Zenon
  <2> QED  BY <2>1, <2>2 DEF HeaderOf, Header
<1>3. HeaderOf(txos, kernels, unspent).numTXOs # NoHeader.numTXOs
  BY DEF HeaderOf, NoHeader
<1> QED  BY <1>2, <1>3

\* The fields of the state after a block.
LEMMA ApplyFields ==
    ASSUME NEW s, NEW b
    PROVE  /\ Apply(s, b).txos = s.txos \o b.outs
           /\ Apply(s, b).kernels = s.kernels \o b.kernels
           /\ Apply(s, b).utxos = (s.utxos \ {Newest(s, c) : c \in b.ins})
                                      \cup Mined(b, Len(s.txos))
           /\ Apply(s, b).leafset = {u[2] : u \in Apply(s, b).utxos}
           /\ Apply(s, b).hdr = HeaderOf(Apply(s, b).txos, Apply(s, b).kernels,
                                         Apply(s, b).leafset)
BY DEF Apply, State

\* What Apply needs of a block: it makes no commitment twice.
IsBlock(b) ==
    /\ b.ins \subseteq Commitment
    /\ b.outs \in Seq(Commitment)
    /\ b.kernels \in Seq(Kernel)
    /\ \A i, j \in DOMAIN b.outs : i # j => b.outs[i] # b.outs[j]

\* The parts of such a block, for the proofs to cite.
LEMMA BlockType ==
    ASSUME NEW b, IsBlock(b)
    PROVE  /\ b.ins \subseteq Commitment
           /\ b.outs \in Seq(Commitment)
           /\ b.kernels \in Seq(Kernel)
           /\ \A i, j \in DOMAIN b.outs : i # j => b.outs[i] # b.outs[j]
  BY DEF IsBlock

\* A block maps states to states.
LEMMA AppliedType ==
    ASSUME NEW s \in StateType, NEW b, IsBlock(b)
    PROVE  /\ Apply(s, b) \in StateType
           /\ Apply(s, b).hdr \in Header
           /\ Apply(s, b).hdr # NoHeader
<1> DEFINE t == Apply(s, b)
<1>1. /\ t.txos \in Seq(Commitment)
      /\ t.kernels \in Seq(Kernel)
  <2>1. /\ s.txos \in Seq(Commitment) /\ b.outs \in Seq(Commitment)
        /\ s.kernels \in Seq(Kernel) /\ b.kernels \in Seq(Kernel)
    BY BlockType DEF StateType
  <2>2. t.txos = s.txos \o b.outs /\ t.kernels = s.kernels \o b.kernels
    BY ApplyFields
  <2> QED  BY <2>1, <2>2
<1>2. Mined(b, Len(s.txos)) \subseteq Commitment \X Nat
  <2>1. Len(s.txos) \in Nat
    BY DEF StateType
  <2>2. \A i \in DOMAIN b.outs : b.outs[i] \in Commitment /\ i \in Nat /\ i >= 1
    BY BlockType
  <2>3. \A i \in DOMAIN b.outs : Len(s.txos) + i - 1 \in Nat
    BY <2>1, <2>2
  <2> QED  BY <2>2, <2>3 DEF Mined
<1>3. t.utxos \in SUBSET (Commitment \X Nat)
  <2>1. s.utxos \in SUBSET (Commitment \X Nat)
    BY DEF StateType
  <2>2. t.utxos = (s.utxos \ {Newest(s, c) : c \in b.ins}) \cup Mined(b, Len(s.txos))
    BY ApplyFields
  <2> QED  BY <1>2, <2>1, <2>2
<1>4. t.leafset \in SUBSET Nat
  <2>1. \A u \in t.utxos : u[2] \in Nat
    BY <1>3
  <2>2. t.leafset = {u[2] : u \in t.utxos}
    BY ApplyFields
  <2> QED  BY <2>1, <2>2
<1>5. t.hdr \in Header /\ t.hdr # NoHeader
  <2>1. t.hdr = HeaderOf(t.txos, t.kernels, t.leafset)
    BY ApplyFields
  <2> HIDE DEF t
  <2> QED  BY <1>1, <1>4, <2>1, HeaderOfType
<1>6. t = [hdr |-> t.hdr, txos |-> t.txos, kernels |-> t.kernels,
           utxos |-> t.utxos, leafset |-> t.leafset]
  BY DEF Apply, State
<1> QED  BY <1>1, <1>3, <1>4, <1>5, <1>6 DEF StateType

\* So do the bodies that pass TxBody::Validate.
LEMMA ApplyType ==
    ASSUME NEW s \in StateType, NEW b \in Body
    PROVE  /\ Apply(s, b) \in StateType
           /\ Apply(s, b).hdr \in Header
           /\ Apply(s, b).hdr # NoHeader
PROOF
<1>1. IsBlock(b)
  BY BodyType DEF IsBlock
<1> QED
  BY <1>1, AppliedType

\* The coin an input spends is a coin of the state, and that of the input.
LEMMA NewestIsCoin ==
    ASSUME NEW s \in StateType, CoinsSound(s), NEW c \in Unspent(s)
    PROVE  Newest(s, c) \in s.utxos /\ Newest(s, c)[1] = c
<1>1. PICK u \in s.utxos : u[1] = c
  BY DEF Unspent
<1>2. \A w \in s.utxos : w[1] = c => w = u
  BY <1>1 DEF CoinsSound
<1>3. \E v \in s.utxos : v[1] = c /\ \A w \in s.utxos : w[1] = c => w[2] <= v[2]
  <2>1. u[2] <= u[2]
    <3>1. u \in Commitment \X Nat
      BY DEF StateType
    <3> QED  BY <3>1
  <2> QED  BY <1>1, <1>2, <2>1
<1> QED  BY <1>3 DEF Newest

\* A block that extends a sound state makes a sound state, on which it only
\* added outputs and spent coins.
LEMMA AppliedSound ==
    ASSUME NEW s \in StateType, CoinsSound(s), NEW b, IsBlock(b), Extends(s, b)
    PROVE  /\ CoinsSound(Apply(s, b))
           /\ Grows(s, Apply(s, b))
<1> DEFINE t == Apply(s, b)
           kept == s.utxos \ {Newest(s, c) : c \in b.ins}
           mined == Mined(b, Len(s.txos))
<1>1. /\ s.txos \in Seq(Commitment) /\ b.outs \in Seq(Commitment)
      /\ s.utxos \subseteq Commitment \X Nat
  BY BlockType DEF StateType
<1>2. /\ t.txos = s.txos \o b.outs
      /\ t.utxos = kept \cup mined
      /\ t.leafset = {u[2] : u \in t.utxos}
  BY ApplyFields
<1>3. ASSUME NEW u \in mined
      PROVE  \E i \in DOMAIN b.outs :
                /\ i \in Nat /\ i >= 1 /\ i <= Len(b.outs)
                /\ u = <<b.outs[i], Len(s.txos) + i - 1>>
                /\ u[1] = b.outs[i] /\ u[2] = Len(s.txos) + i - 1
  BY <1>1 DEF Mined
<1>4. \A u \in mined : u[1] \in Outs(b)
  BY <1>3 DEF Outs
<1>5. \A u \in kept : u[1] \in Unspent(s)
  BY DEF Unspent
<1> HIDE DEF t, kept, mined
<1>6. \A u \in t.utxos : u[2] < Len(t.txos) /\ t.txos[u[2] + 1] = u[1]
  <2>1. \A u \in kept : u[2] < Len(t.txos) /\ t.txos[u[2] + 1] = u[1]
    <3> TAKE u \in kept
    <3>1. u \in s.utxos /\ u[2] \in Nat
      BY <1>1 DEF kept
    <3>2. u[2] < Len(s.txos) /\ s.txos[u[2] + 1] = u[1]
      BY <3>1 DEF CoinsSound
    <3> DEFINE x == s.txos  y == b.outs  l == u[2]
    <3>3. l < Len(x \o y) /\ (x \o y)[l + 1] = x[l + 1]
      <4> HIDE DEF x, y, l
      <4>1. x \in Seq(Commitment) /\ y \in Seq(Commitment) /\ l \in Nat /\ l < Len(x)
        BY <1>1, <3>1, <3>2 DEF x, y, l
      <4> QED  BY <4>1
    <3> QED  BY <1>2, <3>2, <3>3
  <2>2. \A u \in mined : u[2] < Len(t.txos) /\ t.txos[u[2] + 1] = u[1]
    <3> TAKE u \in mined
    <3>1. PICK i \in DOMAIN b.outs :
                /\ i \in Nat /\ i >= 1 /\ i <= Len(b.outs)
                /\ u[1] = b.outs[i] /\ u[2] = Len(s.txos) + i - 1
      BY <1>3
    <3> DEFINE x == s.txos  y == b.outs
    <3>2. Len(x) + i - 1 < Len(x \o y) /\ (x \o y)[Len(x) + i - 1 + 1] = y[i]
      <4> HIDE DEF x, y
      <4>1. x \in Seq(Commitment) /\ y \in Seq(Commitment) /\ i \in 1 .. Len(y)
        BY <1>1, <3>1 DEF x, y
      <4> QED  BY <4>1
    <3> QED  BY <1>2, <3>1, <3>2
  <2> QED  BY <1>2, <2>1, <2>2
<1>7. \A u, w \in t.utxos : u[1] = w[1] => u = w
  <2> SUFFICES ASSUME NEW u \in kept \cup mined, NEW w \in kept \cup mined,
                      u[1] = w[1]
               PROVE  u = w
    BY <1>2
  <2>1. CASE u \in kept /\ w \in kept
    BY <2>1 DEF CoinsSound, kept
  <2>2. CASE u \in mined /\ w \in mined
    <3>1. PICK i \in DOMAIN b.outs :
              u = <<b.outs[i], Len(s.txos) + i - 1>> /\ u[1] = b.outs[i]
      BY <1>3, <2>2
    <3>2. PICK j \in DOMAIN b.outs :
              w = <<b.outs[j], Len(s.txos) + j - 1>> /\ w[1] = b.outs[j]
      BY <1>3, <2>2
    <3>3. i = j
      BY <3>1, <3>2, BlockType
    <3> QED  BY <3>1, <3>2, <3>3
  <2>3. \A x \in kept, y \in mined : x[1] # y[1]
    BY <1>4, <1>5 DEF Extends
  <2> QED  BY <2>1, <2>2, <2>3
<1>8. \A u \in t.utxos : u[2] < Len(s.txos) => u \in s.utxos
  <2>1. \A u \in mined : ~(u[2] < Len(s.txos))
    BY <1>1, <1>3
  <2> QED  BY <1>2, <2>1 DEF kept
<1>9. /\ Len(s.txos) <= Len(t.txos)
      /\ \A i \in DOMAIN s.txos : t.txos[i] = s.txos[i]
  <2> DEFINE x == s.txos  y == b.outs
  <2>1. Len(x) <= Len(x \o y) /\ \A i \in DOMAIN x : (x \o y)[i] = x[i]
    <3> HIDE DEF x, y
    <3>1. x \in Seq(Commitment) /\ y \in Seq(Commitment)
      BY <1>1 DEF x, y
    <3> QED  BY <3>1
  <2> QED  BY <1>2, <2>1
<1> QED  BY <1>2, <1>6, <1>7, <1>8, <1>9 DEF CoinsSound, Grows, t

\* A block on top of sound coins leaves them sound and the chain longer.
LEMMA ApplySound ==
    ASSUME NEW s \in StateType, CoinsSound(s), NEW b \in Body, Extends(s, b)
    PROVE  /\ CoinsSound(Apply(s, b))
           /\ Grows(s, Apply(s, b))
PROOF
<1>1. IsBlock(b)
  BY BodyType DEF IsBlock
<1> QED
  BY <1>1, AppliedSound

\* Growth composes.
LEMMA GrowsTransitive ==
    ASSUME NEW r \in StateType, NEW s \in StateType, NEW t \in StateType,
           Grows(r, s), Grows(s, t)
    PROVE  Grows(r, t)
<1>1. /\ r.txos \in Seq(Commitment) /\ s.txos \in Seq(Commitment)
      /\ t.txos \in Seq(Commitment)
      /\ t.utxos \subseteq Commitment \X Nat
  BY DEF StateType
<1>2. Len(r.txos) <= Len(s.txos) /\ Len(s.txos) <= Len(t.txos)
  BY DEF Grows
<1>3. \A i \in DOMAIN r.txos : i \in DOMAIN s.txos /\ t.txos[i] = r.txos[i]
  BY <1>1, <1>2 DEF Grows
<1>4. \A u \in t.utxos : u[2] < Len(r.txos) => u \in r.utxos
  <2> SUFFICES ASSUME NEW u \in t.utxos, u[2] < Len(r.txos)
               PROVE  u \in r.utxos
    OBVIOUS
  <2>1. u[2] < Len(s.txos)
    BY <1>1, <1>2
  <2>2. u \in s.utxos
    BY <2>1 DEF Grows
  <2> QED  BY <2>2 DEF Grows
<1> QED  BY <1>1, <1>2, <1>3, <1>4 DEF Grows

\* The state of the empty chain is a sound state.
LEMMA GenesisSound == Genesis \in StateType /\ CoinsSound(Genesis)
BY DEF Genesis, State, StateType, CoinsSound
-----------------------------------------------------------------------------
(* Sequences.                                                              *)

\* A prefix that ends in the second of two lists.
LEMMA PrefixOfConcat ==
    ASSUME NEW S, NEW s \in Seq(S), NEW t \in Seq(S), NEW n \in Int, n <= Len(t)
    PROVE  /\ n >= 0 => SubSeq(s \o t, 1, Len(s) + n) = s \o SubSeq(t, 1, n)
           /\ n <= 0 => SubSeq(s \o t, 1, Len(s) + n) = SubSeq(s, 1, Len(s) + n)
OBVIOUS

\* A prefix of a prefix.
LEMMA PrefixOfPrefix ==
    ASSUME NEW S, NEW s \in Seq(S), NEW m \in Int, NEW n \in Int,
           m <= Len(s), n <= m
    PROVE  SubSeq(SubSeq(s, 1, m), 1, n) = SubSeq(s, 1, n)
OBVIOUS

\* The length and the type of a prefix.
LEMMA PrefixType ==
    ASSUME NEW S, NEW s \in Seq(S), NEW n \in Int, n <= Len(s)
    PROVE  /\ SubSeq(s, 1, n) \in Seq(S)
           /\ n >= 0 => Len(SubSeq(s, 1, n)) = n
           /\ n <= 0 => SubSeq(s, 1, n) = <<>>
OBVIOUS

\* Joining lists is associative.
LEMMA ConcatAssociative ==
    \A S : \A r, s, t \in Seq(S) : (r \o s) \o t = r \o (s \o t)
OBVIOUS

\* What joining two lists gives, and joining with an empty one.
LEMMA ConcatProperties ==
    ASSUME NEW S, NEW s \in Seq(S), NEW t \in Seq(S)
    PROVE  /\ s \o t \in Seq(S)
           /\ Len(s \o t) = Len(s) + Len(t)
           /\ s \o <<>> = s /\ <<>> \o s = s
           /\ SubSeq(s, 1, Len(s)) = s
OBVIOUS
-----------------------------------------------------------------------------
(* The actions on one commitment.                                          *)

\* The parts of an update.
LEMMA UpdateFields ==
    ASSUME NEW u \in UpdateType
    PROVE  u.pops \in Nat /\ u.pushes \in Seq(Nat)
           /\ u.last \in Nat \cup {NoAction, NoCoin}
BY DEF UpdateType

\* The actions u followed by w do to the coins what u and then w do.
LEMMA ReplayThen ==
    ASSUME NEW x \in Seq(Nat), NEW u \in UpdateType, NEW w \in UpdateType,
           u.pops <= Len(x)
    PROVE  /\ Replay(x, u) \in Seq(Nat)
           /\ Len(Replay(x, u)) = Len(x) - u.pops + Len(u.pushes)
           /\ Replay(x, Then(u, w)) = Replay(Replay(x, u), w)
<1> DEFINE y == SubSeq(x, 1, Len(x) - u.pops)
           p == u.pushes
           q == w.pushes
           k == Len(p) - w.pops
<1>1. /\ p \in Seq(Nat) /\ q \in Seq(Nat)
      /\ u.pops \in Nat /\ w.pops \in Nat
  BY UpdateFields
<1>2. y \in Seq(Nat) /\ Len(y) = Len(x) - u.pops
  BY <1>1, PrefixType
<1>3. k \in Int /\ k <= Len(p)
  BY <1>1
<1>4. Replay(x, u) = y \o p
  BY DEF Replay
<1>5. y \o p \in Seq(Nat) /\ Len(y \o p) = Len(y) + Len(p)
  BY <1>1, <1>2
<1>6. Replay(Replay(x, u), w) = SubSeq(y \o p, 1, Len(y) + k) \o q
  <2>1. Len(y \o p) - w.pops = Len(y) + k
    BY <1>1, <1>2, <1>5
  <2> QED  BY <1>4, <2>1 DEF Replay
<1>7. Then(u, w).pushes = SubSeq(p, 1, k) \o q
  BY DEF Then
<1>8. CASE w.pops <= Len(p)
  <2> DEFINE z == SubSeq(p, 1, k)
  <2>1. k >= 0
    BY <1>1, <1>8
  <2>2. Replay(x, Then(u, w)) = y \o (z \o q)
    BY <1>7, <1>8 DEF Replay, Then
  <2>3. SubSeq(y \o p, 1, Len(y) + k) = y \o z
    BY <1>1, <1>2, <1>3, <2>1, PrefixOfConcat
  <2>4. z \in Seq(Nat)
    BY <1>1, <1>3, PrefixType
  <2>5. (y \o z) \o q = y \o (z \o q)
    <3> HIDE DEF y, z, q
    <3>1. \A a, b, c \in Seq(Nat) : (a \o b) \o c = a \o (b \o c)
      BY ConcatAssociative
    <3> QED  BY <1>1, <1>2, <2>4, <3>1
  <2> HIDE DEF z
  <2> QED  BY <1>2, <1>4, <1>5, <1>6, <2>2, <2>3, <2>5
<1>9. CASE w.pops > Len(p)
  <2>1. k <= 0
    BY <1>1, <1>9
  <2>2. Then(u, w).pops = u.pops + w.pops - Len(p)
    BY <1>1, <1>9 DEF Then
  <2>3. Then(u, w).pushes = q
    <3>1. SubSeq(p, 1, k) = <<>>
      BY <1>1, <1>3, <2>1, PrefixType
    <3> QED  BY <1>1, <1>7, <3>1, ConcatProperties
  <2>4. Replay(x, Then(u, w)) = SubSeq(x, 1, Len(y) + k) \o q
    <3>1. Len(x) - (u.pops + w.pops - Len(p)) = Len(y) + k
      BY <1>1, <1>2
    <3> QED  BY <2>2, <2>3, <3>1 DEF Replay
  <2>5. SubSeq(y \o p, 1, Len(y) + k) = SubSeq(y, 1, Len(y) + k)
    BY <1>1, <1>2, <1>3, <2>1, PrefixOfConcat
  <2>6. SubSeq(y, 1, Len(y) + k) = SubSeq(x, 1, Len(y) + k)
    <3>1. /\ Len(x) - u.pops \in Int /\ Len(y) + k \in Int
          /\ Len(x) - u.pops <= Len(x) /\ Len(y) + k <= Len(x) - u.pops
      BY <1>1, <1>2, <1>3, <2>1
    <3> HIDE DEF k
    <3> QED  BY <1>2, <3>1, PrefixOfPrefix
  <2> QED  BY <1>2, <1>4, <1>5, <1>6, <2>4, <2>5, <2>6
<1> QED  BY <1>1, <1>8, <1>9

\* The actions u suit the coins x of the base: they pop no more than there is,
\* and the last of them says what remains.
UpdateOK(x, u) ==
    /\ u.pops <= Len(x)
    /\ u.last = NoAction => u.pops = 0 /\ u.pushes = <<>>
    /\ u.last = NoCoin => Replay(x, u) = <<>>
    /\ u.last \in Nat => Replay(x, u) = <<u.last>>

\* One update after another is an update.
LEMMA ThenType ==
    ASSUME NEW u \in UpdateType, NEW w \in UpdateType
    PROVE  Then(u, w) \in UpdateType
<1>1. /\ u.pops \in Nat /\ u.pushes \in Seq(Nat)
      /\ u.last \in Nat \cup {NoAction, NoCoin}
      /\ w.pops \in Nat /\ w.pushes \in Seq(Nat)
      /\ w.last \in Nat \cup {NoAction, NoCoin}
  BY UpdateFields
<1> DEFINE z == SubSeq(u.pushes, 1, Len(u.pushes) - w.pops)
<1>2. z \in Seq(Nat)
  BY <1>1, PrefixType
<1>3. z \o w.pushes \in Seq(Nat)
  BY <1>1, <1>2, ConcatProperties
<1>4. (IF w.pops <= Len(u.pushes)
       THEN u.pops ELSE u.pops + w.pops - Len(u.pushes)) \in Nat
  BY <1>1
<1> QED  BY <1>1, <1>3, <1>4 DEF Then, UpdateType

\* Suitable actions followed by suitable actions are suitable.
LEMMA ThenOK ==
    ASSUME NEW x \in Seq(Nat), NEW u \in UpdateType, NEW w \in UpdateType,
           UpdateOK(x, u), UpdateOK(Replay(x, u), w)
    PROVE  UpdateOK(x, Then(u, w))
<1>1. /\ u.pops \in Nat /\ u.pushes \in Seq(Nat)
      /\ w.pops \in Nat /\ w.pushes \in Seq(Nat)
  BY UpdateFields
<1>2. u.pops <= Len(x) /\ w.pops <= Len(Replay(x, u))
  BY DEF UpdateOK
<1>3. /\ Len(Replay(x, u)) = Len(x) - u.pops + Len(u.pushes)
      /\ Replay(x, Then(u, w)) = Replay(Replay(x, u), w)
  BY <1>2, ReplayThen
<1>4. Then(u, w).pops <= Len(x)
  BY <1>1, <1>2, <1>3 DEF Then
<1>5. CASE w.last = NoAction
  <2>1. w.pops = 0 /\ w.pushes = <<>>
    BY <1>5 DEF UpdateOK
  <2>2. /\ Then(u, w).pops = u.pops
        /\ Then(u, w).last = u.last
    BY <1>1, <1>5, <2>1 DEF Then
  <2>3. Then(u, w).pushes = u.pushes
    <3>1. Then(u, w).pushes = SubSeq(u.pushes, 1, Len(u.pushes) - 0) \o <<>>
      BY <2>1 DEF Then
    <3>2. Len(u.pushes) - 0 = Len(u.pushes)
      BY <1>1
    <3> QED  BY <1>1, <3>1, <3>2, ConcatProperties
  <2> QED  BY <2>2, <2>3 DEF UpdateOK, Replay
<1>6. CASE w.last # NoAction
  <2>1. Then(u, w).last = w.last
    BY <1>6 DEF Then
  <2> QED  BY <1>3, <1>4, <1>6, <2>1 DEF UpdateOK
<1> QED  BY <1>5, <1>6

\* No action.
LEMMA NoUpdateOK ==
    ASSUME NEW x \in Seq(Nat)
    PROVE  /\ NoUpdate \in UpdateType
           /\ UpdateOK(x, NoUpdate)
           /\ Replay(x, NoUpdate) = x
<1>1. NoUpdate \in UpdateType
  BY DEF NoUpdate, UpdateType
<1>2. Replay(x, NoUpdate) = x
  <2>1. Replay(x, NoUpdate) = SubSeq(x, 1, Len(x) - 0) \o <<>>
    BY DEF Replay, NoUpdate
  <2>2. Len(x) - 0 = Len(x)
    OBVIOUS
  <2> QED  BY <2>1, <2>2, ConcatProperties
<1>3. 0 <= Len(x)
  OBVIOUS
<1> QED  BY <1>1, <1>2, <1>3 DEF UpdateOK, NoUpdate, NoAction, NoCoin

\* The spend of the only coin.
LEMMA SpendOK ==
    ASSUME NEW l \in Nat
    PROVE  /\ SpendAction(NoUpdate) \in UpdateType
           /\ UpdateOK(<<l>>, SpendAction(NoUpdate))
           /\ Replay(<<l>>, SpendAction(NoUpdate)) = <<>>
<1>1. SpendAction(NoUpdate) = [pops |-> 1, pushes |-> <<>>, last |-> NoCoin]
  BY DEF SpendAction, NoUpdate
<1>2. SpendAction(NoUpdate) \in UpdateType
  BY <1>1 DEF UpdateType
<1>3. Replay(<<l>>, SpendAction(NoUpdate)) = <<>>
  BY <1>1 DEF Replay
<1> QED  BY <1>1, <1>2, <1>3 DEF UpdateOK, NoAction, NoCoin

\* A coin added where there is none.
LEMMA AddOK ==
    ASSUME NEW l \in Nat
    PROVE  /\ AddAction(NoUpdate, l) \in UpdateType
           /\ UpdateOK(<<>>, AddAction(NoUpdate, l))
           /\ Replay(<<>>, AddAction(NoUpdate, l)) = <<l>>
<1>1. AddAction(NoUpdate, l) = [pops |-> 0, pushes |-> <<l>>, last |-> l]
  BY DEF AddAction, NoUpdate
<1>2. AddAction(NoUpdate, l) \in UpdateType
  BY <1>1 DEF UpdateType
<1>3. Replay(<<>>, AddAction(NoUpdate, l)) = <<l>>
  <2>1. Replay(<<>>, AddAction(NoUpdate, l)) = SubSeq(<<>>, 1, Len(<<>>) - 0) \o <<l>>
    BY <1>1 DEF Replay
  <2>2. SubSeq(<<>>, 1, Len(<<>>) - 0) = <<>>
    OBVIOUS
  <2>3. <<l>> \in Seq(Nat)
    OBVIOUS
  <2> QED  BY <2>1, <2>2, <2>3, ConcatProperties
<1> QED  BY <1>1, <1>2, <1>3 DEF UpdateOK, NoAction, NoCoin
-----------------------------------------------------------------------------
(* Leafsets and MMRs.                                                      *)

\* Flushed leafset caches show what the upper one showed.
LEMMA LeafSetFlushView ==
    ASSUME NEW l, NEW w, NEW base
    PROVE  LeafSetView(LeafSetFlush(l, w), base)
               = LeafSetView(w, LeafSetView(l, base))
BY DEF LeafSetView, LeafSetFlush

\* A leafset cache without bits past its end is written as it is seen.
LEMMA LeafSetWriteView ==
    ASSUME NEW w \in [on : SUBSET Nat, off : SUBSET Nat, next : Nat],
           NEW file \in [bits : SUBSET Nat, next : Nat],
           LeafSetView(w, file).bits \subseteq 0 .. w.next - 1
    PROVE  LeafSetWrite(file, w) = LeafSetView(w, file)
<1> DEFINE B == (file.bits \ w.off) \cup w.on
           n == w.next
           m == file.next
<1>1. n \in Nat /\ m \in Nat /\ B \subseteq 0 .. n - 1
  BY DEF LeafSetView
<1>2. /\ LeafSetView(w, file) = [bits |-> B, next |-> n]
      /\ LeafSetWrite(file, w) = [bits |-> B \ (n .. m - 1), next |-> n]
  BY DEF LeafSetView, LeafSetWrite
<1> HIDE DEF B, n, m
<1>3. B \ (n .. m - 1) = B
  BY <1>1
<1> QED  BY <1>2, <1>3

\* A block added to a new leafset cache: the leaves spent are cleared, those
\* of the outputs are set, and the end moves behind them.
LEMMA LeafSetOfBlock ==
    ASSUME NEW base \in [bits : SUBSET Nat, next : Nat], NEW spent \in SUBSET Nat,
           NEW m \in Nat
    PROVE  LeafSetView(LeafSetAdd(LeafSetRemove(LeafSetCache(base), spent),
                                  base.next, m), base)
               = [bits |-> (base.bits \ spent) \cup (base.next .. base.next + m - 1),
                  next |-> base.next + m]
<1> DEFINE n == base.next
           new == n .. n + m - 1
           l == LeafSetAdd(LeafSetRemove(LeafSetCache(base), spent), n, m)
<1>1. n \in Nat /\ base.bits \subseteq Nat
  OBVIOUS
<1>2. l.on = {} \cup new /\ l.off = ({} \cup spent) \ new
  BY DEF LeafSetAdd, LeafSetRemove, LeafSetCache
<1>3. l.next = n + m
  BY <1>1 DEF LeafSetAdd, LeafSetRemove, LeafSetCache
<1>4. LeafSetView(l, base) = [bits |-> (base.bits \ l.off) \cup l.on, next |-> l.next]
  BY DEF LeafSetView
<1> HIDE DEF l, new
<1>5. (base.bits \ l.off) \cup l.on = (base.bits \ spent) \cup new
  BY <1>2
<1> QED  BY <1>3, <1>4, <1>5 DEF l, new

\* A new leafset cache, rewound: the leaves given come back, those behind the
\* new end go.
LEMMA LeafSetOfUndo ==
    ASSUME NEW base \in [bits : SUBSET Nat, next : Nat], NEW n \in Nat,
           NEW back \in SUBSET Nat
    PROVE  LeafSetView(LeafSetRewind(LeafSetCache(base), n, back), base)
               = [bits |-> (base.bits \cup back) \ (n .. base.next - 1), next |-> n]
<1> DEFINE past == n .. base.next - 1
           l == LeafSetRewind(LeafSetCache(base), n, back)
<1>1. /\ l.on = ({} \cup back) \ past /\ l.off = ({} \ back) \cup past
      /\ l.next = n
  BY DEF LeafSetRewind, LeafSetCache
<1>2. LeafSetView(l, base) = [bits |-> (base.bits \ l.off) \cup l.on, next |-> l.next]
  BY DEF LeafSetView
<1> HIDE DEF l, past
<1>3. (base.bits \ l.off) \cup l.on = (base.bits \cup back) \ past
  BY <1>1
<1> QED  BY <1>1, <1>2, <1>3 DEF l, past

\* The leaves of a cache over a base that is long enough.
LEMMA LeavesType ==
    ASSUME NEW S, NEW m \in [first : Nat, leaves : Seq(S)], NEW base \in Seq(S),
           m.first <= Len(base)
    PROVE  /\ Leaves(m, base) \in Seq(S)
           /\ Len(Leaves(m, base)) = NumLeaves(m)
<1>1. m.first \in Nat /\ m.leaves \in Seq(S)
  OBVIOUS
<1>2. /\ SubSeq(base, 1, m.first) \in Seq(S)
      /\ Len(SubSeq(base, 1, m.first)) = m.first
  BY <1>1, PrefixType
<1> QED  BY <1>1, <1>2, ConcatProperties DEF Leaves, NumLeaves

\* Flushed MMR caches show what the upper one showed.
LEMMA MMRFlushLeaves ==
    ASSUME NEW S, NEW j \in [first : Nat, leaves : Seq(S)],
           NEW w \in [first : Nat, leaves : Seq(S)], NEW base \in Seq(S),
           j.first <= Len(base), w.first <= NumLeaves(j)
    PROVE  /\ MMRBatchWrite(j, w) \in [first : Nat, leaves : Seq(S)]
           /\ MMRBatchWrite(j, w).first <= Len(base)
           /\ Leaves(MMRBatchWrite(j, w), base) = Leaves(w, Leaves(j, base))
<1> DEFINE y == SubSeq(base, 1, j.first)
           p == j.leaves
           q == w.leaves
           n == w.first
           k == n - j.first
<1>1. /\ j.first \in Nat /\ p \in Seq(S)
      /\ n \in Nat /\ q \in Seq(S)
  OBVIOUS
<1>2. y \in Seq(S) /\ Len(y) = j.first
  BY <1>1, PrefixType
<1>3. k \in Int /\ k <= Len(p) /\ Len(y) + k = n
  BY <1>1, <1>2 DEF NumLeaves
<1>4. Leaves(w, Leaves(j, base)) = SubSeq(y \o p, 1, n) \o q
  BY DEF Leaves
<1>5. CASE n <= j.first
  <2>1. MMRBatchWrite(j, w) = [first |-> n, leaves |-> <<>> \o q]
    BY <1>5 DEF MMRBatchWrite, MMRRewind, MMRAdd
  <2>2. <<>> \o q = q
    BY <1>1, ConcatProperties
  <2>3. SubSeq(y \o p, 1, n) = SubSeq(base, 1, n)
    <3>1. k <= 0
      BY <1>1, <1>5
    <3>2. SubSeq(y \o p, 1, Len(y) + k) = SubSeq(y, 1, Len(y) + k)
      BY <1>1, <1>2, <1>3, <3>1, PrefixOfConcat
    <3>3. SubSeq(y, 1, n) = SubSeq(base, 1, n)
      BY <1>1, <1>5, PrefixOfPrefix
    <3> QED  BY <1>3, <3>2, <3>3
  <2>4. Leaves([first |-> n, leaves |-> q], base) = SubSeq(base, 1, n) \o q
    BY DEF Leaves
  <2> QED  BY <1>1, <1>4, <1>5, <2>1, <2>2, <2>3, <2>4
<1>6. CASE n > j.first
  <2> DEFINE r == SubSeq(p, 1, k)
  <2>1. r \in Seq(S)
    BY <1>1, <1>3, PrefixType
  <2>2. (IF n < NumLeaves(j) THEN SubSeq(p, 1, n - j.first) ELSE p) = r
    <3>1. CASE n < NumLeaves(j)
      BY <3>1
    <3>2. CASE ~(n < NumLeaves(j))
      <4>1. k = Len(p)
        BY <1>1, <3>2 DEF NumLeaves
      <4> QED  BY <1>1, <3>2, <4>1, ConcatProperties
    <3> QED  BY <3>1, <3>2
  <2>3. MMRBatchWrite(j, w) = [first |-> j.first, leaves |-> r \o q]
    <3>1. ~(n <= j.first)
      BY <1>1, <1>6
    <3>2. MMRRewind(j, n) = [first |-> j.first, leaves |-> r]
      BY <2>2, <3>1 DEF MMRRewind
    <3> QED  BY <3>2 DEF MMRBatchWrite, MMRAdd
  <2>4. SubSeq(y \o p, 1, n) = y \o r
    <3>1. k >= 0
      BY <1>1, <1>6
    <3>2. SubSeq(y \o p, 1, Len(y) + k) = y \o SubSeq(p, 1, k)
      <4> HIDE DEF y, p, k
      <4> QED  BY <1>1, <1>2, <1>3, <3>1, PrefixOfConcat
    <3>3. Len(y) + k = n
      BY <1>3
    <3> HIDE DEF y, p, k, n
    <3> QED  BY <3>2, <3>3
  <2>5. (y \o r) \o q = y \o (r \o q)
    <3> HIDE DEF y, r, q
    <3>1. \A a, b, c \in Seq(S) : (a \o b) \o c = a \o (b \o c)
      OBVIOUS
    <3> QED  BY <1>1, <1>2, <2>1, <3>1
  <2>6. r \o q \in Seq(S)
    BY <1>1, <2>1, ConcatProperties
  <2>7. Leaves([first |-> j.first, leaves |-> r \o q], base) = y \o (r \o q)
    BY DEF Leaves
  <2>8. Leaves(MMRBatchWrite(j, w), base) = y \o (r \o q)
    BY <2>3, <2>7
  <2>9. Leaves(w, Leaves(j, base)) = y \o (r \o q)
    <3> HIDE DEF y, r, q, p, n
    <3> QED  BY <1>4, <2>4, <2>5
  <2>10. /\ MMRBatchWrite(j, w) \in [first : Nat, leaves : Seq(S)]
         /\ MMRBatchWrite(j, w).first <= Len(base)
    <3> HIDE DEF r, q
    <3> QED  BY <1>1, <2>3, <2>6
  <2> QED  BY <2>8, <2>9, <2>10
<1> QED  BY <1>1, <1>5, <1>6

\* The hash file has the length of the MMR, and its leaves if the flush
\* replaced none.
LEMMA HashFileLength ==
    ASSUME NEW S, NEW w \in [first : Nat, leaves : Seq(S)], NEW file \in Seq(S),
           w.first <= Len(file)
    PROVE  /\ HashFileWrite(file, w) \in Seq(S)
           /\ Len(HashFileWrite(file, w)) = NumLeaves(w)
           /\ (w.leaves = <<>> \/ w.first = Len(file))
                 => HashFileWrite(file, w) = Leaves(w, file)
<1>1. w.first \in Nat /\ w.leaves \in Seq(S)
  OBVIOUS
<1> DEFINE q == w.leaves
           n == w.first
<1>2. CASE q = <<>>
  <2>1. HashFileWrite(file, w) = SubSeq(file, 1, n)
    BY <1>2 DEF HashFileWrite
  <2>2. SubSeq(file, 1, n) \in Seq(S) /\ Len(SubSeq(file, 1, n)) = n
    BY <1>1, PrefixType
  <2>3. NumLeaves(w) = n
    BY <1>1, <1>2 DEF NumLeaves
  <2>4. Leaves(w, file) = SubSeq(file, 1, n)
    BY <1>2, <2>2, ConcatProperties DEF Leaves
  <2> QED  BY <2>1, <2>2, <2>3, <2>4
<1>3. CASE q # <<>>
  <2>1. HashFileWrite(file, w) = SubSeq(file \o q, 1, n + Len(q))
    BY <1>3 DEF HashFileWrite
  <2>2. file \o q \in Seq(S) /\ Len(file \o q) = Len(file) + Len(q)
    BY <1>1, ConcatProperties
  <2>3. /\ SubSeq(file \o q, 1, n + Len(q)) \in Seq(S)
        /\ Len(SubSeq(file \o q, 1, n + Len(q))) = n + Len(q)
    <3>1. n + Len(q) \in Nat /\ n + Len(q) <= Len(file \o q)
      BY <1>1, <2>2
    <3> QED  BY <2>2, <3>1, PrefixType
  <2>4. ASSUME n = Len(file)
        PROVE  HashFileWrite(file, w) = Leaves(w, file)
    <3>1. SubSeq(file \o q, 1, n + Len(q)) = file \o q
      BY <2>2, <2>4, ConcatProperties
    <3>2. SubSeq(file, 1, n) = file
      BY <2>4, ConcatProperties
    <3> QED  BY <2>1, <3>1, <3>2 DEF Leaves
  <2> QED  BY <1>3, <2>1, <2>3, <2>4 DEF NumLeaves
<1> QED  BY <1>2, <1>3
-----------------------------------------------------------------------------
(* Views.                                                                  *)

\* The cache k fits the view v of its base: its MMRs rest on leaves that the
\* base has, and its actions on coins that the base has.
FitsMMRs(k, v) ==
    /\ k.kern.first <= Len(v.kern)
    /\ k.outs.first <= Len(v.outs)

Fits(k, v) ==
    /\ FitsMMRs(k, v)
    /\ \A c \in Commitment : UpdateOK(v.coins[c], k.upd[c])

\* An update takes a list of leaf indices to another.
LEMMA ReplayType ==
    ASSUME NEW x \in Seq(Nat), NEW u \in UpdateType
    PROVE  Replay(x, u) \in Seq(Nat)
<1>1. u.pops \in Nat /\ u.pushes \in Seq(Nat)
  BY UpdateFields
<1> DEFINE y == SubSeq(x, 1, Len(x) - u.pops)
<1>2. y \in Seq(Nat)
  BY <1>1, PrefixType
<1>3. y \o u.pushes \in Seq(Nat)
  BY <1>1, <1>2, ConcatProperties
<1> QED  BY <1>3 DEF Replay

\* A cache over a view that fits its MMRs shows a view with as many leaves as
\* the cache counts.
LEMMA ViewOfType ==
    ASSUME NEW v \in ViewType, NEW k \in CacheType, FitsMMRs(k, v)
    PROVE  /\ ViewOf(k, v) \in ViewType
           /\ Len(ViewOf(k, v).kern) = NumLeaves(k.kern)
           /\ Len(ViewOf(k, v).outs) = NumLeaves(k.outs)
<1> DEFINE w == ViewOf(k, v)
<1>1. /\ k.kern \in [first : Nat, leaves : Seq(Kernel)] /\ v.kern \in Seq(Kernel)
      /\ k.outs \in [first : Nat, leaves : Seq(Commitment)]
      /\ v.outs \in Seq(Commitment)
      /\ k.kern.first <= Len(v.kern) /\ k.outs.first <= Len(v.outs)
  BY DEF ViewType, CacheType, FitsMMRs
<1>2. /\ w.kern \in Seq(Kernel) /\ Len(w.kern) = NumLeaves(k.kern)
      /\ w.outs \in Seq(Commitment) /\ Len(w.outs) = NumLeaves(k.outs)
  BY <1>1, LeavesType DEF ViewOf
<1>3. w.coins \in [Commitment -> Seq(Nat)]
  <2> SUFFICES ASSUME NEW c \in Commitment PROVE Replay(v.coins[c], k.upd[c]) \in Seq(Nat)
    BY DEF ViewOf
  <2>1. v.coins[c] \in Seq(Nat) /\ k.upd[c] \in UpdateType
    BY DEF ViewType, CacheType
  <2> QED  BY <2>1, ReplayType
<1>4. w.leafset \in [bits : SUBSET Nat, next : Nat]
  <2>1. /\ k.leafset \in [on : SUBSET Nat, off : SUBSET Nat, next : Nat]
        /\ v.leafset \in [bits : SUBSET Nat, next : Nat]
    BY DEF ViewType, CacheType
  <2> QED  BY <2>1 DEF ViewOf, LeafSetView
<1>5. w.hdr \in Header \cup {NoHeader}
  BY DEF ViewOf, CacheType
<1>6. w = [hdr |-> w.hdr, coins |-> w.coins, leafset |-> w.leafset,
           kern |-> w.kern, outs |-> w.outs]
  BY DEF ViewOf
<1> HIDE DEF w
<1>7. w \in ViewType
  BY <1>2, <1>3, <1>4, <1>5, <1>6 DEF ViewType
<1> QED  BY <1>2, <1>7 DEF w

\* The type of a cache that was flushed into.
LEMMA FlushType ==
    ASSUME NEW v \in ViewType, NEW j \in CacheType, NEW k \in CacheType,
           FitsMMRs(j, v), FitsMMRs(k, ViewOf(j, v))
    PROVE  /\ FlushToCache(j, k) \in CacheType
           /\ FitsMMRs(FlushToCache(j, k), v)
           /\ Leaves(FlushToCache(j, k).kern, v.kern) = ViewOf(k, ViewOf(j, v)).kern
           /\ Leaves(FlushToCache(j, k).outs, v.outs) = ViewOf(k, ViewOf(j, v)).outs
<1> DEFINE f == FlushToCache(j, k)
           w == ViewOf(j, v)
<1>1. /\ f.hdr = k.hdr
      /\ f.upd = [c \in Commitment |-> Then(j.upd[c], k.upd[c])]
      /\ f.leafset = LeafSetFlush(j.leafset, k.leafset)
      /\ f.kern = MMRBatchWrite(j.kern, k.kern)
      /\ f.outs = MMRBatchWrite(j.outs, k.outs)
      /\ f = [hdr |-> f.hdr, upd |-> f.upd, leafset |-> f.leafset,
              kern |-> f.kern, outs |-> f.outs]
  BY DEF FlushToCache
<1>2. /\ Len(w.kern) = NumLeaves(j.kern)
      /\ Len(w.outs) = NumLeaves(j.outs)
  BY ViewOfType
<1>3. /\ w.kern = Leaves(j.kern, v.kern)
      /\ w.outs = Leaves(j.outs, v.outs)
      /\ ViewOf(k, w).kern = Leaves(k.kern, w.kern)
      /\ ViewOf(k, w).outs = Leaves(k.outs, w.outs)
  BY DEF ViewOf
<1> HIDE DEF f
<1>4. ASSUME NEW c \in Commitment PROVE f.upd[c] \in UpdateType
  <2>1. j.upd[c] \in UpdateType /\ k.upd[c] \in UpdateType
    BY DEF CacheType
  <2>2. f.upd[c] = Then(j.upd[c], k.upd[c])
    BY <1>1
  <2> QED  BY <2>1, <2>2, ThenType
<1>5. /\ f.kern \in [first : Nat, leaves : Seq(Kernel)]
      /\ f.kern.first <= Len(v.kern)
      /\ Leaves(f.kern, v.kern) = Leaves(k.kern, w.kern)
  <2>1. /\ j.kern \in [first : Nat, leaves : Seq(Kernel)]
        /\ k.kern \in [first : Nat, leaves : Seq(Kernel)]
        /\ v.kern \in Seq(Kernel)
        /\ j.kern.first <= Len(v.kern) /\ k.kern.first <= NumLeaves(j.kern)
    BY <1>2 DEF ViewType, CacheType, FitsMMRs
  <2> QED  BY <1>1, <1>3, <2>1, MMRFlushLeaves
<1>6. /\ f.outs \in [first : Nat, leaves : Seq(Commitment)]
      /\ f.outs.first <= Len(v.outs)
      /\ Leaves(f.outs, v.outs) = Leaves(k.outs, w.outs)
  <2>1. /\ j.outs \in [first : Nat, leaves : Seq(Commitment)]
        /\ k.outs \in [first : Nat, leaves : Seq(Commitment)]
        /\ v.outs \in Seq(Commitment)
        /\ j.outs.first <= Len(v.outs) /\ k.outs.first <= NumLeaves(j.outs)
    BY <1>2 DEF ViewType, CacheType, FitsMMRs
  <2> QED  BY <1>1, <1>3, <2>1, MMRFlushLeaves
<1>7. f.leafset \in [on : SUBSET Nat, off : SUBSET Nat, next : Nat]
  <2>1. /\ j.leafset \in [on : SUBSET Nat, off : SUBSET Nat, next : Nat]
        /\ k.leafset \in [on : SUBSET Nat, off : SUBSET Nat, next : Nat]
    BY DEF CacheType
  <2> QED  BY <1>1, <2>1 DEF LeafSetFlush
<1>8. f \in CacheType
  <2>1. f.hdr \in Header \cup {NoHeader}
    BY <1>1 DEF CacheType
  <2>2. f.upd \in [Commitment -> UpdateType]
    BY <1>1, <1>4
  <2> QED  BY <1>1, <1>5, <1>6, <1>7, <2>1, <2>2 DEF CacheType
<1>9. FitsMMRs(f, v)
  BY <1>5, <1>6 DEF FitsMMRs
<1> QED  BY <1>3, <1>5, <1>6, <1>8, <1>9 DEF f

\* A cache that was flushed into shows what the flushed one showed.
LEMMA FlushView ==
    ASSUME NEW v \in ViewType, NEW j \in CacheType, NEW k \in CacheType,
           Fits(j, v), Fits(k, ViewOf(j, v))
    PROVE  /\ FlushToCache(j, k) \in CacheType
           /\ Fits(FlushToCache(j, k), v)
           /\ ViewOf(FlushToCache(j, k), v) = ViewOf(k, ViewOf(j, v))
<1> DEFINE f == FlushToCache(j, k)
           w == ViewOf(j, v)
<1>1. /\ f \in CacheType
      /\ FitsMMRs(f, v)
      /\ Leaves(f.kern, v.kern) = ViewOf(k, w).kern
      /\ Leaves(f.outs, v.outs) = ViewOf(k, w).outs
  BY FlushType DEF Fits
<1>2. /\ f.hdr = k.hdr
      /\ f.upd = [c \in Commitment |-> Then(j.upd[c], k.upd[c])]
      /\ f.leafset = LeafSetFlush(j.leafset, k.leafset)
  BY DEF FlushToCache
<1>3. /\ w.coins = [c \in Commitment |-> Replay(v.coins[c], j.upd[c])]
      /\ w.leafset = LeafSetView(j.leafset, v.leafset)
  BY DEF ViewOf
<1> HIDE DEF f, w
<1>4. ASSUME NEW c \in Commitment
      PROVE  /\ UpdateOK(v.coins[c], f.upd[c])
             /\ Replay(v.coins[c], f.upd[c]) = Replay(w.coins[c], k.upd[c])
  <2>1. /\ v.coins[c] \in Seq(Nat)
        /\ j.upd[c] \in UpdateType /\ k.upd[c] \in UpdateType
    BY DEF ViewType, CacheType
  <2>2. /\ UpdateOK(v.coins[c], j.upd[c])
        /\ UpdateOK(Replay(v.coins[c], j.upd[c]), k.upd[c])
    BY <1>3 DEF Fits, w
  <2>3. f.upd[c] = Then(j.upd[c], k.upd[c])
    BY <1>2
  <2>4. j.upd[c].pops <= Len(v.coins[c])
    BY <2>2 DEF UpdateOK
  <2> QED  BY <1>3, <2>1, <2>2, <2>3, <2>4, ThenOK, ReplayThen
<1>5. Fits(f, v)
  BY <1>1, <1>4 DEF Fits
<1>6. ViewOf(f, v) = ViewOf(k, w)
  <2>1. LeafSetView(f.leafset, v.leafset) = LeafSetView(k.leafset, w.leafset)
    BY <1>2, <1>3, LeafSetFlushView
  <2>2. [c \in Commitment |-> Replay(v.coins[c], f.upd[c])]
            = [c \in Commitment |-> Replay(w.coins[c], k.upd[c])]
    BY <1>4
  <2>3. ViewOf(k, w) = [hdr |-> k.hdr,
                        coins |-> [c \in Commitment |-> Replay(w.coins[c], k.upd[c])],
                        leafset |-> LeafSetView(k.leafset, w.leafset),
                        kern |-> ViewOf(k, w).kern, outs |-> ViewOf(k, w).outs]
    BY DEF ViewOf
  <2>4. ViewOf(f, v) = [hdr |-> f.hdr,
                        coins |-> [c \in Commitment |-> Replay(v.coins[c], f.upd[c])],
                        leafset |-> LeafSetView(f.leafset, v.leafset),
                        kern |-> Leaves(f.kern, v.kern),
                        outs |-> Leaves(f.outs, v.outs)]
    BY DEF ViewOf
  <2> QED  BY <1>1, <1>2, <2>1, <2>2, <2>3, <2>4
<1> QED  BY <1>1, <1>5, <1>6 DEF f, w

\* A new cache shows its base.
LEMMA NewCacheView ==
    ASSUME NEW v \in ViewType
    PROVE  /\ NewCache(v) \in CacheType
           /\ Fits(NewCache(v), v)
           /\ ViewOf(NewCache(v), v) = v
<1> DEFINE k == NewCache(v)
<1>1. /\ v.kern \in Seq(Kernel) /\ v.outs \in Seq(Commitment)
      /\ v.leafset \in [bits : SUBSET Nat, next : Nat]
      /\ v.hdr \in Header \cup {NoHeader}
      /\ v.coins \in [Commitment -> Seq(Nat)]
      /\ v = [hdr |-> v.hdr, coins |-> v.coins, leafset |-> v.leafset,
              kern |-> v.kern, outs |-> v.outs]
  BY DEF ViewType
<1>2. \A c \in Commitment :
          /\ NoUpdate \in UpdateType
          /\ UpdateOK(v.coins[c], NoUpdate)
          /\ Replay(v.coins[c], NoUpdate) = v.coins[c]
  BY <1>1, NoUpdateOK
<1>3. NoUpdate \in UpdateType
  BY DEF NoUpdate, UpdateType
<1>4. k \in CacheType
  BY <1>1, <1>3 DEF NewCache, CacheType, MMRCache, LeafSetCache
<1>5. Fits(k, v)
  BY <1>1, <1>2 DEF NewCache, Fits, FitsMMRs, MMRCache
<1>6. /\ Leaves(MMRCache(v.kern), v.kern) = v.kern
      /\ Leaves(MMRCache(v.outs), v.outs) = v.outs
  BY <1>1, ConcatProperties DEF MMRCache, Leaves
<1>7. LeafSetView(LeafSetCache(v.leafset), v.leafset) = v.leafset
  <2>1. v.leafset = [bits |-> v.leafset.bits, next |-> v.leafset.next]
    BY <1>1
  <2> QED  BY <2>1 DEF LeafSetView, LeafSetCache
<1>8. [c \in Commitment |-> Replay(v.coins[c], NoUpdate)] = v.coins
  BY <1>1, <1>2
<1>9. ViewOf(k, v) = [hdr |-> v.hdr, coins |-> v.coins, leafset |-> v.leafset,
                      kern |-> v.kern, outs |-> v.outs]
  BY <1>6, <1>7, <1>8 DEF ViewOf, NewCache
<1> QED  BY <1>1, <1>4, <1>5, <1>9
-----------------------------------------------------------------------------
(* The database.                                                           *)

\* The database shows a view of its own MMRs and leafset.
LEMMA DBViewOfType ==
    ASSUME NEW d \in DBType
    PROVE  /\ DBView(d) \in ViewType
           /\ DBView(d).kern = d.kern /\ DBView(d).outs = d.outs
           /\ DBView(d).leafset = d.leafset
<1>1. \A c \in Commitment :
          (IF d.coins[c] = NoCoin THEN <<>> ELSE <<d.coins[c]>>) \in Seq(Nat)
  BY DEF DBType
<1>2. DBView(d) \in ViewType
  BY <1>1 DEF DBView, DBType, ViewType
<1> QED  BY <1>2 DEF DBView

\* A flush into the database throws nothing and keeps every coin and leaf of
\* the view, and the MMRs too if it replaces no leaf of them.
LEMMA FlushDB ==
    ASSUME NEW d \in DBType, NEW k \in CacheType, Fits(k, DBView(d)),
           NEW v, v = ViewOf(k, DBView(d)),
           v.leafset.bits \subseteq 0 .. v.leafset.next - 1
    PROVE  /\ ~WriteBatchThrows(d, k)
           /\ FlushToDB(d, k) \in DBType
           /\ DBView(FlushToDB(d, k)).hdr = v.hdr
           /\ DBView(FlushToDB(d, k)).coins = v.coins
           /\ DBView(FlushToDB(d, k)).leafset = v.leafset
           /\ Len(DBView(FlushToDB(d, k)).kern) = NumLeaves(k.kern)
           /\ Len(DBView(FlushToDB(d, k)).outs) = NumLeaves(k.outs)
           /\ (k.kern.leaves = <<>> \/ k.kern.first = Len(d.kern))
                 => DBView(FlushToDB(d, k)).kern = v.kern
           /\ (k.outs.leaves = <<>> \/ k.outs.first = Len(d.outs))
                 => DBView(FlushToDB(d, k)).outs = v.outs
<1> DEFINE b == DBView(d)
           e == FlushToDB(d, k)
<1>1. /\ b \in ViewType
      /\ b.kern = d.kern /\ b.outs = d.outs /\ b.leafset = d.leafset
      /\ \A c \in Commitment :
            b.coins[c] = IF d.coins[c] = NoCoin THEN <<>> ELSE <<d.coins[c]>>
  BY DBViewOfType DEF DBView
<1>2. /\ v.hdr = k.hdr
      /\ \A c \in Commitment : v.coins[c] = Replay(b.coins[c], k.upd[c])
      /\ v.leafset = LeafSetView(k.leafset, b.leafset)
      /\ v.kern = Leaves(k.kern, b.kern)
      /\ v.outs = Leaves(k.outs, b.outs)
      /\ v.coins = [c \in Commitment |-> v.coins[c]]
  BY DEF ViewOf
<1>3. /\ e.hdr = k.hdr
      /\ e.coins = WriteUpdates(d.coins, k.upd)
      /\ e.leafset = LeafSetWrite(d.leafset, k.leafset)
      /\ e.kern = HashFileWrite(d.kern, k.kern)
      /\ e.outs = HashFileWrite(d.outs, k.outs)
      /\ e = [hdr |-> e.hdr, coins |-> e.coins, leafset |-> e.leafset,
              kern |-> e.kern, outs |-> e.outs]
  BY DEF FlushToDB
<1> HIDE DEF b, e
<1>4. \A c \in Commitment :
          /\ b.coins[c] \in Seq(Nat)
          /\ k.upd[c] \in UpdateType
          /\ d.coins[c] \in Nat \cup {NoCoin}
          /\ UpdateOK(b.coins[c], k.upd[c])
  BY <1>1 DEF ViewType, CacheType, DBType, Fits, b
<1>5. ~WriteBatchThrows(d, k)
  <2> SUFFICES ASSUME NEW c \in Commitment, d.coins[c] = NoCoin
               PROVE  ~(k.upd[c].pops > 0)
    BY DEF WriteBatchThrows
  <2>1. b.coins[c] = <<>>
    BY <1>1
  <2>2. k.upd[c].pops <= 0
    BY <1>4, <2>1 DEF UpdateOK
  <2>3. k.upd[c].pops \in Nat
    BY <1>4, UpdateFields
  <2> QED  BY <2>2, <2>3
<1>6. ASSUME NEW c \in Commitment
      PROVE  /\ e.coins[c] \in Nat \cup {NoCoin}
             /\ (IF e.coins[c] = NoCoin THEN <<>> ELSE <<e.coins[c]>>) = v.coins[c]
  <2>1. e.coins[c] = IF k.upd[c].last = NoAction THEN d.coins[c] ELSE k.upd[c].last
    BY <1>3 DEF WriteUpdates
  <2>2. k.upd[c].last \in Nat \cup {NoAction, NoCoin}
    BY <1>4, UpdateFields
  <2>3. CASE k.upd[c].last = NoAction
    <3>1. k.upd[c].pops = 0 /\ k.upd[c].pushes = <<>>
      BY <1>4, <2>3 DEF UpdateOK
    <3>2. v.coins[c] = b.coins[c]
      <4>1. v.coins[c] = Replay(b.coins[c], NoUpdate)
        BY <1>2, <3>1 DEF Replay, NoUpdate
      <4> QED  BY <1>4, <4>1, NoUpdateOK
    <3> QED  BY <1>1, <1>4, <2>1, <2>3, <3>2
  <2>4. CASE k.upd[c].last = NoCoin
    <3>1. v.coins[c] = <<>>
      BY <1>2, <1>4, <2>4 DEF UpdateOK
    <3> QED  BY <2>1, <2>4, <3>1 DEF NoAction, NoCoin
  <2>5. CASE k.upd[c].last \in Nat
    <3>1. v.coins[c] = <<k.upd[c].last>>
      BY <1>2, <1>4, <2>5 DEF UpdateOK
    <3> QED  BY <2>1, <2>5, <3>1 DEF NoAction, NoCoin
  <2> QED  BY <2>2, <2>3, <2>4, <2>5
<1>7. /\ k.leafset \in [on : SUBSET Nat, off : SUBSET Nat, next : Nat]
      /\ d.leafset \in [bits : SUBSET Nat, next : Nat]
  BY DEF CacheType, DBType
<1>8. e.leafset = v.leafset
  <2>1. LeafSetView(k.leafset, d.leafset).bits \subseteq 0 .. k.leafset.next - 1
    <3>1. v.leafset = LeafSetView(k.leafset, d.leafset)
      BY <1>1, <1>2
    <3>2. v.leafset.next = k.leafset.next
      BY <3>1 DEF LeafSetView
    <3> QED  BY <3>1, <3>2
  <2>2. LeafSetWrite(d.leafset, k.leafset) = LeafSetView(k.leafset, d.leafset)
    BY <1>7, <2>1, LeafSetWriteView
  <2> QED  BY <1>1, <1>2, <1>3, <2>2
<1>9. /\ k.kern \in [first : Nat, leaves : Seq(Kernel)] /\ d.kern \in Seq(Kernel)
      /\ k.outs \in [first : Nat, leaves : Seq(Commitment)]
      /\ d.outs \in Seq(Commitment)
      /\ k.kern.first <= Len(d.kern) /\ k.outs.first <= Len(d.outs)
  BY <1>1 DEF DBType, CacheType, Fits, FitsMMRs, b
<1>10. /\ e.kern \in Seq(Kernel) /\ Len(e.kern) = NumLeaves(k.kern)
       /\ e.outs \in Seq(Commitment) /\ Len(e.outs) = NumLeaves(k.outs)
       /\ (k.kern.leaves = <<>> \/ k.kern.first = Len(d.kern)) => e.kern = v.kern
       /\ (k.outs.leaves = <<>> \/ k.outs.first = Len(d.outs)) => e.outs = v.outs
  BY <1>1, <1>2, <1>3, <1>9, HashFileLength
<1>11. e \in DBType
  <2>1. e.coins \in [Commitment -> Nat \cup {NoCoin}]
    BY <1>3, <1>6 DEF WriteUpdates
  <2>2. e.leafset \in [bits : SUBSET Nat, next : Nat]
    BY <1>1, <1>2, <1>7, <1>8 DEF LeafSetView
  <2>3. e.hdr \in Header \cup {NoHeader}
    BY <1>3 DEF CacheType
  <2> QED  BY <1>3, <1>10, <2>1, <2>2, <2>3 DEF DBType
<1>12. /\ DBView(e).hdr = v.hdr /\ DBView(e).leafset = v.leafset
       /\ DBView(e).kern = e.kern /\ DBView(e).outs = e.outs
  BY <1>2, <1>3, <1>8 DEF DBView
<1>13. DBView(e).coins = v.coins
  <2>1. DBView(e).coins = [c \in Commitment |->
            IF e.coins[c] = NoCoin THEN <<>> ELSE <<e.coins[c]>>]
    BY DEF DBView
  <2> QED  BY <1>2, <1>6, <2>1
<1> QED  BY <1>5, <1>10, <1>11, <1>12, <1>13 DEF e

\* The flushed cache shows the database.
LEMMA FlushedView ==
    ASSUME NEW k \in CacheType, NEW v \in ViewType, v.hdr = k.hdr,
           v.leafset.next = k.leafset.next,
           Len(v.kern) = NumLeaves(k.kern), Len(v.outs) = NumLeaves(k.outs)
    PROVE  /\ Flushed(k) \in CacheType
           /\ Fits(Flushed(k), v)
           /\ ViewOf(Flushed(k), v) = v
<1>1. Flushed(k) = NewCache(v)
  BY DEF Flushed, NewCache, MMRCache, LeafSetCache
<1> QED  BY <1>1, NewCacheView
=============================================================================
