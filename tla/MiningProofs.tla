---------------------------- MODULE MiningProofs ----------------------------
(***************************************************************************)
(* Blocks made of any transactions, over any commitments, kernels and      *)
(* requests: that a built block connects only where it was built, that the *)
(* sums of the blocks are those of the state, that conflicts between       *)
(* transactions are caught, and that what is built of others connects.     *)
(***************************************************************************)
EXTENDS Mining, CoinsViewProofs

-----------------------------------------------------------------------------
(* Sums over finite sets.                                                  *)

\* Induction over the subsets of a finite set, one element at a time.
LEMMA SetInduction ==
    ASSUME NEW W, IsFiniteSet(W), NEW T, {} \in T,
           \A u \in SUBSET W, x \in W : u \in T /\ x \notin u => u \cup {x} \in T
    PROVE  SUBSET W \subseteq T
PROOF
<1> DEFINE n == Cardinality(W)
           N == {k \in 0 .. n : \A u \in SUBSET W : Cardinality(u) = k => u \in T}
<1>1. n \in Nat /\ \A u \in SUBSET W : IsFiniteSet(u) /\ Cardinality(u) \in 0 .. n
  BY FS_CardinalityType, FS_Subset
<1> HIDE DEF n
<1>2. 0 \in N
  BY <1>1, FS_EmptySet
<1>3. \A k \in 1 .. n : k - 1 \in N => k \in N
  <2> SUFFICES ASSUME NEW k \in 1 .. n, k - 1 \in N,
                      NEW u \in SUBSET W, Cardinality(u) = k
               PROVE  u \in T
    BY <1>1
  <2>1. PICK x \in u : TRUE
    BY <1>1, FS_EmptySet
  <2>2. Cardinality(u \ {x}) = k - 1
    BY <1>1, <2>1, FS_RemoveElement
  <2>3. u \ {x} \in T
    BY <2>2
  <2>4. (u \ {x}) \cup {x} \in T
    BY <2>1, <2>3
  <2>5. (u \ {x}) \cup {x} = u
    BY <2>1
  <2> QED
    BY <2>4, <2>5
<1> HIDE DEF N
<1>4. 0 .. n \subseteq N
  BY <1>1, <1>2, <1>3, BoundedInduction
<1> QED
  BY <1>1, <1>4 DEF N

\* The element that a sum over a set takes first.
AnyOf(u) == CHOOSE x \in u : TRUE

\* The functions that sum f over the subsets of W as SumFunctionOnSet does.
Sums(f, W, sum) ==
    {g \in [SUBSET W -> Int] :
        /\ g[W] = sum
        /\ \A u \in SUBSET W :
              g[u] = IF u = {} THEN 0 ELSE f[AnyOf(u)] + g[u \ {AnyOf(u)}]}

\* The community sum is the last of such a function.
LEMMA SumsExist ==
    ASSUME NEW W, IsFiniteSet(W), NEW f, \A x \in W : f[x] \in Int
    PROVE  Sums(f, W, SumFunctionOnSet(f, W)) # {}
PROOF
<1> DEFINE Rest(i, u) == IF u = {} THEN 0 ELSE f[AnyOf(u)] + i[u \ {AnyOf(u)}]
           iter == CHOOSE i : i = [u \in SUBSET W |-> Rest(i, u)]
           pick == [u \in SUBSET W |-> AnyOf(u)]
           step == [z \in Int \X W |-> f[z[2]] + z[1]]
<1>1. SumFunctionOnSet(f, W) = iter[W]
  BY DEF SumFunctionOnSet, FoldFunctionOnSet, MapThenFoldSet, AnyOf
<1>2. \A u \in SUBSET W : u # {} => pick[u] = AnyOf(u) /\ pick[u] \in u
  BY DEF AnyOf
<1>3. 0 \in Int /\ step \in [Int \X W -> Int]
  OBVIOUS
<1> HIDE DEF pick, iter
<1>4. PICK g \in [SUBSET W -> Int] :
          \A u \in SUBSET W :
              g[u] = IF u = {} THEN 0 ELSE step[<<g[u \ {pick[u]}], pick[u]>>]
  <2> HIDE DEF step, Rest
  <2>1. Folds(W, pick, Int, 0, step) # {}
    BY <1>2, <1>3, FoldExists
  <2> QED
    BY <2>1 DEF Folds
<1>5. \A u \in SUBSET W : g[u] = Rest(g, u)
  <2> SUFFICES ASSUME NEW u \in SUBSET W, u # {}
               PROVE  g[u] = f[AnyOf(u)] + g[u \ {AnyOf(u)}]
    BY <1>4
  <2>1. pick[u] = AnyOf(u) /\ pick[u] \in W /\ g[u \ {pick[u]}] \in Int
    BY <1>2
  <2>2. g[u] = step[<<g[u \ {pick[u]}], pick[u]>>]
    BY <1>4
  <2> QED
    BY <2>1, <2>2
<1>6. g = [u \in SUBSET W |-> Rest(g, u)]
  <2> HIDE DEF Rest
  <2> QED
    BY <1>5
<1>7. iter = [u \in SUBSET W |-> Rest(iter, u)]
  <2> HIDE DEF Rest
  <2> QED
    BY <1>6 DEF iter
<1>8. \A u \in SUBSET W : iter[u] = Rest(iter, u)
  <2> HIDE DEF Rest
  <2> QED
    BY <1>7
<1> DEFINE n == Cardinality(W)
           N == {k \in 0 .. n : \A u \in SUBSET W : Cardinality(u) = k => iter[u] = g[u]}
<1>9. n \in Nat /\ \A u \in SUBSET W : IsFiniteSet(u) /\ Cardinality(u) \in 0 .. n
  BY FS_CardinalityType, FS_Subset
<1> HIDE DEF n
<1>10. 0 \in N
  <2>1. iter[{}] = 0 /\ g[{}] = 0
    BY <1>5, <1>8
  <2> QED
    BY <1>9, <2>1, FS_EmptySet
<1>11. \A k \in 1 .. n : k - 1 \in N => k \in N
  <2> SUFFICES ASSUME NEW k \in 1 .. n, k - 1 \in N,
                      NEW u \in SUBSET W, Cardinality(u) = k
               PROVE  iter[u] = g[u]
    BY <1>9
  <2>1. u # {}
    BY <1>9, FS_EmptySet
  <2>2. AnyOf(u) \in u
    BY <2>1 DEF AnyOf
  <2>3. Cardinality(u \ {AnyOf(u)}) = k - 1
    BY <1>9, <2>2, FS_RemoveElement
  <2>4. iter[u \ {AnyOf(u)}] = g[u \ {AnyOf(u)}]
    BY <2>3
  <2> QED
    BY <1>5, <1>8, <2>1, <2>4
<1> HIDE DEF N
<1>12. 0 .. n \subseteq N
  BY <1>9, <1>10, <1>11, BoundedInduction
<1>13. iter[W] = g[W]
  BY <1>9, <1>12 DEF N
<1>14. g \in Sums(f, W, SumFunctionOnSet(f, W))
  BY <1>1, <1>5, <1>13 DEF Sums
<1> QED
  BY <1>14

\* The order does not matter: any element may be taken first.
Removes(f, W, g) == \A u \in SUBSET W : \A x \in u : g[u] = f[x] + g[u \ {x}]

\* Proved by induction on the number of elements: two elements can be taken in either order.
LEMMA SumsRemove ==
    ASSUME NEW W, IsFiniteSet(W), NEW f, \A x \in W : f[x] \in Int,
           NEW sum, NEW g \in Sums(f, W, sum)
    PROVE  Removes(f, W, g)
PROOF
<1> DEFINE n == Cardinality(W)
           N == {k \in 0 .. n : \A u \in SUBSET W :
                    Cardinality(u) = k => \A x \in u : g[u] = f[x] + g[u \ {x}]}
<1>1. n \in Nat /\ \A u \in SUBSET W : IsFiniteSet(u) /\ Cardinality(u) \in 0 .. n
  BY FS_CardinalityType, FS_Subset
<1>2. /\ g \in [SUBSET W -> Int]
      /\ \A u \in SUBSET W : u # {} => g[u] = f[AnyOf(u)] + g[u \ {AnyOf(u)}]
  BY DEF Sums
<1> HIDE DEF n
<1>3. 0 \in N
  BY <1>1, FS_EmptySet
<1>4. \A k \in 1 .. n : k - 1 \in N => k \in N
  <2> SUFFICES ASSUME NEW k \in 1 .. n, k - 1 \in N,
                      NEW u \in SUBSET W, Cardinality(u) = k, NEW x \in u
               PROVE  g[u] = f[x] + g[u \ {x}]
    BY <1>1
  <2> DEFINE c == AnyOf(u)
  <2>1. c \in u /\ g[u] = f[c] + g[u \ {c}]
    BY <1>2 DEF AnyOf
  <2> HIDE DEF c
  <2>2. CASE x = c
    BY <2>1, <2>2
  <2>3. CASE x # c
    <3>1. Cardinality(u \ {c}) = k - 1 /\ Cardinality(u \ {x}) = k - 1
      BY <1>1, <2>1, FS_RemoveElement
    <3>2. u \ {c} \in SUBSET W /\ u \ {x} \in SUBSET W /\ x \in u \ {c} /\ c \in u \ {x}
      BY <2>1, <2>3
    <3>3. g[u \ {c}] = f[x] + g[(u \ {c}) \ {x}]
      BY <3>1, <3>2
    <3>4. g[u \ {x}] = f[c] + g[(u \ {x}) \ {c}]
      BY <3>1, <3>2
    <3>5. (u \ {x}) \ {c} = (u \ {c}) \ {x} /\ (u \ {c}) \ {x} \in SUBSET W
      OBVIOUS
    <3>6. f[x] \in Int /\ f[c] \in Int /\ g[(u \ {c}) \ {x}] \in Int
      BY <1>2, <2>1, <3>5
    <3> DEFINE rest == g[(u \ {c}) \ {x}]
    <3> HIDE DEF N
    <3>7. \A i, j, l \in Int : i + (j + l) = j + (i + l)
      OBVIOUS
    <3>8. f[c] + (f[x] + rest) = f[x] + (f[c] + rest)
      BY <3>6, <3>7
    <3> QED
      BY <2>1, <3>3, <3>4, <3>5, <3>8, Zenon
  <2> QED
    BY <2>2, <2>3
<1> HIDE DEF N
<1>5. 0 .. n \subseteq N
  BY <1>1, <1>3, <1>4, BoundedInduction
<1> QED
  BY <1>1, <1>5 DEF N, Removes

\* So sums of the same values agree, on which set the functions may be.
LEMMA SumsAgree ==
    ASSUME NEW W, IsFiniteSet(W), NEW U \in SUBSET W, NEW f, NEW h,
           \A x \in W : f[x] \in Int, \A x \in U : h[x] = f[x],
           NEW sum, NEW total,
           NEW g \in Sums(f, W, sum), NEW k \in Sums(h, U, total)
    PROVE  k[U] = g[U]
PROOF
<1> DEFINE T == {u \in SUBSET U : k[u] = g[u]}
<1>1. IsFiniteSet(U) /\ \A x \in U : h[x] \in Int
  BY FS_Subset
<1>2. Removes(f, W, g)
  BY SumsRemove
<1>3. Removes(h, U, k)
  BY <1>1, SumsRemove
<1>4. {} \in T
  BY DEF Sums
<1>5. \A u \in SUBSET U, x \in U : u \in T /\ x \notin u => u \cup {x} \in T
  <2> SUFFICES ASSUME NEW u \in SUBSET U, NEW x \in U, x \notin u, k[u] = g[u]
               PROVE  k[u \cup {x}] = g[u \cup {x}]
    OBVIOUS
  <2>1. (u \cup {x}) \ {x} = u /\ u \cup {x} \in SUBSET U /\ x \in u \cup {x}
    OBVIOUS
  <2>2. k[u \cup {x}] = h[x] + k[u]
    BY <1>3, <2>1 DEF Removes
  <2>3. g[u \cup {x}] = f[x] + g[u]
    BY <1>2, <2>1 DEF Removes
  <2> QED
    BY <2>2, <2>3
<1> HIDE DEF T
<1>6. SUBSET U \subseteq T
  BY <1>1, <1>4, <1>5, SetInduction
<1> QED
  BY <1>6 DEF T

\* A sum over no element, its type, and the sum with one element more.
LEMMA SumEmpty == ASSUME NEW f PROVE SumFunctionOnSet(f, {}) = 0
PROOF
<1>1. IsFiniteSet({}) /\ \A x \in {} : f[x] \in Int
  BY FS_EmptySet
<1>2. PICK g : g \in Sums(f, {}, SumFunctionOnSet(f, {}))
  BY <1>1, SumsExist
<1> QED
  BY <1>2 DEF Sums

\* A finite sum of integers is an integer.
LEMMA SumType ==
    ASSUME NEW W, IsFiniteSet(W), NEW f, \A x \in W : f[x] \in Int
    PROVE  SumFunctionOnSet(f, W) \in Int
PROOF
<1>1. PICK g : g \in Sums(f, W, SumFunctionOnSet(f, W))
  BY SumsExist
<1> QED
  BY <1>1 DEF Sums

\* Of equal integers it is the same.
LEMMA SumSame ==
    ASSUME NEW W, IsFiniteSet(W), NEW f, NEW h,
           \A x \in W : f[x] \in Int /\ h[x] = f[x]
    PROVE  SumFunctionOnSet(h, W) = SumFunctionOnSet(f, W)
PROOF
<1>1. PICK g : g \in Sums(f, W, SumFunctionOnSet(f, W))
  BY SumsExist
<1>2. PICK k : k \in Sums(h, W, SumFunctionOnSet(h, W))
  BY SumsExist
<1>3. W \in SUBSET W /\ (\A x \in W : f[x] \in Int) /\ (\A x \in W : h[x] = f[x])
  OBVIOUS
<1>4. k[W] = g[W]
  BY <1>1, <1>2, <1>3, SumsAgree
<1> QED
  BY <1>1, <1>2, <1>4 DEF Sums

\* It grows by what is added.
LEMMA SumAdd ==
    ASSUME NEW W, IsFiniteSet(W), NEW f, NEW x, x \notin W,
           \A y \in W \cup {x} : f[y] \in Int
    PROVE  SumFunctionOnSet(f, W \cup {x}) = f[x] + SumFunctionOnSet(f, W)
PROOF
<1> DEFINE U == W \cup {x}
<1>1. IsFiniteSet(U) /\ W \in SUBSET U /\ x \in U /\ U \ {x} = W /\ U \in SUBSET U
  BY FS_AddElement
<1>2. (\A y \in U : f[y] \in Int) /\ (\A y \in W : f[y] \in Int) /\ (\A y \in W : f[y] = f[y])
  OBVIOUS
<1> HIDE DEF U
<1>3. PICK g : g \in Sums(f, U, SumFunctionOnSet(f, U))
  BY <1>1, <1>2, SumsExist
<1>4. PICK k : k \in Sums(f, W, SumFunctionOnSet(f, W))
  BY <1>2, SumsExist
<1>5. k[W] = g[W]
  BY <1>1, <1>2, <1>3, <1>4, SumsAgree
<1>6. g[U] = f[x] + g[U \ {x}]
  BY <1>1, <1>2, <1>3, SumsRemove DEF Removes
<1>7. SumFunctionOnSet(f, U) = f[x] + SumFunctionOnSet(f, W)
  BY <1>1, <1>3, <1>4, <1>5, <1>6 DEF Sums
<1> QED
  BY <1>7 DEF U

\* Of two sets with nothing in common.
LEMMA SumSplit ==
    ASSUME NEW A, NEW B, IsFiniteSet(A), IsFiniteSet(B), A \cap B = {},
           NEW f, \A x \in A \cup B : f[x] \in Int
    PROVE  /\ SumFunctionOnSet(f, A) \in Int /\ SumFunctionOnSet(f, B) \in Int
           /\ SumFunctionOnSet(f, A \cup B) =
                  SumFunctionOnSet(f, A) + SumFunctionOnSet(f, B)
PROOF
<1> DEFINE a == SumFunctionOnSet(f, A)
           s(u) == SumFunctionOnSet(f, u)
           T == {u \in SUBSET B : SumFunctionOnSet(f, A \cup u) = a + s(u)}
<1>1. a \in Int
  BY SumType
<1>2. {} \in T
  <2>1. A \cup {} = A /\ s({}) = 0
    BY SumEmpty
  <2> HIDE DEF s
  <2>2. a = a + 0
    BY <1>1
  <2> QED
    BY <2>1, <2>2
<1>3. \A u \in SUBSET B, x \in B : u \in T /\ x \notin u => u \cup {x} \in T
  <2> SUFFICES ASSUME NEW u \in SUBSET B, NEW x \in B, x \notin u,
                      SumFunctionOnSet(f, A \cup u) = a + s(u)
               PROVE  SumFunctionOnSet(f, A \cup (u \cup {x})) = a + s(u \cup {x})
    OBVIOUS
  <2> HIDE DEF a, T
  <2>1. IsFiniteSet(u) /\ IsFiniteSet(A \cup u) /\ x \notin A \cup u
    BY FS_Subset, FS_Union
  <2>2. f[x] \in Int /\ (\A y \in u \cup {x} : f[y] \in Int)
    OBVIOUS
  <2>3. s(u \cup {x}) = f[x] + s(u)
    BY <2>1, <2>2, SumAdd
  <2>4. \A y \in (A \cup u) \cup {x} : f[y] \in Int
    OBVIOUS
  <2>5. SumFunctionOnSet(f, (A \cup u) \cup {x}) = f[x] + SumFunctionOnSet(f, A \cup u)
    BY <2>1, <2>4, SumAdd
  <2>6. (A \cup u) \cup {x} = A \cup (u \cup {x})
    OBVIOUS
  <2>7. s(u) \in Int
    BY <2>1, SumType
  <2> HIDE DEF s
  <2>8. \A i, j, k \in Int : i + (j + k) = j + (i + k)
    OBVIOUS
  <2>9. f[x] + (a + s(u)) = a + (f[x] + s(u))
    BY <1>1, <2>2, <2>7, <2>8
  <2> QED
    BY <2>3, <2>5, <2>6, <2>9, Zenon
<1> HIDE DEF T
<1>4. SUBSET B \subseteq T
  <2> HIDE DEF a, s
  <2> QED
    BY <1>2, <1>3, SetInduction
<1>5. s(B) \in Int
  BY SumType
<1> QED
  BY <1>1, <1>4, <1>5 DEF T

\* b pairs the elements of W with those of U.
OneToOne(b, W, U) ==
    /\ \A x \in W : b[x] \in U
    /\ \A x, y \in W : b[x] = b[y] => x = y
    /\ \A z \in U : \E x \in W : b[x] = z

\* The values of f are those of h at their partners.
Matches(f, W, h, b) == \A x \in W : f[x] \in Int /\ h[b[x]] = f[x]

\* Of the same values, one for one.
LEMMA SumReindex ==
    ASSUME NEW W, IsFiniteSet(W), NEW U, NEW b, OneToOne(b, W, U),
           NEW f, NEW h, Matches(f, W, h, b)
    PROVE  /\ IsFiniteSet(U)
           /\ SumFunctionOnSet(h, U) = SumFunctionOnSet(f, W)
PROOF
<1> DEFINE M(u) == {b[x] : x \in u}
           s(u) == SumFunctionOnSet(f, u)
           m(u) == SumFunctionOnSet(h, M(u))
           T == {u \in SUBSET W : IsFiniteSet(M(u)) /\ m(u) = s(u)}
<1>1. {} \in T
  <2>1. M({}) = {} /\ m({}) = 0 /\ s({}) = 0
    <3>1. M({}) = {}
      OBVIOUS
    <3> QED
      BY <3>1, SumEmpty
  <2> HIDE DEF M, m, s
  <2> QED
    BY <2>1, FS_EmptySet
<1>2. \A u \in SUBSET W, x \in W : u \in T /\ x \notin u => u \cup {x} \in T
  <2> SUFFICES ASSUME NEW u \in SUBSET W, NEW x \in W, x \notin u,
                      IsFiniteSet(M(u)), m(u) = s(u)
               PROVE  IsFiniteSet(M(u \cup {x})) /\ m(u \cup {x}) = s(u \cup {x})
    <3> HIDE DEF M, m, s
    <3> QED
      OBVIOUS
  <2>1. M(u \cup {x}) = M(u) \cup {b[x]}
    OBVIOUS
  <2>2. b[x] \notin M(u)
    BY DEF OneToOne
  <2>3. \A y \in M(u) \cup {b[x]} : h[y] \in Int
    BY DEF Matches
  <2>4. \A y \in u \cup {x} : f[y] \in Int
    BY DEF Matches
  <2> HIDE DEF M, T
  <2>5. IsFiniteSet(u)
    BY FS_Subset
  <2>6. SumFunctionOnSet(h, M(u) \cup {b[x]}) = h[b[x]] + SumFunctionOnSet(h, M(u))
    BY <2>2, <2>3, SumAdd
  <2>7. s(u \cup {x}) = f[x] + s(u)
    BY <2>4, <2>5, SumAdd
  <2>8. h[b[x]] = f[x]
    BY DEF Matches
  <2>9. m(u \cup {x}) = SumFunctionOnSet(h, M(u) \cup {b[x]})
    BY <2>1
  <2>10. IsFiniteSet(M(u) \cup {b[x]})
    BY FS_AddElement
  <2>11. m(u \cup {x}) = s(u \cup {x})
    <3>1. m(u) = SumFunctionOnSet(h, M(u))
      OBVIOUS
    <3> HIDE DEF s, m
    <3> QED
      BY <2>6, <2>7, <2>8, <2>9, <3>1, Zenon
  <2> QED
    BY <2>1, <2>10, <2>11, Zenon
<1> HIDE DEF T
<1>3. W \in T
  BY <1>1, <1>2, SetInduction
<1>4. M(W) = U
  BY DEF OneToOne
<1> HIDE DEF M
<1> QED
  BY <1>3, <1>4 DEF T

\* Of amounts, and of losses.
LEMMA SumSign ==
    ASSUME NEW W, IsFiniteSet(W), NEW f, \A x \in W : f[x] \in Int
    PROVE  /\ (\A x \in W : f[x] >= 0) => SumFunctionOnSet(f, W) >= 0
           /\ (\A x \in W : f[x] <= 0) => SumFunctionOnSet(f, W) <= 0
PROOF
<1> DEFINE s(u) == SumFunctionOnSet(f, u)
           T == {u \in SUBSET W : /\ (\A x \in W : f[x] >= 0) => s(u) >= 0
                                  /\ (\A x \in W : f[x] <= 0) => s(u) <= 0}
<1>1. {} \in T
  <2>1. s({}) = 0
    BY SumEmpty
  <2> HIDE DEF s
  <2> QED
    BY <2>1
<1>2. \A u \in SUBSET W, x \in W : u \in T /\ x \notin u => u \cup {x} \in T
  <2> SUFFICES ASSUME NEW u \in SUBSET W, NEW x \in W, x \notin u, u \in T
               PROVE  u \cup {x} \in T
    OBVIOUS
  <2>1. IsFiniteSet(u) /\ (\A y \in u \cup {x} : f[y] \in Int) /\ f[x] \in Int
    BY FS_Subset
  <2>2. s(u \cup {x}) = f[x] + s(u) /\ s(u) \in Int
    <3>1. s(u) \in Int
      BY <2>1, SumType
    <3> QED
      BY <2>1, <3>1, SumAdd
  <2> HIDE DEF s
  <2> QED
    BY <2>1, <2>2
<1> HIDE DEF T
<1>3. W \in T
  BY <1>1, <1>2, SetInduction
<1> QED
  BY <1>3 DEF T

-----------------------------------------------------------------------------
(* Lists: their sums, and what sorting makes of them.                      *)

\* The sum of two lists of integers.
LEMMA SumConcat ==
    ASSUME NEW s \in Seq(Int), NEW t \in Seq(Int)
    PROVE  /\ SumFunction(s) \in Int /\ SumFunction(t) \in Int
           /\ SumFunction(s \o t) = SumFunction(s) + SumFunction(t)
PROOF
<1> DEFINE m == Len(s)
           n == Len(t)
           A == 1 .. m
           B == {i + m : i \in 1 .. n}
           b == [i \in 1 .. n |-> i + m]
           st == s \o t
<1>1. m \in Nat /\ n \in Nat /\ DOMAIN s = 1 .. m /\ DOMAIN t = 1 .. n
  OBVIOUS
<1>2. DOMAIN st = 1 .. m + n
  OBVIOUS
<1>3. (\A i \in 1 .. m : s[i] \in Int /\ st[i] = s[i])
      /\ (\A i \in 1 .. n : t[i] \in Int /\ st[i + m] = t[i])
  OBVIOUS
<1> HIDE DEF m, n, st
<1>4. A \cup B = 1 .. m + n /\ A \cap B = {}
  <2>1. ASSUME NEW i \in 1 .. m + n, i \notin A PROVE i \in B
    <3>1. i - m \in 1 .. n /\ i = (i - m) + m
      BY <1>1, <2>1
    <3> QED
      BY <3>1
  <2>2. ASSUME NEW i \in B PROVE i \in 1 .. m + n /\ i \notin A
    <3>1. PICK j \in 1 .. n : i = j + m
      BY <2>2
    <3> QED
      BY <1>1, <3>1
  <2>3. A \subseteq 1 .. m + n
    BY <1>1
  <2> HIDE DEF A, B
  <2> QED
    BY <2>1, <2>2, <2>3
<1>5. IsFiniteSet(A) /\ IsFiniteSet(1 .. n)
  BY <1>1, FS_Interval
<1>6. OneToOne(b, 1 .. n, B)
  BY <1>1 DEF OneToOne
<1>7. Matches(t, 1 .. n, st, b)
  BY <1>3 DEF Matches
<1> HIDE DEF b
<1>9. IsFiniteSet(B) /\ SumFunctionOnSet(st, B) = SumFunctionOnSet(t, 1 .. n)
  <2> HIDE DEF B
  <2> QED
    BY <1>5, <1>6, <1>7, SumReindex
<1>10. SumFunctionOnSet(st, A) = SumFunctionOnSet(s, A)
  BY <1>3, <1>5, SumSame
<1>11. \A x \in A \cup B : st[x] \in Int
  BY <1>3
<1> HIDE DEF A, B
<1>12. /\ SumFunctionOnSet(st, A) \in Int /\ SumFunctionOnSet(st, B) \in Int
       /\ SumFunctionOnSet(st, A \cup B) =
              SumFunctionOnSet(st, A) + SumFunctionOnSet(st, B)
  BY <1>4, <1>5, <1>9, <1>11, SumSplit
<1>13. /\ SumFunction(st) = SumFunctionOnSet(st, A \cup B)
       /\ SumFunction(s) = SumFunctionOnSet(s, A)
       /\ SumFunction(t) = SumFunctionOnSet(t, 1 .. n)
  BY <1>1, <1>2, <1>4 DEF SumFunction, A
<1>14. SumFunction(st) = SumFunction(s) + SumFunction(t)
       /\ SumFunction(s) \in Int /\ SumFunction(t) \in Int
  BY <1>9, <1>10, <1>12, <1>13
<1> QED
  BY <1>14 DEF st

\* List t has the elements of s, in another order.
Rearranges(t, s) ==
    \E p : OneToOne(p, DOMAIN s, DOMAIN s) /\ t = [i \in DOMAIN s |-> s[p[i]]]

\* The sum does not see the order.
LEMMA SumRearranged ==
    ASSUME NEW s \in Seq(Int), NEW t, Rearranges(t, s)
    PROVE  SumFunction(t) = SumFunction(s)
PROOF
<1> DEFINE n == Len(s)
<1>1. n \in Nat /\ DOMAIN s = 1 .. n /\ \A i \in 1 .. n : s[i] \in Int
  OBVIOUS
<1> HIDE DEF n
<1>2. PICK p : OneToOne(p, 1 .. n, 1 .. n) /\ t = [i \in 1 .. n |-> s[p[i]]]
  BY <1>1 DEF Rearranges
<1>3. Matches(t, 1 .. n, s, p)
  BY <1>1, <1>2 DEF OneToOne, Matches
<1>4. IsFiniteSet(1 .. n)
  BY <1>1, FS_Interval
<1>5. SumFunctionOnSet(s, 1 .. n) = SumFunctionOnSet(t, 1 .. n)
  BY <1>2, <1>3, <1>4, SumReindex
<1>6. DOMAIN t = 1 .. n
  BY <1>2
<1> QED
  BY <1>1, <1>5, <1>6 DEF SumFunction

\* A total order of the places up to n, as pairs.
IsOrder(R, n) ==
    /\ \A i, j \in 1 .. n : <<i, j>> \in R \/ <<j, i>> \in R
    /\ \A i, j \in 1 .. n : <<i, j>> \in R /\ <<j, i>> \in R => i = j
    /\ \A i, j, k \in 1 .. n : <<i, j>> \in R /\ <<j, k>> \in R => <<i, k>> \in R

RankOf(n, R) == [i \in 1 .. n |-> Cardinality({j \in 1 .. n : <<j, i>> \in R})]

Numbers(rank, n, R) ==
    /\ rank \in [1 .. n -> 1 .. n]
    /\ \A i, j \in 1 .. n : i # j /\ <<i, j>> \in R => rank[i] < rank[j]
    /\ \A i, j \in 1 .. n : rank[i] = rank[j] => i = j
    /\ \A m \in 1 .. n : \E i \in 1 .. n : rank[i] = m

\* Counting the places that come no later numbers the places from 1 to n.
LEMMA Ranks ==
    ASSUME NEW n \in Nat, NEW R, IsOrder(R, n), NEW rank, rank = RankOf(n, R)
    PROVE  Numbers(rank, n, R)
PROOF
<1> DEFINE D == 1 .. n
           up(i) == {j \in D : <<j, i>> \in R}
<1>1. IsFiniteSet(D) /\ Cardinality(D) = n
  BY FS_Interval
<1>2. \A i \in D : i \in up(i) /\ up(i) \in SUBSET D /\ rank[i] = Cardinality(up(i))
  BY DEF IsOrder, RankOf
<1>3. \A i \in D : IsFiniteSet(up(i)) /\ Cardinality(up(i)) \in 1 .. n
  <2> SUFFICES ASSUME NEW i \in D
               PROVE  IsFiniteSet(up(i)) /\ Cardinality(up(i)) \in 1 .. n
    OBVIOUS
  <2>1. i \in up(i) /\ up(i) \in SUBSET D
    BY <1>2
  <2> HIDE DEF up, D
  <2>2. IsFiniteSet(up(i)) /\ Cardinality(up(i)) <= n
    BY <1>1, <2>1, FS_Subset
  <2>3. Cardinality(up(i)) \in Nat /\ Cardinality(up(i)) # 0
    BY <2>1, <2>2, FS_CardinalityType, FS_EmptySet
  <2> QED
    BY <2>2, <2>3
<1>4. rank \in [D -> D]
  <2>1. \A i \in D : rank[i] \in D
    BY <1>2, <1>3
  <2> QED
    BY <2>1 DEF RankOf
<1>5. ASSUME NEW i \in D, NEW j \in D, i # j, <<i, j>> \in R
      PROVE  rank[i] < rank[j]
  <2>1. up(i) \in SUBSET up(j) /\ j \in up(j) /\ j \notin up(i)
    BY <1>2, <1>5 DEF IsOrder
  <2>2. IsFiniteSet(up(i)) /\ Cardinality(up(i)) \in 1 .. n
    BY <1>3
  <2>3. IsFiniteSet(up(j)) /\ Cardinality(up(j)) \in 1 .. n
    BY <1>3
  <2>4. rank[i] = Cardinality(up(i)) /\ rank[j] = Cardinality(up(j))
    BY <1>2
  <2> HIDE DEF up, D
  <2>5. /\ Cardinality(up(i)) <= Cardinality(up(j))
        /\ Cardinality(up(j)) = Cardinality(up(i)) => up(j) = up(i)
    BY <2>1, <2>3, FS_Subset
  <2> QED
    BY <2>1, <2>2, <2>3, <2>4, <2>5
<1>6. \A i, j \in D : rank[i] = rank[j] => i = j
  <2> SUFFICES ASSUME NEW i \in D, NEW j \in D, i # j, rank[i] = rank[j] PROVE FALSE
    OBVIOUS
  <2>1. rank[i] \in Int /\ rank[j] \in Int
    BY <1>4
  <2>2. rank[i] < rank[j] \/ rank[j] < rank[i]
    BY <1>5 DEF IsOrder
  <2> QED
    BY <2>1, <2>2
<1>7. \A m \in D : \E i \in D : rank[i] = m
  <2>1. rank \in Injection(D, D)
    BY <1>4, <1>6 DEF Injection, IsInjective
  <2> HIDE DEF D
  <2>2. rank \in Surjection(D, D)
    BY <1>1, <2>1, FS_Injection
  <2> QED
    BY <2>2 DEF Surjection
<1> QED
  BY <1>4, <1>5, <1>6, <1>7 DEF Numbers

\* What SortBy does with an order of the places: it rearranges the list, and
\* never puts a later place first.
Finds(c, n, up) ==
    \A m \in 1 .. n : (\E i \in 1 .. n : Cardinality(up[i]) = m) =>
                          c[m] \in 1 .. n /\ Cardinality(up[c[m]]) = m

\* Places in the order of R make a list that is rearranged and sorted.
LEMMA SortedPlaces ==
    ASSUME NEW n \in Nat, NEW s, DOMAIN s = 1 .. n, NEW R, IsOrder(R, n),
           NEW up, up = [i \in 1 .. n |-> {j \in 1 .. n : <<j, i>> \in R}],
           NEW c, Finds(c, n, up)
    PROVE  /\ Rearranges([m \in 1 .. n |-> s[c[m]]], s)
           /\ \A m \in 1 .. n : c[m] \in 1 .. n
           /\ \A m \in 1 .. n - 1 : <<c[m + 1], c[m]>> \notin R
PROOF
<1> DEFINE rank == RankOf(n, R)
<1>1. \A i \in 1 .. n : rank[i] = Cardinality(up[i])
  BY DEF RankOf
<1>2. /\ rank \in [1 .. n -> 1 .. n]
      /\ \A i, j \in 1 .. n : i # j /\ <<i, j>> \in R => rank[i] < rank[j]
      /\ \A i, j \in 1 .. n : rank[i] = rank[j] => i = j
      /\ \A m \in 1 .. n : \E i \in 1 .. n : rank[i] = m
  <2>1. Numbers(rank, n, R)
    BY Ranks
  <2> HIDE DEF rank
  <2> QED
    BY <2>1 DEF Numbers
<1> HIDE DEF rank
<1>3. \A m \in 1 .. n : c[m] \in 1 .. n /\ rank[c[m]] = m
  <2> SUFFICES ASSUME NEW m \in 1 .. n PROVE c[m] \in 1 .. n /\ rank[c[m]] = m
    OBVIOUS
  <2>1. PICK i \in 1 .. n : rank[i] = m
    BY <1>2
  <2>2. Cardinality(up[i]) = m
    BY <1>1, <2>1
  <2>3. c[m] \in 1 .. n /\ Cardinality(up[c[m]]) = m
    BY <2>2 DEF Finds
  <2> QED
    BY <1>1, <2>3
<1>4. OneToOne(c, 1 .. n, 1 .. n)
  <2>1. ASSUME NEW j \in 1 .. n PROVE \E m \in 1 .. n : c[m] = j
    <3>1. rank[j] \in 1 .. n /\ rank[c[rank[j]]] = rank[j]
      BY <1>2, <1>3
    <3> QED
      BY <1>2, <1>3, <3>1
  <2>2. \A x, y \in 1 .. n : c[x] = c[y] => x = y
    BY <1>3
  <2> QED
    BY <1>3, <2>1, <2>2 DEF OneToOne
<1>5. Rearranges([m \in 1 .. n |-> s[c[m]]], s)
  BY <1>4 DEF Rearranges
<1>6. ASSUME NEW m \in 1 .. n - 1, <<c[m + 1], c[m]>> \in R PROVE FALSE
  <2>1. m \in 1 .. n /\ m + 1 \in 1 .. n /\ m # m + 1
    OBVIOUS
  <2>2. c[m] \in 1 .. n /\ c[m + 1] \in 1 .. n
        /\ rank[c[m]] = m /\ rank[c[m + 1]] = m + 1
    BY <1>3, <2>1
  <2>3. c[m + 1] # c[m]
    BY <2>1, <2>2
  <2>4. rank[c[m + 1]] < rank[c[m]]
    BY <1>2, <1>6, <2>2, <2>3
  <2> QED
    BY <2>1, <2>2, <2>4
<1> QED
  BY <1>3, <1>5, <1>6

\* The lists of inputs and of outputs, sorted.
LEMMA CommitmentsSorted ==
    ASSUME NEW s \in Seq(Commitment)
    PROVE  /\ Rearranges(SortBy(s, SortByCommitment), s)
           /\ Ordered(SortBy(s, SortByCommitment), SortByCommitment)
PROOF
<1> DEFINE n == Len(s)
           R == {z \in (1 .. n) \X (1 .. n) :
                    \/ s[z[1]] < s[z[2]]
                    \/ ~(s[z[2]] < s[z[1]]) /\ z[1] <= z[2]}
           UpTo(i) == {j \in 1 .. n : s[j] < s[i] \/ (~(s[i] < s[j]) /\ j <= i)}
           up == [i \in 1 .. n |-> UpTo(i)]
           c == [m \in 1 .. n |-> CHOOSE i \in 1 .. n : Cardinality(UpTo(i)) = m]
           t == [m \in 1 .. n |-> s[c[m]]]
<1>1. n \in Nat /\ DOMAIN s = 1 .. n /\ \A i \in 1 .. n : s[i] \in Int
  <2>1. n \in Nat /\ DOMAIN s = 1 .. n /\ \A i \in 1 .. n : s[i] \in Commitment
    OBVIOUS
  <2>2. \A x \in Commitment : x \in Int
    BY CommitmentAssumption
  <2> QED
    BY <2>1, <2>2
<1>2. SortBy(s, SortByCommitment) = t
  <2>1. SortBy(s, SortByCommitment) =
            [m \in 1 .. n |-> s[CHOOSE i \in 1 .. n : Cardinality(UpTo(i)) = m]]
    BY <1>1 DEF SortBy, SortByCommitment
  <2> HIDE DEF UpTo, n
  <2> QED
    BY <2>1
<1> HIDE DEF n
<1>3. IsOrder(R, n)
  BY <1>1 DEF IsOrder
<1>4. \A i, j \in 1 .. n :
          <<i, j>> \in R <=> s[i] < s[j] \/ (~(s[j] < s[i]) /\ i <= j)
  OBVIOUS
<1>5. up = [i \in 1 .. n |-> {j \in 1 .. n : <<j, i>> \in R}]
  <2>1. \A i \in 1 .. n : UpTo(i) = {j \in 1 .. n : <<j, i>> \in R}
    BY <1>4
  <2> HIDE DEF UpTo, R
  <2> QED
    BY <2>1
<1>6. Finds(c, n, up)
  <2> HIDE DEF UpTo
  <2> QED
    BY DEF Finds
<1> HIDE DEF up, c, R
<1>7. /\ Rearranges(t, s)
      /\ \A m \in 1 .. n : c[m] \in 1 .. n
      /\ \A m \in 1 .. n - 1 : <<c[m + 1], c[m]>> \notin R
  BY <1>1, <1>3, <1>5, <1>6, SortedPlaces
<1>8. Ordered(t, SortByCommitment)
  <2>1. Len(t) = n
    BY <1>1
  <2>2. ASSUME NEW m \in 1 .. n - 1 PROVE ~(t[m + 1] < t[m])
    <3>1. m \in 1 .. n /\ m + 1 \in 1 .. n
      BY <1>1
    <3> QED
      BY <1>4, <1>7, <3>1
  <2> HIDE DEF t
  <2> QED
    BY <2>1, <2>2 DEF Ordered, SortByCommitment
<1> HIDE DEF t
<1> QED
  BY <1>2, <1>7, <1>8

\* The supply change and the excess of a kernel are integers.
LEMMA KernelType ==
    \A k \in Kernel : GetSupplyChange(k) \in Int /\ k.excess \in Int
PROOF
<1> SUFFICES ASSUME NEW k \in Kernel
             PROVE  GetSupplyChange(k) \in Int /\ k.excess \in Int
  OBVIOUS
<1>1. PegIn(k) \in Int /\ PegOut(k) \in Int /\ k.fee \in Int /\ k.excess \in Int
  <2>1. /\ k.excess \in Int /\ k.fee \in Nat
        /\ k.pegin # <<>> => k.pegin[1] \in Nat
        /\ k.pegout # <<>> => k.pegout[1].amount \in Nat
    BY KernelAssumption, Zenon
  <2> QED
    BY <2>1 DEF PegIn, PegOut
<1> QED
  BY <1>1 DEF GetSupplyChange

\* The list of kernels, sorted.
LEMMA KernelsSorted ==
    ASSUME NEW s \in Seq(Kernel)
    PROVE  /\ Rearranges(SortBy(s, KernelSort), s)
           /\ Ordered(SortBy(s, KernelSort), KernelSort)
PROOF
<1> DEFINE n == Len(s)
           a == [i \in 1 .. n |-> GetSupplyChange(s[i])]
           e == [i \in 1 .. n |-> s[i].excess]
           Less(i, j) == a[i] > a[j] \/ (a[i] = a[j] /\ e[i] < e[j])
           R == {z \in (1 .. n) \X (1 .. n) :
                    Less(z[1], z[2]) \/ (~Less(z[2], z[1]) /\ z[1] <= z[2])}
           UpTo(i) == {j \in 1 .. n : KernelSort(s[j], s[i])
                                         \/ (~KernelSort(s[i], s[j]) /\ j <= i)}
           up == [i \in 1 .. n |-> UpTo(i)]
           c == [m \in 1 .. n |-> CHOOSE i \in 1 .. n : Cardinality(UpTo(i)) = m]
           t == [m \in 1 .. n |-> s[c[m]]]
<1>1. n \in Nat /\ DOMAIN s = 1 .. n
  OBVIOUS
<1>2. SortBy(s, KernelSort) = t
  <2>1. SortBy(s, KernelSort) =
            [m \in 1 .. n |-> s[CHOOSE i \in 1 .. n : Cardinality(UpTo(i)) = m]]
    BY <1>1 DEF SortBy
  <2> HIDE DEF UpTo, n
  <2> QED
    BY <2>1
<1>3. \A i \in 1 .. n : a[i] \in Int /\ e[i] \in Int
  <2>1. \A i \in 1 .. n : s[i] \in Kernel
    OBVIOUS
  <2> HIDE DEF n
  <2> QED
    BY <2>1, KernelType
<1>4. \A i, j \in 1 .. n : KernelSort(s[i], s[j]) <=> Less(i, j)
  <2> HIDE DEF n
  <2> QED
    BY DEF KernelSort
<1> HIDE DEF n, a, e
<1>5. IsOrder(R, n)
  <2>1. \A i, j \in 1 .. n : <<i, j>> \in R <=> Less(i, j) \/ (~Less(j, i) /\ i <= j)
    <3> HIDE DEF Less
    <3> QED
      OBVIOUS
  <2> HIDE DEF R
  <2>2. \A i, j \in 1 .. n : <<i, j>> \in R \/ <<j, i>> \in R
    <3> SUFFICES ASSUME NEW i \in 1 .. n, NEW j \in 1 .. n
                 PROVE  <<i, j>> \in R \/ <<j, i>> \in R
      OBVIOUS
    <3>1. i \in Int /\ j \in Int
      OBVIOUS
    <3>2. (Less(i, j) \/ (~Less(j, i) /\ i <= j)) \/ (Less(j, i) \/ (~Less(i, j) /\ j <= i))
      <4> HIDE DEF Less
      <4> QED
        BY <3>1
    <3> QED
      BY <2>1, <3>2
  <2>3. \A i, j \in 1 .. n : <<i, j>> \in R /\ <<j, i>> \in R => i = j
    BY <1>1, <1>3, <2>1
  <2>4. \A i, j, k \in 1 .. n : <<i, j>> \in R /\ <<j, k>> \in R => <<i, k>> \in R
    <3> SUFFICES ASSUME NEW i \in 1 .. n, NEW j \in 1 .. n, NEW k \in 1 .. n,
                        <<i, j>> \in R, <<j, k>> \in R
                 PROVE  <<i, k>> \in R
      OBVIOUS
    <3>1. /\ a[i] \in Int /\ a[j] \in Int /\ a[k] \in Int
          /\ e[i] \in Int /\ e[j] \in Int /\ e[k] \in Int
          /\ i \in Int /\ j \in Int /\ k \in Int
      BY <1>3
    <3>2. Less(i, j) \/ (~Less(j, i) /\ i <= j)
      BY <2>1
    <3>3. Less(j, k) \/ (~Less(k, j) /\ j <= k)
      BY <2>1
    <3>4. Less(i, k) \/ (~Less(k, i) /\ i <= k)
      BY <3>1, <3>2, <3>3
    <3> QED
      BY <2>1, <3>4
  <2> QED
    BY <2>2, <2>3, <2>4 DEF IsOrder
<1>6. \A i, j \in 1 .. n :
          <<i, j>> \in R <=> KernelSort(s[i], s[j])
                                \/ (~KernelSort(s[j], s[i]) /\ i <= j)
  <2> HIDE DEF Less
  <2> QED
    BY <1>4
<1>7. up = [i \in 1 .. n |-> {j \in 1 .. n : <<j, i>> \in R}]
  <2>1. \A i \in 1 .. n : UpTo(i) = {j \in 1 .. n : <<j, i>> \in R}
    <3> HIDE DEF R
    <3> QED
      BY <1>6
  <2> HIDE DEF UpTo, R
  <2> QED
    BY <2>1
<1>8. Finds(c, n, up)
  <2> HIDE DEF UpTo, R
  <2> QED
    BY DEF Finds
<1> HIDE DEF up, c, R
<1>9. /\ Rearranges(t, s)
      /\ \A m \in 1 .. n : c[m] \in 1 .. n
      /\ \A m \in 1 .. n - 1 : <<c[m + 1], c[m]>> \notin R
  BY <1>1, <1>5, <1>7, <1>8, SortedPlaces
<1>10. Ordered(t, KernelSort)
  <2>1. Len(t) = n
    BY <1>1
  <2>2. ASSUME NEW m \in 1 .. n - 1 PROVE ~KernelSort(t[m + 1], t[m])
    <3>1. m \in 1 .. n /\ m + 1 \in 1 .. n
      BY <1>1
    <3>2. ~KernelSort(s[c[m + 1]], s[c[m]])
      BY <1>6, <1>9, <3>1
    <3> QED
      BY <3>1, <3>2
  <2> HIDE DEF t
  <2> QED
    BY <2>1, <2>2 DEF Ordered
<1> HIDE DEF t
<1> QED
  BY <1>2, <1>9, <1>10

\* Signed owner messages, whose hash is that of their key.
Message == [key : Int, kernel : Kernel]

\* The list of owner messages, sorted.
LEMMA MessagesSorted ==
    ASSUME NEW s \in Seq(Message)
    PROVE  /\ Rearranges(SortBy(s, SortByHash), s)
           /\ Ordered(SortBy(s, SortByHash), SortByHash)
PROOF
<1> DEFINE n == Len(s)
           R == {z \in (1 .. n) \X (1 .. n) :
                    \/ s[z[1]].key < s[z[2]].key
                    \/ ~(s[z[2]].key < s[z[1]].key) /\ z[1] <= z[2]}
           UpTo(i) == {j \in 1 .. n : s[j].key < s[i].key \/ (~(s[i].key < s[j].key) /\ j <= i)}
           up == [i \in 1 .. n |-> UpTo(i)]
           c == [m \in 1 .. n |-> CHOOSE i \in 1 .. n : Cardinality(UpTo(i)) = m]
           t == [m \in 1 .. n |-> s[c[m]]]
<1>1. n \in Nat /\ DOMAIN s = 1 .. n /\ \A i \in 1 .. n : s[i].key \in Int
  <2>1. n \in Nat /\ DOMAIN s = 1 .. n /\ \A i \in 1 .. n : s[i] \in Message
    OBVIOUS
  <2>2. \A x \in Message : x.key \in Int
    BY DEF Message
  <2> QED
    BY <2>1, <2>2
<1>2. SortBy(s, SortByHash) = t
  <2>1. SortBy(s, SortByHash) =
            [m \in 1 .. n |-> s[CHOOSE i \in 1 .. n : Cardinality(UpTo(i)) = m]]
    BY <1>1 DEF SortBy, SortByHash
  <2> HIDE DEF UpTo, n
  <2> QED
    BY <2>1
<1> HIDE DEF n
<1>3. IsOrder(R, n)
  BY <1>1 DEF IsOrder
<1>4. \A i, j \in 1 .. n :
          <<i, j>> \in R <=> s[i].key < s[j].key \/ (~(s[j].key < s[i].key) /\ i <= j)
  OBVIOUS
<1>5. up = [i \in 1 .. n |-> {j \in 1 .. n : <<j, i>> \in R}]
  <2>1. \A i \in 1 .. n : UpTo(i) = {j \in 1 .. n : <<j, i>> \in R}
    BY <1>4
  <2> HIDE DEF UpTo, R
  <2> QED
    BY <2>1
<1>6. Finds(c, n, up)
  <2> HIDE DEF UpTo
  <2> QED
    BY DEF Finds
<1> HIDE DEF up, c, R
<1>7. /\ Rearranges(t, s)
      /\ \A m \in 1 .. n : c[m] \in 1 .. n
      /\ \A m \in 1 .. n - 1 : <<c[m + 1], c[m]>> \notin R
  BY <1>1, <1>3, <1>5, <1>6, SortedPlaces
<1>8. Ordered(t, SortByHash)
  <2>1. Len(t) = n
    BY <1>1
  <2>2. ASSUME NEW m \in 1 .. n - 1 PROVE ~(t[m + 1].key < t[m].key)
    <3>1. m \in 1 .. n /\ m + 1 \in 1 .. n
      BY <1>1
    <3> QED
      BY <1>4, <1>7, <3>1
  <2> HIDE DEF t
  <2> QED
    BY <2>1, <2>2 DEF Ordered, SortByHash
<1> HIDE DEF t
<1> QED
  BY <1>2, <1>7, <1>8

\* No element twice.
Injective(s) == \A i, j \in DOMAIN s : s[i] = s[j] => i = j

\* What a list and its rearrangements have in common.
LEMMA Rearranged ==
    ASSUME NEW X, NEW s \in Seq(X), NEW t, Rearranges(t, s)
    PROVE  /\ t \in Seq(X) /\ Len(t) = Len(s) /\ DOMAIN t = DOMAIN s
           /\ ToSet(t) = ToSet(s)
           /\ Injective(t) <=> Injective(s)
PROOF
<1> DEFINE n == Len(s)
<1>1. n \in Nat /\ DOMAIN s = 1 .. n /\ \A i \in 1 .. n : s[i] \in X
  OBVIOUS
<1> HIDE DEF n
<1>2. PICK p : OneToOne(p, 1 .. n, 1 .. n) /\ t = [i \in 1 .. n |-> s[p[i]]]
  BY <1>1 DEF Rearranges
<1>3. \A i \in 1 .. n : p[i] \in 1 .. n /\ t[i] = s[p[i]]
  BY <1>2 DEF OneToOne
<1>4. \A j \in 1 .. n : \E i \in 1 .. n : p[i] = j
  BY <1>2 DEF OneToOne
<1>5. \A i, j \in 1 .. n : p[i] = p[j] => i = j
  BY <1>2 DEF OneToOne
<1>6. DOMAIN t = 1 .. n
  BY <1>2
<1>7. t \in [1 .. n -> X]
  BY <1>1, <1>2, <1>3
<1>8. t \in Seq(X) /\ Len(t) = n
  BY <1>1, <1>7
<1>9. ToSet(t) = ToSet(s)
  <2>1. \A x \in ToSet(t) : x \in ToSet(s)
    BY <1>1, <1>3, <1>6 DEF ToSet
  <2>2. ASSUME NEW x \in ToSet(s) PROVE x \in ToSet(t)
    <3>1. PICK j \in 1 .. n : x = s[j]
      BY <1>1 DEF ToSet
    <3>2. PICK i \in 1 .. n : p[i] = j
      BY <1>4
    <3> QED
      BY <1>3, <1>6, <3>1, <3>2 DEF ToSet
  <2> QED
    BY <2>1, <2>2
<1>10. ASSUME Injective(s) PROVE Injective(t)
  BY <1>1, <1>3, <1>5, <1>6, <1>10 DEF Injective
<1>11. ASSUME Injective(t) PROVE Injective(s)
  <2> SUFFICES ASSUME NEW i \in 1 .. n, NEW j \in 1 .. n, s[i] = s[j] PROVE i = j
    BY <1>1 DEF Injective
  <2>1. PICK k \in 1 .. n : p[k] = i
    BY <1>4
  <2>2. PICK l \in 1 .. n : p[l] = j
    BY <1>4
  <2>3. t[k] = t[l]
    BY <1>3, <2>1, <2>2
  <2> QED
    BY <1>6, <1>11, <2>1, <2>2, <2>3 DEF Injective
<1> QED
  BY <1>1, <1>6, <1>8, <1>9, <1>10, <1>11

\* Distinct counts; it means that no element is there twice.
LEMMA DistinctInjective ==
    ASSUME NEW X, NEW s \in Seq(X)
    PROVE  Distinct(s) <=> Injective(s)
PROOF
<1> DEFINE D == 1 .. Len(s)
<1>1. IsFiniteSet(D) /\ Cardinality(D) = Len(s) /\ DOMAIN s = D
  <2> DEFINE n == Len(s)
  <2>1. n \in Nat /\ DOMAIN s = 1 .. n
    OBVIOUS
  <2> HIDE DEF n
  <2>2. IsFiniteSet(1 .. n) /\ Cardinality(1 .. n) = IF 1 > n THEN 0 ELSE n - 1 + 1
    BY <2>1, FS_Interval
  <2>3. Cardinality(1 .. n) = n
    BY <2>1, <2>2
  <2> QED
    BY <2>1, <2>2, <2>3 DEF n
<1>2. s \in Surjection(D, ToSet(s))
  <2>1. s \in [D -> ToSet(s)]
    BY <1>1 DEF ToSet
  <2> QED
    BY <1>1, <2>1 DEF Surjection, ToSet
<1> HIDE DEF D
<1>3. Cardinality(ToSet(s)) = Cardinality(D) <=> s \in Injection(D, ToSet(s))
  BY <1>1, <1>2, FS_Surjection
<1>4. s \in [D -> ToSet(s)]
  BY <1>2 DEF Surjection
<1>5. s \in Injection(D, ToSet(s)) <=> Injective(s)
  BY <1>1, <1>4 DEF Injection, IsInjective, Injective
<1> QED
  BY <1>1, <1>3, <1>5 DEF Distinct

\* Two lists, one after the other.
LEMMA Joined ==
    ASSUME NEW X, NEW s \in Seq(X), NEW t \in Seq(X)
    PROVE  /\ s \o t \in Seq(X)
           /\ ToSet(s \o t) = ToSet(s) \cup ToSet(t)
           /\ Injective(s \o t) <=>
                  Injective(s) /\ Injective(t) /\ ToSet(s) \cap ToSet(t) = {}
PROOF
<1> DEFINE m == Len(s)
           n == Len(t)
           st == s \o t
<1>1. m \in Nat /\ n \in Nat /\ DOMAIN s = 1 .. m /\ DOMAIN t = 1 .. n
  OBVIOUS
<1>2. st \in Seq(X) /\ DOMAIN st = 1 .. m + n
  OBVIOUS
<1>3. /\ \A i \in 1 .. m : st[i] = s[i]
      /\ \A i \in 1 .. n : st[m + i] = t[i]
      /\ \A i \in 1 .. m + n : i \notin 1 .. m => i - m \in 1 .. n /\ st[i] = t[i - m]
  OBVIOUS
<1> HIDE DEF m, n, st
<1>4. ToSet(st) = ToSet(s) \cup ToSet(t)
  <2>1. \A x \in ToSet(st) : x \in ToSet(s) \cup ToSet(t)
    BY <1>1, <1>2, <1>3 DEF ToSet
  <2>2. \A i \in 1 .. m : i \in 1 .. m + n
    BY <1>1
  <2>3. \A i \in 1 .. n : m + i \in 1 .. m + n
    BY <1>1
  <2>4. \A x \in ToSet(s) : x \in ToSet(st)
    BY <1>1, <1>2, <1>3, <2>2 DEF ToSet
  <2>5. ASSUME NEW x \in ToSet(t) PROVE x \in ToSet(st)
    <3>1. PICK i \in 1 .. n : x = t[i]
      BY <1>1 DEF ToSet
    <3>2. x = st[m + i] /\ m + i \in DOMAIN st
      BY <1>2, <1>3, <2>3, <3>1
    <3> QED
      BY <3>2 DEF ToSet
  <2> QED
    BY <2>1, <2>4, <2>5
<1>5. ASSUME Injective(st)
      PROVE  Injective(s) /\ Injective(t) /\ ToSet(s) \cap ToSet(t) = {}
  <2>1. \A i \in 1 .. m : i \in DOMAIN st
    BY <1>1, <1>2
  <2>2. \A i \in 1 .. n : m + i \in DOMAIN st
    BY <1>1, <1>2
  <2>3. Injective(s)
    BY <1>1, <1>3, <1>5, <2>1 DEF Injective
  <2>4. Injective(t)
    <3> SUFFICES ASSUME NEW i \in 1 .. n, NEW j \in 1 .. n, t[i] = t[j] PROVE i = j
      BY <1>1 DEF Injective
    <3>1. m + i = m + j
      BY <1>3, <1>5, <2>2 DEF Injective
    <3> QED
      BY <1>1, <3>1
  <2>5. ASSUME NEW i \in 1 .. m, NEW j \in 1 .. n, s[i] = t[j] PROVE FALSE
    <3>1. i = m + j
      BY <1>3, <1>5, <2>1, <2>2, <2>5 DEF Injective
    <3> QED
      BY <1>1, <3>1
  <2>6. ToSet(s) \cap ToSet(t) = {}
    BY <1>1, <2>5 DEF ToSet
  <2> QED
    BY <2>3, <2>4, <2>6
<1>6. ASSUME Injective(s), Injective(t), ToSet(s) \cap ToSet(t) = {}
      PROVE  Injective(st)
  <2> SUFFICES ASSUME NEW i \in 1 .. m + n, NEW j \in 1 .. m + n, st[i] = st[j]
               PROVE  i = j
    BY <1>2 DEF Injective
  <2>1. \A k \in 1 .. m, l \in 1 .. n : s[k] # t[l]
    BY <1>1, <1>6 DEF ToSet
  <2>2. CASE i \in 1 .. m /\ j \in 1 .. m
    BY <1>1, <1>3, <1>6, <2>2 DEF Injective
  <2>3. CASE i \notin 1 .. m /\ j \notin 1 .. m
    <3>1. i - m \in 1 .. n /\ j - m \in 1 .. n /\ t[i - m] = t[j - m]
      BY <1>3, <2>3
    <3>2. i - m = j - m
      BY <1>1, <1>6, <3>1 DEF Injective
    <3> QED
      BY <1>1, <3>2
  <2>4. CASE i \in 1 .. m /\ j \notin 1 .. m
    BY <1>3, <2>1, <2>4
  <2>5. CASE i \notin 1 .. m /\ j \in 1 .. m
    BY <1>3, <2>1, <2>5
  <2> QED
    BY <2>2, <2>3, <2>4, <2>5
<1> QED
  BY <1>2, <1>4, <1>5, <1>6 DEF st

\* What the elements of two lists are, one after the other.
LEMMA JoinedAt ==
    ASSUME NEW X, NEW a \in Seq(X), NEW b \in Seq(X)
    PROVE  /\ a \o b \in [1 .. Len(a) + Len(b) -> X]
           /\ \A i \in 1 .. Len(a) : (a \o b)[i] = a[i]
           /\ \A i \in 1 .. Len(a) + Len(b) :
                  i \notin 1 .. Len(a) =>
                      i - Len(a) \in 1 .. Len(b) /\ (a \o b)[i] = b[i - Len(a)]
PROOF
<1>1. Len(a) \in Nat /\ Len(b) \in Nat
  OBVIOUS
<1>2. a \o b \in Seq(X) /\ Len(a \o b) = Len(a) + Len(b)
  OBVIOUS
<1>3. \A i \in 1 .. Len(a) : (a \o b)[i] = a[i]
  OBVIOUS
<1>4. \A i \in 1 .. Len(a) + Len(b) : i \notin 1 .. Len(a) => i - Len(a) \in 1 .. Len(b)
  BY <1>1
<1>5. \A i \in 1 .. Len(a) + Len(b) : i \notin 1 .. Len(a) => (a \o b)[i] = b[i - Len(a)]
  OBVIOUS
<1>6. a \o b \in [1 .. Len(a) + Len(b) -> X]
  <2> DEFINE c == a \o b
  <2>1. c \in Seq(X) /\ Len(c) = Len(a) + Len(b)
    BY <1>2
  <2> HIDE DEF c
  <2>2. c \in [1 .. Len(c) -> X]
    BY <2>1
  <2> QED
    BY <2>1, <2>2 DEF c
<1> QED
  BY <1>3, <1>4, <1>5, <1>6

\* Functions are equal when they have the same values.
LEMMA SameValues ==
    ASSUME NEW S, NEW T, NEW f \in [S -> T], NEW g \in [S -> T],
           \A i \in S : f[i] = g[i]
    PROVE  f = g
  OBVIOUS

\* A list with a function of its elements.
MapList(F, s) == [i \in DOMAIN s |-> F[s[i]]]

\* It is as long, and has the function's values.
LEMMA MapType ==
    ASSUME NEW X, NEW Y, NEW F \in [X -> Y], NEW s \in Seq(X)
    PROVE  MapList(F, s) \in Seq(Y) /\ Len(MapList(F, s)) = Len(s)
PROOF
<1>1. DOMAIN s = 1 .. Len(s) /\ Len(s) \in Nat /\ \A i \in DOMAIN s : s[i] \in X
  OBVIOUS
<1>2. MapList(F, s) \in [1 .. Len(s) -> Y]
  BY <1>1 DEF MapList
<1> QED
  BY <1>1, <1>2

\* Sums of such lists: of both lists, when two have been joined and sorted.
LEMMA MapSum ==
    ASSUME NEW X, NEW F \in [X -> Int], NEW s \in Seq(X)
    PROVE  MapList(F, s) \in Seq(Int) /\ SumFunction(MapList(F, s)) \in Int
PROOF
<1>1. MapList(F, s) \in Seq(Int)
  BY MapType
<1> QED
  BY <1>1, SumConcat

\* A list with a function of the elements of two lists, joined and in another
\* order, is made of the two lists with it.
LEMMA MapRearranged ==
    ASSUME NEW X, NEW Y, NEW F \in [X -> Y], NEW s \in Seq(X), NEW t \in Seq(X),
           NEW u, Rearranges(u, s \o t)
    PROVE  /\ MapList(F, s) \in Seq(Y) /\ MapList(F, t) \in Seq(Y)
           /\ Rearranges(MapList(F, u), MapList(F, s) \o MapList(F, t))
PROOF
<1> DEFINE a == MapList(F, s)
           b == MapList(F, t)
           c == MapList(F, s \o t)
           d == MapList(F, u)
<1>1. s \o t \in Seq(X)
  OBVIOUS
<1>2. a \in Seq(Y) /\ b \in Seq(Y) /\ c \in Seq(Y)
  <2>1. \A r \in Seq(X) : MapList(F, r) \in Seq(Y)
    BY MapType
  <2> QED
    BY <1>1, <2>1
<1>3. c = a \o b
  <2> DEFINE m == Len(s)
             n == Len(t)
  <2>1. m \in Nat /\ n \in Nat /\ DOMAIN s = 1 .. m /\ DOMAIN t = 1 .. n
        /\ DOMAIN (s \o t) = 1 .. m + n
    OBVIOUS
  <2>2. /\ \A i \in 1 .. m : (s \o t)[i] = s[i]
        /\ \A i \in 1 .. m + n : i \notin 1 .. m => i - m \in 1 .. n /\ (s \o t)[i] = t[i - m]
    BY JoinedAt
  <2> HIDE DEF m, n
  <2>3. DOMAIN a = 1 .. m /\ DOMAIN b = 1 .. n /\ DOMAIN c = 1 .. m + n
    BY <2>1 DEF MapList
  <2>4. \A i \in 1 .. m + n : c[i] = F[(s \o t)[i]]
    BY <2>1 DEF MapList
  <2>5. (\A i \in 1 .. m : a[i] = F[s[i]]) /\ (\A i \in 1 .. n : b[i] = F[t[i]])
    BY <2>1 DEF MapList
  <2>6. c \in [1 .. m + n -> Y]
    <3> HIDE DEF c
    <3>1. c \in [1 .. Len(c) -> Y] /\ DOMAIN c = 1 .. Len(c)
      BY <1>2
    <3> QED
      BY <2>3, <3>1
  <2> HIDE DEF a, b, c
  <2>7. Len(a) = m /\ Len(b) = n
    BY <1>2, <2>1, <2>3
  <2>8. /\ a \o b \in [1 .. m + n -> Y]
        /\ \A i \in 1 .. m : (a \o b)[i] = a[i]
        /\ \A i \in 1 .. m + n : i \notin 1 .. m => (a \o b)[i] = b[i - m]
    BY <1>2, <2>7, JoinedAt
  <2>9. ASSUME NEW i \in 1 .. m + n PROVE (a \o b)[i] = c[i]
    <3>1. CASE i \in 1 .. m
      BY <2>2, <2>4, <2>5, <2>8, <3>1
    <3>2. CASE i \notin 1 .. m
      <4>1. i - m \in 1 .. n /\ (s \o t)[i] = t[i - m]
        BY <2>2, <3>2
      <4>2. (a \o b)[i] = b[i - m]
        BY <2>8, <3>2
      <4> QED
        BY <2>4, <2>5, <4>1, <4>2
    <3> QED
      BY <3>1, <3>2
  <2> DEFINE ab == a \o b
             J == 1 .. m + n
  <2>10. c \in [J -> Y] /\ ab \in [J -> Y] /\ \A i \in J : c[i] = ab[i]
    BY <2>6, <2>8, <2>9
  <2> HIDE DEF ab, J
  <2>11. c = ab
    BY <2>10, SameValues
  <2> QED
    BY <2>11 DEF ab
<1>4. Rearranges(d, c)
  <2>1. PICK p : /\ OneToOne(p, DOMAIN (s \o t), DOMAIN (s \o t))
                 /\ u = [i \in DOMAIN (s \o t) |-> (s \o t)[p[i]]]
    BY DEF Rearranges
  <2> DEFINE D == DOMAIN (s \o t)
             st == s \o t
  <2>2. DOMAIN u = D /\ \A i \in D : p[i] \in D /\ u[i] = st[p[i]]
    BY <2>1 DEF OneToOne
  <2>3. DOMAIN c = D /\ \A i \in D : c[i] = F[st[i]]
    BY DEF MapList
  <2>4. d = [i \in D |-> c[p[i]]]
    <3> HIDE DEF D, st, c
    <3> QED
      BY <2>2, <2>3 DEF MapList
  <2> HIDE DEF c, d
  <2> QED
    BY <2>1, <2>3, <2>4 DEF Rearranges
<1> QED
  BY <1>2, <1>3, <1>4

\* A sum over a list is that over the parts it is made of, in whatever order.
LEMMA MapSums ==
    ASSUME NEW X, NEW F \in [X -> Int], NEW s \in Seq(X), NEW t \in Seq(X),
           NEW u, Rearranges(u, s \o t)
    PROVE  SumFunction(MapList(F, u)) =
               SumFunction(MapList(F, s)) + SumFunction(MapList(F, t))
PROOF
<1> DEFINE a == MapList(F, s)
           b == MapList(F, t)
           d == MapList(F, u)
<1>1. a \in Seq(Int) /\ b \in Seq(Int) /\ Rearranges(d, a \o b)
  BY MapRearranged
<1> HIDE DEF a, b, d
<1>2. a \o b \in Seq(Int)
  BY <1>1
<1>3. SumFunction(d) = SumFunction(a \o b)
  BY <1>1, <1>2, SumRearranged
<1>4. SumFunction(d) = SumFunction(a) + SumFunction(b)
  BY <1>1, <1>3, SumConcat
<1> QED
  BY <1>4 DEF a, b, d
-----------------------------------------------------------------------------
(* Transactions and what they are aggregated to.                           *)

TxBody ==
    [ins        : Seq(Commitment),
     outs       : Seq(Commitment),
     kernels    : Seq(Kernel),
     owner_sigs : Seq(Message)]

Transaction == [kernel_offset : Int, owner_offset : Int, body : TxBody]

\* The functions that the sums of a body are made of.
Excess == [k \in Kernel |-> k.excess]
SupplyChange == [k \in Kernel |-> GetSupplyChange(k)]

\* Amounts, blinding factors and keys are integers.
LEMMA CoinTypes ==
    /\ Amount \in [Commitment -> Nat] /\ Amount \in [Commitment -> Int]
    /\ Blind \in [Commitment -> Int]
    /\ SpendKey \in [Commitment -> Int] /\ SenderKey \in [Commitment -> Int]
PROOF
<1>1. \A f \in [Commitment -> Nat] : f \in [Commitment -> Int]
  OBVIOUS
<1> QED
  BY <1>1, CoinAssumption

\* So are the excesses and supply changes of kernels.
LEMMA KernelFunctions ==
    Excess \in [Kernel -> Int] /\ SupplyChange \in [Kernel -> Int]
PROOF
<1>1. Excess \in [Kernel -> Int]
  BY KernelType DEF Excess
<1>2. SupplyChange \in [Kernel -> Int]
  BY KernelType DEF SupplyChange
<1> QED
  BY <1>1, <1>2

\* The sums of Transactions are of such lists.
LEMMA CoinLists ==
    ASSUME NEW cs \in Seq(Commitment)
    PROVE  /\ Amounts(cs) = MapList(Amount, cs) /\ Blinds(cs) = MapList(Blind, cs)
           /\ SpendKeys(cs) = MapList(SpendKey, cs)
           /\ SenderKeys(cs) = MapList(SenderKey, cs)
  BY DEF Amounts, Blinds, SpendKeys, SenderKeys, MapList

\* The model's lists of them are maps of these functions.
LEMMA KernelLists ==
    ASSUME NEW ks \in Seq(Kernel)
    PROVE  /\ Excesses(ks) = MapList(Excess, ks)
           /\ SupplyChanges(ks) = MapList(SupplyChange, ks)
PROOF
<1>1. \A i \in DOMAIN ks : ks[i] \in Kernel
  OBVIOUS
<1>2. Excesses(ks) = MapList(Excess, ks)
  BY <1>1 DEF Excesses, Excess, MapList
<1>3. SupplyChanges(ks) = MapList(SupplyChange, ks)
  BY <1>1 DEF SupplyChanges, SupplyChange, MapList
<1> QED
  BY <1>2, <1>3

\* Transaction::Create sorts the lists.
LEMMA Created ==
    ASSUME NEW k \in Int, NEW o \in Int, NEW body \in TxBody,
           NEW tx, tx = Create(k, o, body)
    PROVE  /\ tx \in Transaction
           /\ tx.kernel_offset = k
           /\ Rearranges(tx.body.ins, body.ins)
           /\ Rearranges(tx.body.outs, body.outs)
           /\ Rearranges(tx.body.kernels, body.kernels)
PROOF
<1> DEFINE ins == SortBy(body.ins, SortByCommitment)
           outs == SortBy(body.outs, SortByCommitment)
           kernels == SortBy(body.kernels, KernelSort)
           sigs == SortBy(body.owner_sigs, SortByHash)
<1>1. /\ body.ins \in Seq(Commitment) /\ body.outs \in Seq(Commitment)
      /\ body.kernels \in Seq(Kernel) /\ body.owner_sigs \in Seq(Message)
  BY DEF TxBody
<1>2. Rearranges(ins, body.ins) /\ Rearranges(outs, body.outs)
  BY <1>1, CommitmentsSorted
<1>3. Rearranges(kernels, body.kernels)
  BY <1>1, KernelsSorted
<1>4. Rearranges(sigs, body.owner_sigs)
  BY <1>1, MessagesSorted
<1>5. tx = [kernel_offset |-> k, owner_offset |-> o,
            body |-> [ins |-> ins, outs |-> outs, kernels |-> kernels,
                      owner_sigs |-> sigs]]
  BY DEF Create
<1> HIDE DEF ins, outs, kernels, sigs
<1>6. ins \in Seq(Commitment) /\ outs \in Seq(Commitment)
  BY <1>1, <1>2, Rearranged
<1>7. kernels \in Seq(Kernel)
  BY <1>1, <1>3, Rearranged
<1>8. sigs \in Seq(Message)
  BY <1>1, <1>4, Rearranged
<1>9. tx \in Transaction
  BY <1>5, <1>6, <1>7, <1>8 DEF Transaction, TxBody
<1> QED
  BY <1>2, <1>3, <1>5, <1>9

\* Aggregate joins the lists of both transactions and sorts them.
LEMMA AggregateOf ==
    ASSUME NEW a \in Transaction, NEW b \in Transaction
    PROVE  /\ Aggregate(a, b) \in Transaction
           /\ Aggregate(a, b).kernel_offset = a.kernel_offset + b.kernel_offset
           /\ Rearranges(Aggregate(a, b).body.ins, a.body.ins \o b.body.ins)
           /\ Rearranges(Aggregate(a, b).body.outs, a.body.outs \o b.body.outs)
           /\ Rearranges(Aggregate(a, b).body.kernels, a.body.kernels \o b.body.kernels)
PROOF
<1> DEFINE body == [ins        |-> a.body.ins \o b.body.ins,
                    outs       |-> a.body.outs \o b.body.outs,
                    kernels    |-> a.body.kernels \o b.body.kernels,
                    owner_sigs |-> a.body.owner_sigs \o b.body.owner_sigs]
           k == a.kernel_offset + b.kernel_offset
           o == a.owner_offset + b.owner_offset
           tx == Aggregate(a, b)
<1>1. a.body \in TxBody /\ b.body \in TxBody /\ k \in Int /\ o \in Int
  BY DEF Transaction
<1>2. a.body.ins \o b.body.ins \in Seq(Commitment)
  BY <1>1 DEF TxBody
<1>3. a.body.outs \o b.body.outs \in Seq(Commitment)
  BY <1>1 DEF TxBody
<1>4. a.body.kernels \o b.body.kernels \in Seq(Kernel)
  BY <1>1 DEF TxBody
<1>5. a.body.owner_sigs \o b.body.owner_sigs \in Seq(Message)
  BY <1>1 DEF TxBody
<1>6. body \in TxBody
  BY <1>2, <1>3, <1>4, <1>5 DEF TxBody
<1>7. tx = Create(k, o, body)
  BY DEF Aggregate
<1>8. /\ body.ins = a.body.ins \o b.body.ins /\ body.outs = a.body.outs \o b.body.outs
      /\ body.kernels = a.body.kernels \o b.body.kernels
  OBVIOUS
<1> HIDE DEF k, o, body, tx
<1>9. tx \in Transaction /\ tx.kernel_offset = k
  BY <1>1, <1>6, <1>7, Created
<1>10. Rearranges(tx.body.ins, body.ins)
  BY <1>1, <1>6, <1>7, Created
<1>11. Rearranges(tx.body.outs, body.outs)
  BY <1>1, <1>6, <1>7, Created
<1>12. Rearranges(tx.body.kernels, body.kernels)
  BY <1>1, <1>6, <1>7, Created
<1> QED
  BY <1>8, <1>9, <1>10, <1>11, <1>12 DEF tx, k
\* The transactions of the wallet.
LEMMA MempoolType == Mempool \subseteq Transaction
PROOF
<1> SUFFICES ASSUME NEW r \in Requests PROVE CreateTx(r) \in Transaction
  BY DEF Mempool
<1>1. /\ r.ins \in Seq(Commitment) /\ r.outs \in Seq(Commitment)
      /\ r.kernel_offset \in Int /\ r.owner_key \in Int
      /\ KernelOf(r) \in Kernel
  BY RequestAssumption
<1> DEFINE keys == SumFunction(SenderKeys(r.outs))
           spent == SumFunction(SpendKeys(r.ins))
           m == [key |-> r.owner_key, kernel |-> KernelOf(r)]
           body == [ins |-> r.ins, outs |-> r.outs, kernels |-> <<KernelOf(r)>>,
                    owner_sigs |-> <<m>>]
           o == keys - spent - r.owner_key
<1>2. keys \in Int
  <2>1. SumFunction(MapList(SenderKey, r.outs)) \in Int
    BY <1>1, CoinTypes, MapSum
  <2> QED
    BY <1>1, <2>1, CoinLists
<1>3. spent \in Int
  <2>1. SumFunction(MapList(SpendKey, r.ins)) \in Int
    BY <1>1, CoinTypes, MapSum
  <2> QED
    BY <1>1, <2>1, CoinLists
<1>4. m \in Message
  BY <1>1 DEF Message
<1>5. CreateTx(r) = Create(r.kernel_offset, o, body)
  BY DEF CreateTx
<1> HIDE DEF keys, spent, m
<1>6. <<KernelOf(r)>> \in Seq(Kernel) /\ <<m>> \in Seq(Message)
  BY <1>1, <1>4
<1>7. body \in TxBody
  BY <1>1, <1>6 DEF TxBody
<1>8. o \in Int
  BY <1>1, <1>2, <1>3
<1> HIDE DEF o, body
<1> QED
  BY <1>1, <1>5, <1>7, <1>8, Created

\* The transactions that Aggregated goes through, from none to all.
Aggregates(txs) ==
    {p \in [0 .. Len(txs) -> Transaction] :
        /\ p[0] = NoTransaction /\ p[Len(txs)] = Aggregated(txs)
        /\ \A k \in 1 .. Len(txs) : p[k] = Aggregate(p[k - 1], txs[k])}

\* FoldLeft goes through such transactions.
LEMMA AggregatedSteps ==
    ASSUME NEW txs \in Seq(Transaction)
    PROVE  Aggregates(txs) # {}
PROOF
<1> DEFINE n == Len(txs)
           V == Transaction
           start == NoTransaction
           step == [z \in V \X (1 .. n) |-> Aggregate(z[1], txs[z[2]])]
           Value(i, u) == IF u = {} THEN start
                         ELSE Aggregate(i[u \ {Most(u)}], txs[Most(u)])
           iter == CHOOSE i : i = [u \in SUBSET DOMAIN txs |-> Value(i, u)]
<1>1. n \in Nat /\ DOMAIN txs = 1 .. n /\ \A k \in 1 .. n : txs[k] \in Transaction
  OBVIOUS
<1>2. start \in V
  <2>1. <<>> \in Seq(Commitment) /\ <<>> \in Seq(Kernel) /\ <<>> \in Seq(Message)
    OBVIOUS
  <2> QED
    BY <2>1 DEF NoTransaction, EmptyBody, Transaction, TxBody
<1>3. \A x \in V, k \in 1 .. n : Aggregate(x, txs[k]) \in V
  BY <1>1, AggregateOf
<1>4. Aggregated(txs) = iter[DOMAIN txs]
  BY DEF Aggregated, FoldLeft, MapThenFoldSet, Max, Most
<1> HIDE DEF n, V, start
<1>5. step \in [V \X (1 .. n) -> V]
  BY <1>3
<1>6. \A u \in SUBSET (1 .. n) : u # {} => Most(u) \in 1 .. n
  BY <1>1, Greatest
<1> HIDE DEF iter
<1>7. PICK g \in [SUBSET (1 .. n) -> V] :
          \A u \in SUBSET (1 .. n) :
              g[u] = IF u = {} THEN start
                     ELSE step[<<g[u \ {Most(u)}], Most(u)>>]
  <2> HIDE DEF step
  <2>1. ListFolds(n, V, start, step) # {}
    BY <1>1, <1>2, <1>5, ListFoldExists
  <2> QED
    BY <2>1 DEF ListFolds
<1>8. g = [u \in SUBSET DOMAIN txs |-> Value(g, u)]
  <2> SUFFICES ASSUME NEW u \in SUBSET (1 .. n) PROVE g[u] = Value(g, u)
    BY <1>1
  <2>1. u # {} => g[u \ {Most(u)}] \in V /\ Most(u) \in 1 .. n
    BY <1>6
  <2> QED
    BY <1>7, <2>1
<1>9. iter = [u \in SUBSET (1 .. n) |-> Value(iter, u)]
  <2> HIDE DEF Value
  <2> QED
    BY <1>1, <1>8 DEF iter
<1>10. iter[{}] = start
  BY <1>9
<1>11. Recurs(iter, n, V, start, step)
  BY <1>6, <1>9, <1>10 DEF Recurs
<1>12. PICK p \in [0 .. n -> V] :
          /\ p[0] = start /\ p[n] = iter[1 .. n]
          /\ \A k \in 1 .. n : p[k] = step[<<p[k - 1], k>>]
  <2> HIDE DEF step, Value
  <2>1. ListSteps(n, V, start, step, iter[1 .. n]) # {}
    BY <1>1, <1>2, <1>5, <1>11, FoldSteps
  <2> QED
    BY <2>1 DEF ListSteps
<1>13. \A k \in 1 .. n : p[k] = Aggregate(p[k - 1], txs[k])
  <2>1. \A k \in 1 .. n : p[k - 1] \in V
    BY <1>1
  <2> QED
    BY <1>12, <2>1
<1> QED
  BY <1>1, <1>4, <1>12, <1>13 DEF Aggregates, n, V, start
\* Lists l that start empty, each of them the one before with another of x,
\* sorted; what is in the last one; and lists that have nothing in common.
Collects(l, x, n, X) ==
    /\ l \in [0 .. n -> Seq(X)] /\ x \in [1 .. n -> Seq(X)]
    /\ l[0] = <<>>
    /\ \A k \in 1 .. n : Rearranges(l[k], l[k - 1] \o x[k])

FromSome(S, x, n) == \A c \in S : \E k \in 1 .. n : c \in ToSet(x[k])

Apart(x, n) == \A i, j \in 1 .. n : i # j => ToSet(x[i]) \cap ToSet(x[j]) = {}

EachOnce(x, n) == \A i \in 1 .. n : Injective(x[i])

\* What is collected comes from one of the lists; it has nothing twice exactly if
\* no two of the lists have anything in common, and none has anything twice.
LEMMA Collected ==
    ASSUME NEW n \in Nat, NEW X, NEW l, NEW x, Collects(l, x, n, X)
    PROVE  /\ FromSome(ToSet(l[n]), x, n)
           /\ Injective(l[n]) <=> Apart(x, n) /\ EachOnce(x, n)
PROOF
<1> DEFINE T == {k \in 0 .. n : /\ FromSome(ToSet(l[k]), x, k)
                                /\ \A i \in 1 .. k : ToSet(x[i]) \subseteq ToSet(l[k])
                                /\ Injective(l[k]) <=> Apart(x, k) /\ EachOnce(x, k)}
<1>1. \A k \in 0 .. n : l[k] \in Seq(X)
  BY DEF Collects
<1>2. \A k \in 1 .. n : x[k] \in Seq(X)
  BY DEF Collects
<1>3. 0 \in T
  <2>1. ToSet(l[0]) = {}
    BY DEF Collects, ToSet
  <2> QED
    BY <2>1 DEF FromSome, Apart, EachOnce, Collects, Injective
<1>4. ASSUME NEW k \in 1 .. n, k - 1 \in T PROVE k \in T
  <2> DEFINE m == k - 1
             a == l[m]
             b == x[k]
             c == l[k]
  <2>1. /\ m \in 0 .. n /\ FromSome(ToSet(a), x, m)
        /\ \A i \in 1 .. m : ToSet(x[i]) \subseteq ToSet(a)
        /\ Injective(a) <=> Apart(x, m) /\ EachOnce(x, m)
    BY <1>4
  <2>2. a \in Seq(X) /\ b \in Seq(X) /\ Rearranges(c, a \o b)
    BY <1>1, <1>2, <2>1 DEF Collects
  <2>3. \A i \in 1 .. k : i \in 1 .. m \/ i = k
    OBVIOUS
  <2>4. \A i \in 1 .. m : i \in 1 .. k
    OBVIOUS
  <2> HIDE DEF T, m
  <2>5. a \o b \in Seq(X) /\ ToSet(a \o b) = ToSet(a) \cup ToSet(b)
    <3> HIDE DEF a, b
    <3> QED
      BY <2>2, Joined
  <2>6. Injective(a \o b) <=>
            Injective(a) /\ Injective(b) /\ ToSet(a) \cap ToSet(b) = {}
    <3> HIDE DEF a, b
    <3> QED
      BY <2>2, Joined
  <2>7. ToSet(c) = ToSet(a) \cup ToSet(b) /\ (Injective(c) <=> Injective(a \o b))
    <3> HIDE DEF a, b, c
    <3> QED
      BY <2>2, <2>5, Rearranged
  <2>8. FromSome(ToSet(c), x, k)
    BY <2>1, <2>4, <2>7 DEF FromSome
  <2>9. \A i \in 1 .. k : ToSet(x[i]) \subseteq ToSet(c)
    BY <2>1, <2>3, <2>7
  <2>10. ToSet(a) \cap ToSet(b) = {} <=> \A i \in 1 .. m : ToSet(x[i]) \cap ToSet(b) = {}
    <3>1. \A y \in ToSet(a) : \E i \in 1 .. m : y \in ToSet(x[i])
      BY <2>1 DEF FromSome
    <3> QED
      BY <2>1, <3>1
  <2>11. Apart(x, k) <=>
             Apart(x, m) /\ \A i \in 1 .. m : ToSet(x[i]) \cap ToSet(b) = {}
    <3>1. k \in 1 .. k /\ \A i \in 1 .. m : i # k
      BY DEF m
    <3> QED
      BY <2>3, <2>4, <3>1 DEF Apart
  <2>12. EachOnce(x, k) <=> EachOnce(x, m) /\ Injective(b)
    <3>1. k \in 1 .. k
      OBVIOUS
    <3> QED
      BY <2>3, <2>4, <3>1 DEF EachOnce
  <2>13. Injective(c) <=> Apart(x, k) /\ EachOnce(x, k)
    BY <2>1, <2>6, <2>7, <2>10, <2>11, <2>12
  <2> QED
    BY <2>8, <2>9, <2>13 DEF T
<1> HIDE DEF T
<1>5. n \in T
  BY <1>3, <1>4, BoundedInduction
<1> QED
  BY <1>5 DEF T

\* What the transactions have in their lists.
InsOf(txs) == [i \in 1 .. Len(txs) |-> txs[i].body.ins]
OutsOf(txs) == [i \in 1 .. Len(txs) |-> txs[i].body.outs]
ExcessesOf(txs) == [i \in 1 .. Len(txs) |-> Excesses(txs[i].body.kernels)]

\* The excesses of an aggregate are those of both transactions.
LEMMA AggregatedExcesses ==
    ASSUME NEW a \in Transaction, NEW b \in Transaction, NEW c, c = Aggregate(a, b)
    PROVE  Rearranges(Excesses(c.body.kernels),
                      Excesses(a.body.kernels) \o Excesses(b.body.kernels))
PROOF
<1> DEFINE s == a.body.kernels
           t == b.body.kernels
           u == c.body.kernels
<1>1. s \in Seq(Kernel) /\ t \in Seq(Kernel)
  BY DEF Transaction, TxBody
<1>2. c \in Transaction /\ Rearranges(u, s \o t)
  BY AggregateOf
<1>3. u \in Seq(Kernel)
  BY <1>2 DEF Transaction, TxBody
<1> HIDE DEF s, t, u
<1>4. Rearranges(MapList(Excess, u), MapList(Excess, s) \o MapList(Excess, t))
  BY <1>1, <1>2, KernelFunctions, MapRearranged
<1> QED
  BY <1>1, <1>3, <1>4, KernelLists DEF s, t, u

\* An input or an output of an aggregate is one of a transaction in it; a list of
\* it has nothing twice exactly if no two transactions share anything of it, and
\* none has anything twice.
LEMMA AggregatedLists ==
    ASSUME NEW txs \in Seq(Transaction)
    PROVE  LET body == Aggregated(txs).body
               n == Len(txs)
           IN  /\ Aggregated(txs) \in Transaction
               /\ FromSome(ToSet(body.ins), InsOf(txs), n)
               /\ FromSome(ToSet(body.outs), OutsOf(txs), n)
               /\ Injective(body.ins) <=> Apart(InsOf(txs), n) /\ EachOnce(InsOf(txs), n)
               /\ Injective(body.outs) <=> Apart(OutsOf(txs), n) /\ EachOnce(OutsOf(txs), n)
               /\ Injective(Excesses(body.kernels)) <=>
                      Apart(ExcessesOf(txs), n) /\ EachOnce(ExcessesOf(txs), n)
PROOF
<1> DEFINE n == Len(txs)
<1>1. n \in Nat /\ DOMAIN txs = 1 .. n /\ \A k \in 1 .. n : txs[k] \in Transaction
  OBVIOUS
<1> HIDE DEF n
<1>2. PICK p \in [0 .. n -> Transaction] :
          /\ p[0] = NoTransaction /\ p[n] = Aggregated(txs)
          /\ \A k \in 1 .. n : p[k] = Aggregate(p[k - 1], txs[k])
  BY AggregatedSteps DEF Aggregates, n
<1>3. \A k \in 0 .. n : p[k] \in Transaction
  BY <1>2
<1>4. \A t \in Transaction : /\ t.body.ins \in Seq(Commitment)
                             /\ t.body.outs \in Seq(Commitment)
                             /\ t.body.kernels \in Seq(Kernel)
  BY DEF Transaction, TxBody
<1>5. \A k \in 1 .. n : k - 1 \in 0 .. n
  BY <1>1
<1>6. ASSUME NEW k \in 1 .. n
      PROVE  /\ Rearranges(p[k].body.ins, p[k - 1].body.ins \o txs[k].body.ins)
             /\ Rearranges(p[k].body.outs, p[k - 1].body.outs \o txs[k].body.outs)
             /\ Rearranges(Excesses(p[k].body.kernels),
                           Excesses(p[k - 1].body.kernels) \o Excesses(txs[k].body.kernels))
  <2>1. p[k - 1] \in Transaction /\ txs[k] \in Transaction
    BY <1>1, <1>3, <1>5
  <2>2. p[k] = Aggregate(p[k - 1], txs[k])
    BY <1>2
  <2>3. /\ Rearranges(p[k].body.ins, p[k - 1].body.ins \o txs[k].body.ins)
        /\ Rearranges(p[k].body.outs, p[k - 1].body.outs \o txs[k].body.outs)
    BY <2>1, <2>2, AggregateOf
  <2> DEFINE a == p[k - 1]
             b == txs[k]
             c == p[k]
  <2>4. /\ a \in Transaction /\ b \in Transaction /\ c \in Transaction
        /\ c = Aggregate(a, b)
    BY <1>3, <2>1, <2>2
  <2> HIDE DEF a, b, c
  <2>5. Rearranges(Excesses(c.body.kernels),
                   Excesses(a.body.kernels) \o Excesses(b.body.kernels))
    BY <2>4, AggregatedExcesses
  <2> QED
    BY <2>3, <2>5 DEF a, b, c
<1> DEFINE ins == [k \in 0 .. n |-> p[k].body.ins]
           outs == [k \in 0 .. n |-> p[k].body.outs]
           excesses == [k \in 0 .. n |-> Excesses(p[k].body.kernels)]
<1>7. /\ 0 \in 0 .. n /\ n \in 0 .. n
      /\ p[0].body.ins = <<>> /\ p[0].body.outs = <<>>
      /\ Excesses(p[0].body.kernels) = <<>>
  BY <1>1, <1>2 DEF NoTransaction, EmptyBody, Excesses
<1>8. Collects(ins, InsOf(txs), n, Commitment)
  BY <1>1, <1>3, <1>4, <1>5, <1>6, <1>7 DEF Collects, InsOf, n
<1>9. Collects(outs, OutsOf(txs), n, Commitment)
  BY <1>1, <1>3, <1>4, <1>5, <1>6, <1>7 DEF Collects, OutsOf, n
<1>10. Collects(excesses, ExcessesOf(txs), n, Int)
  <2>1. \A t \in Transaction : Excesses(t.body.kernels) \in Seq(Int)
    BY <1>4, KernelFunctions, KernelLists, MapSum
  <2> QED
    BY <1>1, <1>3, <1>5, <1>6, <1>7, <2>1 DEF Collects, ExcessesOf, n
<1>11. /\ ins[n] = Aggregated(txs).body.ins /\ outs[n] = Aggregated(txs).body.outs
       /\ excesses[n] = Excesses(Aggregated(txs).body.kernels)
  BY <1>2, <1>7
<1> HIDE DEF ins, outs, excesses
<1>12. /\ FromSome(ToSet(ins[n]), InsOf(txs), n)
       /\ Injective(ins[n]) <=> Apart(InsOf(txs), n) /\ EachOnce(InsOf(txs), n)
  BY <1>1, <1>8, Collected
<1>13. /\ FromSome(ToSet(outs[n]), OutsOf(txs), n)
       /\ Injective(outs[n]) <=> Apart(OutsOf(txs), n) /\ EachOnce(OutsOf(txs), n)
  BY <1>1, <1>9, Collected
<1>14. Injective(excesses[n]) <=>
           Apart(ExcessesOf(txs), n) /\ EachOnce(ExcessesOf(txs), n)
  BY <1>1, <1>10, Collected
<1>15. Aggregated(txs) \in Transaction
  BY <1>2, <1>3, <1>7
<1> QED
  BY <1>11, <1>12, <1>13, <1>14, <1>15 DEF n
\* An offset that is what the sums of the body leave.
OffsetIsOwn(tx) == tx.kernel_offset = OwnOffset(tx.body)

\* The sums of a body are integers, the offset that makes them right is one.
LEMMA OwnOffsetType ==
    ASSUME NEW body, body.ins \in Seq(Commitment), body.outs \in Seq(Commitment),
           body.kernels \in Seq(Kernel)
    PROVE  /\ SumFunction(Amounts(body.ins)) \in Int
           /\ SumFunction(Amounts(body.outs)) \in Int
           /\ SumFunction(Blinds(body.ins)) \in Int
           /\ SumFunction(Blinds(body.outs)) \in Int
           /\ SumFunction(Excesses(body.kernels)) \in Int
           /\ SumFunction(SupplyChanges(body.kernels)) \in Int
           /\ OwnOffset(body) \in Int
PROOF
<1>1. \A cs \in Seq(Commitment) : /\ SumFunction(MapList(Amount, cs)) \in Int
                                  /\ SumFunction(MapList(Blind, cs)) \in Int
  BY CoinTypes, MapSum
<1>2. \A cs \in Seq(Commitment) :
          SumFunction(Amounts(cs)) \in Int /\ SumFunction(Blinds(cs)) \in Int
  BY <1>1, CoinLists
<1>3. \A ks \in Seq(Kernel) : /\ SumFunction(MapList(Excess, ks)) \in Int
                              /\ SumFunction(MapList(SupplyChange, ks)) \in Int
  BY KernelFunctions, MapSum
<1>4. \A ks \in Seq(Kernel) :
          SumFunction(Excesses(ks)) \in Int /\ SumFunction(SupplyChanges(ks)) \in Int
  BY <1>3, KernelLists
<1>5. /\ SumFunction(Amounts(body.ins)) \in Int /\ SumFunction(Blinds(body.ins)) \in Int
  BY <1>2
<1>6. /\ SumFunction(Amounts(body.outs)) \in Int /\ SumFunction(Blinds(body.outs)) \in Int
  BY <1>2
<1>7. /\ SumFunction(Excesses(body.kernels)) \in Int
      /\ SumFunction(SupplyChanges(body.kernels)) \in Int
  BY <1>4
<1>8. \A i, j, k \in Int : i - j - k \in Int
  OBVIOUS
<1>9. OwnOffset(body) \in Int
  BY <1>5, <1>6, <1>7, <1>8 DEF OwnOffset
<1> QED
  BY <1>5, <1>6, <1>7, <1>9

\* A valid transaction, as every body with an offset for which its sums are
\* right, has the offset that these leave, and its coins are worth what its
\* kernels say.
LEMMA RightSums ==
    ASSUME NEW body, body.ins \in Seq(Commitment), body.outs \in Seq(Commitment),
           body.kernels \in Seq(Kernel), NEW offset \in Int,
           ValidateForTx(body, offset)
    PROVE  /\ offset = OwnOffset(body)
           /\ SumFunction(Amounts(body.outs)) - SumFunction(Amounts(body.ins))
                  = SumFunction(SupplyChanges(body.kernels))
PROOF
<1> DEFINE r == SumFunction(Blinds(body.outs)) - SumFunction(Blinds(body.ins))
           e == SumFunction(Excesses(body.kernels))
<1>1. r = e + offset
      /\ SumFunction(Amounts(body.outs)) - SumFunction(Amounts(body.ins))
             = SumFunction(SupplyChanges(body.kernels))
  BY DEF ValidateForTx, ValidateSums
<1>2. r \in Int /\ e \in Int
  <2>1. \A i, j \in Int : i - j \in Int
    OBVIOUS
  <2> QED
    BY <2>1, OwnOffsetType
<1>3. OwnOffset(body) = r - e
  BY DEF OwnOffset
<1> HIDE DEF r, e
<1>4. offset = r - e
  BY <1>1, <1>2
<1> QED
  BY <1>1, <1>3, <1>4

\* The sums of a valid transaction determine its offset.
LEMMA ValidOffset ==
    ASSUME NEW tx \in Transaction, ValidTx(tx)
    PROVE  OffsetIsOwn(tx)
PROOF
<1>1. /\ tx.body.ins \in Seq(Commitment) /\ tx.body.outs \in Seq(Commitment)
      /\ tx.body.kernels \in Seq(Kernel) /\ tx.kernel_offset \in Int
  BY DEF Transaction, TxBody
<1>2. ValidateForTx(tx.body, tx.kernel_offset)
  BY DEF ValidTx
<1> QED
  BY <1>1, <1>2, RightSums DEF OffsetIsOwn

\* The sums of an aggregate are those of both transactions.
LEMMA AggregateOffset ==
    ASSUME NEW a \in Transaction, NEW b \in Transaction,
           OffsetIsOwn(a), OffsetIsOwn(b)
    PROVE  OffsetIsOwn(Aggregate(a, b))
PROOF
<1> DEFINE c == Aggregate(a, b)
           Out(t) == SumFunction(Blinds(t.body.outs))
           In(t) == SumFunction(Blinds(t.body.ins))
           Ex(t) == SumFunction(Excesses(t.body.kernels))
<1>1. \A t \in Transaction : /\ t.body.ins \in Seq(Commitment)
                             /\ t.body.outs \in Seq(Commitment)
                             /\ t.body.kernels \in Seq(Kernel)
                             /\ t.kernel_offset \in Int
  BY DEF Transaction, TxBody
<1>2. c \in Transaction /\ c.kernel_offset = a.kernel_offset + b.kernel_offset
  BY AggregateOf
<1>3. Rearranges(c.body.ins, a.body.ins \o b.body.ins)
  BY AggregateOf
<1>4. Rearranges(c.body.outs, a.body.outs \o b.body.outs)
  BY AggregateOf
<1>5. Rearranges(c.body.kernels, a.body.kernels \o b.body.kernels)
  BY AggregateOf
<1> HIDE DEF c
<1>6. Out(c) = Out(a) + Out(b)
  <2>1. SumFunction(MapList(Blind, c.body.outs)) =
            SumFunction(MapList(Blind, a.body.outs)) + SumFunction(MapList(Blind, b.body.outs))
    BY <1>1, <1>4, CoinTypes, MapSums
  <2> QED
    BY <1>1, <1>2, <2>1, CoinLists
<1>7. In(c) = In(a) + In(b)
  <2>1. SumFunction(MapList(Blind, c.body.ins)) =
            SumFunction(MapList(Blind, a.body.ins)) + SumFunction(MapList(Blind, b.body.ins))
    BY <1>1, <1>3, CoinTypes, MapSums
  <2> QED
    BY <1>1, <1>2, <2>1, CoinLists
<1>8. Ex(c) = Ex(a) + Ex(b)
  <2>1. SumFunction(MapList(Excess, c.body.kernels)) =
            SumFunction(MapList(Excess, a.body.kernels))
                + SumFunction(MapList(Excess, b.body.kernels))
    BY <1>1, <1>5, KernelFunctions, MapSums
  <2> QED
    BY <1>1, <1>2, <2>1, KernelLists
<1>9. \A t \in Transaction : Out(t) \in Int /\ In(t) \in Int /\ Ex(t) \in Int
  BY <1>1, OwnOffsetType
<1>10. \A t \in Transaction : OwnOffset(t.body) = Out(t) - In(t) - Ex(t)
  BY DEF OwnOffset
<1> HIDE DEF Out, In, Ex
<1>11. a.kernel_offset = Out(a) - In(a) - Ex(a) /\ b.kernel_offset = Out(b) - In(b) - Ex(b)
  BY <1>10 DEF OffsetIsOwn
<1>12. \A i, j, k, l, m, n \in Int : (i - j - k) + (l - m - n) = (i + l) - (j + m) - (k + n)
  OBVIOUS
<1>13. c.kernel_offset = (Out(a) + Out(b)) - (In(a) + In(b)) - (Ex(a) + Ex(b))
  BY <1>2, <1>9, <1>11, <1>12
<1>14. c.kernel_offset = Out(c) - In(c) - Ex(c)
  BY <1>6, <1>7, <1>8, <1>13
<1> QED
  BY <1>2, <1>10, <1>14 DEF OffsetIsOwn, c

\* The offset of the aggregate of valid transactions makes its sums right.
AllValid(txs) == \A i \in 1 .. Len(txs) : ValidTx(txs[i])

\* Each transaction adds its own offset.
LEMMA AggregatedOffset ==
    ASSUME NEW txs \in Seq(Transaction), AllValid(txs)
    PROVE  OffsetIsOwn(Aggregated(txs))
PROOF
<1> DEFINE n == Len(txs)
<1>1. n \in Nat /\ \A k \in 1 .. n : txs[k] \in Transaction
  OBVIOUS
<1>2. \A k \in 1 .. n : OffsetIsOwn(txs[k])
  BY <1>1, ValidOffset DEF AllValid
<1> HIDE DEF n
<1>3. PICK p \in [0 .. n -> Transaction] :
          /\ p[0] = NoTransaction /\ p[n] = Aggregated(txs)
          /\ \A k \in 1 .. n : p[k] = Aggregate(p[k - 1], txs[k])
  BY AggregatedSteps DEF Aggregates, n
<1> DEFINE T == {k \in 0 .. n : OffsetIsOwn(p[k])}
<1>4. 0 \in T
  <2>1. SumFunction(<<>>) = 0
    BY SumEmpty DEF SumFunction
  <2>2. Blinds(<<>>) = <<>> /\ Excesses(<<>>) = <<>>
    BY DEF Blinds, Excesses
  <2>3. OwnOffset(EmptyBody) = 0
    BY <2>1, <2>2 DEF OwnOffset, EmptyBody
  <2> QED
    BY <1>1, <1>3, <2>3 DEF OffsetIsOwn, NoTransaction
<1>5. ASSUME NEW k \in 1 .. n, k - 1 \in T PROVE k \in T
  <2>1. p[k - 1] \in Transaction /\ OffsetIsOwn(p[k - 1])
    BY <1>3, <1>5
  <2>2. OffsetIsOwn(p[k])
    BY <1>1, <1>2, <1>3, <2>1, AggregateOffset
  <2> QED
    BY <2>2
<1> HIDE DEF T
<1>6. 0 .. n \subseteq T
  BY <1>1, <1>4, <1>5, BoundedInduction
<1>7. n \in T
  BY <1>1, <1>6
<1> QED
  BY <1>3, <1>7 DEF T
-----------------------------------------------------------------------------
(* States: their coins, and the blocks that connect.                       *)

\* An unspent coin is the last output with its commitment.
Latest(s) ==
    \A u \in s.utxos : \A i \in DOMAIN s.txos : s.txos[i] = u[1] => i <= u[2] + 1

\* A state of the chain, and the offset in its header.
Place == [s : StateType, offset : Int]

SoundState(s) == s \in StateType /\ CoinsSound(s) /\ Latest(s)

\* The coins of a state but for those of some commitments, and leaf indices.
Kept(s, ins) == {u \in s.utxos : u[1] \notin ins}
LeafOf(U) == {u[2] : u \in U}

\* What follows for the parts of a sound state.
LEMMA StateFields ==
    ASSUME NEW s, SoundState(s)
    PROVE  /\ s.txos \in Seq(Commitment) /\ s.kernels \in Seq(Kernel)
           /\ \A u \in s.utxos : /\ u = <<u[1], u[2]>>
                                 /\ u[1] \in Commitment /\ u[2] \in Nat
                                 /\ u[2] + 1 \in DOMAIN s.txos
                                 /\ s.txos[u[2] + 1] = u[1]
           /\ \A u, w \in s.utxos : u[1] = w[1] => u = w
PROOF
<1>1. s.txos \in Seq(Commitment) /\ s.kernels \in Seq(Kernel)
  BY DEF SoundState, StateType
<1>2. \A u \in s.utxos : u = <<u[1], u[2]>> /\ u[1] \in Commitment /\ u[2] \in Nat
  BY DEF SoundState, StateType
<1>3. \A u \in s.utxos : u[2] < Len(s.txos) /\ s.txos[u[2] + 1] = u[1]
  BY DEF SoundState, CoinsSound
<1>4. \A u, w \in s.utxos : u[1] = w[1] => u = w
  BY DEF SoundState, CoinsSound
<1>5. ASSUME NEW u \in s.utxos PROVE u[2] + 1 \in DOMAIN s.txos
  <2> DEFINE l == u[2]
             n == Len(s.txos)
  <2>1. DOMAIN s.txos = 1 .. n /\ n \in Nat
    BY <1>1
  <2>2. l \in Nat /\ l < n
    BY <1>2, <1>3
  <2> HIDE DEF l, n
  <2>3. l + 1 \in 1 .. n
    BY <2>1, <2>2
  <2> QED
    BY <2>1, <2>3 DEF l
<1> QED
  BY <1>1, <1>2, <1>3, <1>4, <1>5

\* The state before the first block is sound.
LEMMA GenesisState == SoundState(Genesis)
PROOF
<1>1. Latest(Genesis)
  BY DEF Latest, Genesis, State
<1> QED
  BY <1>1, GenesisSound DEF SoundState

\* What is mined: coins above those there were, one for each output.
LEMMA MinedCoins ==
    ASSUME NEW b, b.outs \in Seq(Commitment), NEW n \in Nat
    PROVE  /\ \A i \in DOMAIN b.outs : /\ <<b.outs[i], n + i - 1>> \in Mined(b, n)
                                       /\ i \in Nat /\ i >= 1
           /\ \A u \in Mined(b, n) :
                  /\ u[1] \in ToSet(b.outs) /\ u[2] \in Nat /\ u[2] >= n
                  /\ u[2] + 1 - n \in DOMAIN b.outs
                  /\ u[1] = b.outs[u[2] + 1 - n]
                  /\ u = <<u[1], u[2]>>
PROOF
<1>1. \A i \in DOMAIN b.outs : i \in Nat /\ i >= 1 /\ b.outs[i] \in Commitment
  OBVIOUS
<1>2. \A i \in DOMAIN b.outs : <<b.outs[i], n + i - 1>> \in Mined(b, n)
  BY DEF Mined
<1>3. ASSUME NEW u \in Mined(b, n)
      PROVE  /\ u[1] \in ToSet(b.outs) /\ u[2] \in Nat /\ u[2] >= n
             /\ u[2] + 1 - n \in DOMAIN b.outs
             /\ u[1] = b.outs[u[2] + 1 - n]
             /\ u = <<u[1], u[2]>>
  <2>1. PICK i \in DOMAIN b.outs : u = <<b.outs[i], n + i - 1>>
    BY DEF Mined
  <2>2. u[1] = b.outs[i] /\ u[2] = n + i - 1 /\ u = <<u[1], u[2]>>
    BY <2>1
  <2>3. u[2] \in Nat /\ u[2] >= n /\ u[2] + 1 - n = i
    BY <1>1, <2>2
  <2> QED
    BY <2>2, <2>3 DEF ToSet
<1> QED
  BY <1>1, <1>2, <1>3

\* Every input spends the one coin of its commitment.
LEMMA SpentCoins ==
    ASSUME NEW s, SoundState(s), NEW ins, ins \subseteq Unspent(s)
    PROVE  s.utxos \ {Newest(s, c) : c \in ins} = Kept(s, ins)
PROOF
<1>1. \A c \in ins : Newest(s, c) \in s.utxos /\ Newest(s, c)[1] = c
  BY NewestIsCoin DEF SoundState
<1>2. \A u \in s.utxos : u[1] \in ins => u = Newest(s, u[1])
  BY <1>1, StateFields
<1> QED
  BY <1>1, <1>2 DEF Kept

\* The coins after a block.
LEMMA AppliedCoins ==
    ASSUME NEW s, SoundState(s), NEW b, b.ins \subseteq Unspent(s)
    PROVE  Apply(s, b).utxos = Kept(s, b.ins) \cup Mined(b, Len(s.txos))
  BY SpentCoins, ApplyFields

\* A block leaves a state sound whose unspent coins have other commitments than
\* its outputs.
LEMMA SoundApplied ==
    ASSUME NEW s, SoundState(s), NEW b, IsBlock(b), Extends(s, b)
    PROVE  SoundState(Apply(s, b))
PROOF
<1> DEFINE t == Apply(s, b)
           n == Len(s.txos)
<1>1. t \in StateType /\ CoinsSound(t)
  BY AppliedType, AppliedSound DEF SoundState
<1>2. s.txos \in Seq(Commitment) /\ b.outs \in Seq(Commitment) /\ n \in Nat
  BY StateFields DEF IsBlock
<1>3. t.txos = s.txos \o b.outs /\ t.utxos = Kept(s, b.ins) \cup Mined(b, n)
  BY AppliedCoins, ApplyFields DEF Extends
<1>4. /\ \A i \in 1 .. n : t.txos[i] = s.txos[i]
      /\ \A i \in DOMAIN t.txos :
            i \notin 1 .. n => i - n \in DOMAIN b.outs /\ t.txos[i] = b.outs[i - n]
      /\ \A i \in DOMAIN t.txos : i \in Nat /\ (i \in 1 .. n <=> i <= n)
  <2> DEFINE x == s.txos
             y == b.outs
  <2>1. x \in Seq(Commitment) /\ y \in Seq(Commitment) /\ t.txos = x \o y /\ n = Len(x)
    BY <1>2, <1>3
  <2> HIDE DEF x, y, n
  <2>2. /\ \A i \in 1 .. n : (x \o y)[i] = x[i]
        /\ \A i \in 1 .. n + Len(y) :
              i \notin 1 .. n => i - n \in 1 .. Len(y) /\ (x \o y)[i] = y[i - n]
    BY <2>1, JoinedAt
  <2>3. DOMAIN (x \o y) = 1 .. n + Len(y) /\ DOMAIN y = 1 .. Len(y)
    BY <2>1
  <2>4. \A i \in 1 .. n + Len(y) : i \in Nat /\ (i \in 1 .. n <=> i <= n)
    BY <1>2, <2>1
  <2> QED
    BY <2>1, <2>2, <2>3, <2>4 DEF x, y
<1>5. \A u \in Kept(s, b.ins) : u \in s.utxos /\ u[1] \notin ToSet(b.outs)
  BY DEF Kept, Extends, Unspent, Outs, ToSet
<1> HIDE DEF t, n
<1>6. ASSUME NEW u \in t.utxos, NEW i \in DOMAIN t.txos, t.txos[i] = u[1]
      PROVE  i <= u[2] + 1
  <2>1. CASE u \in Kept(s, b.ins)
    <3>1. i \in 1 .. n
      BY <1>4, <1>5, <1>6, <2>1 DEF ToSet
    <3>2. s.txos[i] = u[1] /\ i \in DOMAIN s.txos /\ u \in s.utxos
      BY <1>2, <1>4, <1>5, <1>6, <2>1, <3>1 DEF n
    <3> QED
      BY <3>2 DEF SoundState, Latest
  <2>2. CASE u \in Mined(b, n)
    <3>1. /\ u[2] \in Nat /\ u[2] >= n /\ u[2] + 1 - n \in DOMAIN b.outs
          /\ u[1] = b.outs[u[2] + 1 - n]
      BY <1>2, <2>2, MinedCoins
    <3>2. i \in Nat /\ (i \in 1 .. n <=> i <= n)
      BY <1>4
    <3>3. CASE i \in 1 .. n
      BY <1>2, <3>1, <3>2, <3>3
    <3>4. CASE i \notin 1 .. n
      <4>1. i - n \in DOMAIN b.outs /\ b.outs[i - n] = b.outs[u[2] + 1 - n]
        BY <1>4, <1>6, <3>1, <3>4
      <4>2. i - n = u[2] + 1 - n
        BY <3>1, <4>1 DEF IsBlock
      <4> DEFINE l == u[2]
      <4> HIDE DEF l
      <4>3. l \in Nat /\ i - n = l + 1 - n
        BY <3>1, <4>2 DEF l
      <4>4. i <= l + 1
        BY <1>2, <3>2, <4>3
      <4> QED
        BY <4>4 DEF l
    <3> QED
      BY <3>3, <3>4
  <2> QED
    BY <1>3, <2>1, <2>2
<1>7. Latest(t)
  BY <1>6 DEF Latest
<1> QED
  BY <1>1, <1>7 DEF SoundState, t

\* States with the same outputs have the same coins, when both have a coin of
\* some commitments and, but for these, the same leaves.
LEMMA SameCoins ==
    ASSUME NEW s, SoundState(s), NEW t, SoundState(t), s.txos = t.txos,
           NEW ins, ins \subseteq Unspent(s), ins \subseteq Unspent(t),
           LeafOf(Kept(s, ins)) = LeafOf(Kept(t, ins))
    PROVE  s.utxos = t.utxos
PROOF
<1>1. \A q, r : /\ SoundState(q) /\ SoundState(r) /\ q.txos = r.txos
                /\ ins \subseteq Unspent(r)
                /\ LeafOf(Kept(q, ins)) \subseteq LeafOf(Kept(r, ins))
                => q.utxos \subseteq r.utxos
  <2> SUFFICES ASSUME NEW q, NEW r, SoundState(q), SoundState(r), q.txos = r.txos,
                      ins \subseteq Unspent(r),
                      LeafOf(Kept(q, ins)) \subseteq LeafOf(Kept(r, ins)),
                      NEW u \in q.utxos
               PROVE  u \in r.utxos
    OBVIOUS
  <2>1. u = <<u[1], u[2]>> /\ u[2] \in Nat /\ u[2] + 1 \in DOMAIN r.txos
        /\ r.txos[u[2] + 1] = u[1]
    BY StateFields
  <2>2. CASE u[1] \in ins
    <3>1. PICK w \in r.utxos : w[1] = u[1]
      BY <2>2 DEF Unspent
    <3>2. w = <<w[1], w[2]>> /\ w[2] \in Nat /\ w[2] + 1 \in DOMAIN q.txos
          /\ q.txos[w[2] + 1] = w[1]
      BY StateFields
    <3>3. u[2] + 1 <= w[2] + 1
      BY <2>1, <3>1 DEF SoundState, Latest
    <3>4. w[2] + 1 <= u[2] + 1
      BY <3>1, <3>2 DEF SoundState, Latest
    <3>5. u[2] = w[2]
      BY <2>1, <3>2, <3>3, <3>4
    <3> QED
      BY <2>1, <3>1, <3>2, <3>5
  <2>3. CASE u[1] \notin ins
    <3>1. u[2] \in LeafOf(Kept(q, ins))
      BY <2>3 DEF LeafOf, Kept
    <3>2. u[2] \in LeafOf(Kept(r, ins))
      BY <3>1
    <3>3. PICK w \in r.utxos : w[2] = u[2]
      BY <3>2 DEF LeafOf, Kept
    <3>4. w = <<w[1], w[2]>> /\ r.txos[w[2] + 1] = w[1]
      BY StateFields
    <3> QED
      BY <2>1, <3>3, <3>4
  <2> QED
    BY <2>2, <2>3
<1>2. s.utxos \subseteq t.utxos
  BY <1>1
<1>3. t.utxos \subseteq s.utxos
  BY <1>1
<1> QED
  BY <1>2, <1>3

\* What two lists have in front of the same list is the same when the whole is.
LEMMA SameFront ==
    ASSUME NEW X, NEW a \in Seq(X), NEW b \in Seq(X), NEW c \in Seq(X), a \o c = b \o c
    PROVE  a = b
PROOF
<1>1. Len(a) \in Nat /\ Len(b) \in Nat /\ Len(c) \in Nat
  OBVIOUS
<1>2. Len(a \o c) = Len(a) + Len(c) /\ Len(b \o c) = Len(b) + Len(c)
  OBVIOUS
<1>3. Len(a) = Len(b)
  BY <1>1, <1>2
<1>4. \A i \in 1 .. Len(a) : (a \o c)[i] = a[i]
  BY JoinedAt
<1>5. \A i \in 1 .. Len(b) : (b \o c)[i] = b[i]
  BY JoinedAt
<1>6. \A i \in 1 .. Len(a) : a[i] = b[i]
  BY <1>3, <1>4, <1>5
<1> DEFINE J == 1 .. Len(a)
<1>7. a \in [J -> X] /\ b \in [J -> X] /\ \A i \in J : a[i] = b[i]
  BY <1>3, <1>6
<1> HIDE DEF J
<1> QED
  BY <1>7, SameValues
\* What AddTransaction has found of the transactions of a builder.
TakenOn(txs, s) ==
    /\ txs \in Seq(Transaction)
    /\ \A i \in 1 .. Len(txs) : /\ ValidTx(txs[i])
                                /\ ToSet(txs[i].body.ins) \subseteq Unspent(s)
                                /\ ToSet(txs[i].body.outs) \cap Unspent(s) = {}

\* It holds of the block that they make as well.
LEMMA BuiltOn ==
    ASSUME NEW s, NEW txs, TakenOn(txs, s), NEW tx, tx = Aggregated(txs)
    PROVE  /\ tx \in Transaction
           /\ tx.body.ins \in Seq(Commitment) /\ tx.body.outs \in Seq(Commitment)
           /\ tx.body.kernels \in Seq(Kernel) /\ tx.kernel_offset \in Int
           /\ ToSet(tx.body.ins) \subseteq Unspent(s)
           /\ ToSet(tx.body.outs) \cap Unspent(s) = {}
           /\ OffsetIsOwn(tx)
PROOF
<1> DEFINE n == Len(txs)
<1>1. txs \in Seq(Transaction) /\ AllValid(txs)
  BY DEF TakenOn, AllValid
<1>2. /\ tx \in Transaction
      /\ FromSome(ToSet(tx.body.ins), InsOf(txs), n)
      /\ FromSome(ToSet(tx.body.outs), OutsOf(txs), n)
  BY <1>1, AggregatedLists
<1>3. OffsetIsOwn(tx)
  BY <1>1, AggregatedOffset
<1>4. \A i \in 1 .. n : /\ ToSet(txs[i].body.ins) \subseteq Unspent(s)
                        /\ ToSet(txs[i].body.outs) \cap Unspent(s) = {}
  BY DEF TakenOn
<1>5. \A i \in 1 .. n : /\ InsOf(txs)[i] = txs[i].body.ins
                        /\ OutsOf(txs)[i] = txs[i].body.outs
  BY DEF InsOf, OutsOf
<1> HIDE DEF n
<1>6. ToSet(tx.body.ins) \subseteq Unspent(s)
  BY <1>2, <1>4, <1>5 DEF FromSome
<1>7. \A c \in ToSet(tx.body.outs) : c \notin Unspent(s)
  BY <1>2, <1>4, <1>5 DEF FromSome
<1>8. /\ tx.body.ins \in Seq(Commitment) /\ tx.body.outs \in Seq(Commitment)
      /\ tx.body.kernels \in Seq(Kernel) /\ tx.kernel_offset \in Int
  BY <1>2 DEF Transaction, TxBody
<1> QED
  BY <1>2, <1>3, <1>6, <1>7, <1>8

\* Spending from the coins of a state and of a block's outputs, each input takes
\* the coin of the state with its commitment, and the outputs remain.
LEMMA SpendAllCoins ==
    ASSUME NEW s, SoundState(s),
           NEW b, b.ins \in Seq(Commitment), b.outs \in Seq(Commitment),
           ToSet(b.ins) \subseteq Unspent(s), ToSet(b.outs) \cap Unspent(s) = {}
    PROVE  SpendAll(s.utxos \cup Mined(b, Len(s.txos)), b.ins)
               = Kept(s, ToSet(b.ins)) \cup Mined(b, Len(s.txos))
PROOF
<1> DEFINE n == Len(s.txos)
           mined == Mined(b, n)
           U == s.utxos \cup mined
           Over(u) == {w \in U : w[1] = u[1] /\ w[2] > u[2]}
<1>1. n \in Nat
  BY StateFields
<1>2. \A u \in mined : u[1] \in ToSet(b.outs) /\ u[1] \notin Unspent(s)
  BY <1>1, MinedCoins
<1>3. \A u \in s.utxos : u[1] \in Unspent(s) /\ u[2] \in Nat
  BY StateFields DEF Unspent
<1>4. IsFiniteSet(mined)
  <2>1. IsFiniteSet(DOMAIN b.outs)
    <3>1. Len(b.outs) \in Nat /\ DOMAIN b.outs = 1 .. Len(b.outs)
      OBVIOUS
    <3> QED
      BY <3>1, FS_Interval
  <2> DEFINE f == [i \in DOMAIN b.outs |-> <<b.outs[i], n + i - 1>>]
             D == DOMAIN b.outs
  <2>2. f \in Surjection(D, mined)
    BY DEF Mined, Surjection
  <2> HIDE DEF f, D, mined
  <2> QED
    BY <2>1, <2>2, FS_Surjection DEF D
<1>5. ASSUME NEW u \in s.utxos PROVE Over(u) = {}
  <2>1. \A w \in s.utxos : w[1] = u[1] => w = u
    BY StateFields
  <2>2. \A w \in s.utxos : w[1] = u[1] => ~(w[2] > u[2])
    BY <1>3, <2>1
  <2> HIDE DEF mined
  <2> QED
    BY <1>2, <1>3, <2>2
<1>6. ASSUME NEW u \in mined PROVE IsFiniteSet(Over(u))
  <2>1. Over(u) \subseteq mined
    BY <1>2, <1>3
  <2> HIDE DEF mined, Over
  <2> QED
    BY <1>4, <2>1, FS_Subset
<1>7. \A c : c \notin ToSet(b.ins) => Occurrences(c, b.ins) = 0
  <2>1. \A c : c \notin ToSet(b.ins) => {i \in DOMAIN b.ins : b.ins[i] = c} = {}
    BY DEF ToSet
  <2> QED
    BY <2>1, FS_EmptySet DEF Occurrences
<1>8. ASSUME NEW c \in ToSet(b.ins) PROVE Occurrences(c, b.ins) \in Nat \ {0}
  <2> DEFINE W == {i \in DOMAIN b.ins : b.ins[i] = c}
  <2>1. W # {} /\ W \subseteq DOMAIN b.ins
    BY DEF ToSet
  <2>2. IsFiniteSet(DOMAIN b.ins)
    <3>1. Len(b.ins) \in Nat /\ DOMAIN b.ins = 1 .. Len(b.ins)
      OBVIOUS
    <3> QED
      BY <3>1, FS_Interval
  <2> HIDE DEF W
  <2>3. IsFiniteSet(W)
    BY <2>1, <2>2, FS_Subset
  <2>4. Cardinality(W) \in Nat /\ Cardinality(W) # 0
    BY <2>1, <2>3, FS_CardinalityType, FS_EmptySet
  <2> QED
    BY <2>4 DEF Occurrences, W
<1> HIDE DEF n, mined
<1>9. ASSUME NEW u \in s.utxos
      PROVE  Cardinality(Over(u)) >= Occurrences(u[1], b.ins) <=> u[1] \notin ToSet(b.ins)
  <2>1. Cardinality(Over(u)) = 0
    BY <1>5, FS_EmptySet
  <2> HIDE DEF Over
  <2>2. CASE u[1] \in ToSet(b.ins)
    BY <1>8, <2>1, <2>2
  <2>3. CASE u[1] \notin ToSet(b.ins)
    BY <1>7, <2>1, <2>3
  <2> QED
    BY <2>2, <2>3
<1>10. ASSUME NEW u \in mined
       PROVE  Cardinality(Over(u)) >= Occurrences(u[1], b.ins)
  <2>1. Cardinality(Over(u)) \in Nat
    BY <1>6, FS_CardinalityType
  <2>2. Occurrences(u[1], b.ins) = 0
    BY <1>2, <1>7
  <2> HIDE DEF Over
  <2> QED
    BY <2>1, <2>2
<1>11. SpendAll(U, b.ins) = {u \in U : Cardinality(Over(u)) >= Occurrences(u[1], b.ins)}
  BY DEF SpendAll
<1> HIDE DEF Over
<1>12. SpendAll(U, b.ins) = Kept(s, ToSet(b.ins)) \cup mined
  BY <1>9, <1>10, <1>11 DEF Kept
<1> QED
  BY <1>12 DEF mined, n

\* A header tells what it is of.
LEMMA HeaderTells ==
    ASSUME NEW x, NEW k, NEW l, NEW y, NEW j, NEW m,
           HeaderOf(x, k, l) = HeaderOf(y, j, m)
    PROVE  x = y /\ k = j /\ l = m
PROOF
<1>1. /\ HeaderOf(x, k, l).output_root = x /\ HeaderOf(x, k, l).kernel_root = k
      /\ HeaderOf(x, k, l).leafset_root[2] = l
  BY DEF HeaderOf
<1>2. /\ HeaderOf(y, j, m).output_root = y /\ HeaderOf(y, j, m).kernel_root = j
      /\ HeaderOf(y, j, m).leafset_root[2] = m
  BY DEF HeaderOf
<1> QED
  BY <1>1, <1>2

\* So do leaves of new coins and of others.
LEMMA OldLeaves ==
    ASSUME NEW A, NEW B, NEW M, NEW n,
           \A u \in M : u[2] >= n, \A u \in A \cup B : ~(u[2] >= n),
           LeafOf(A \cup M) = LeafOf(B \cup M)
    PROVE  LeafOf(A) = LeafOf(B)
PROOF
<1>1. ASSUME NEW u \in A PROVE u[2] \in LeafOf(B)
  <2>1. u[2] \in LeafOf(B \cup M)
    BY DEF LeafOf
  <2>2. PICK w \in B \cup M : w[2] = u[2]
    BY <2>1 DEF LeafOf
  <2> QED
    BY <2>2 DEF LeafOf
<1>2. ASSUME NEW u \in B PROVE u[2] \in LeafOf(A)
  <2>1. u[2] \in LeafOf(A \cup M)
    BY DEF LeafOf
  <2>2. PICK w \in A \cup M : w[2] = u[2]
    BY <2>1 DEF LeafOf
  <2> QED
    BY <2>2 DEF LeafOf
<1>3. \A A1, B1 : (\A u \in A1 : u[2] \in LeafOf(B1)) => LeafOf(A1) \subseteq LeafOf(B1)
  BY DEF LeafOf
<1>4. LeafOf(A) \subseteq LeafOf(B) /\ LeafOf(B) \subseteq LeafOf(A)
  BY <1>1, <1>2, <1>3
<1> QED
  BY <1>4

\* A block that was built on state s connects on a state t with the same outputs,
\* kernels and coins only: the roots of its header say so.
LEMMA RootsTell ==
    ASSUME NEW s, SoundState(s), NEW t, SoundState(t),
           NEW b, b.ins \in Seq(Commitment), b.outs \in Seq(Commitment),
           b.kernels \in Seq(Kernel),
           ToSet(b.ins) \subseteq Unspent(s), ToSet(b.outs) \cap Unspent(s) = {},
           ToSet(b.ins) \subseteq Unspent(t),
           NEW leafset,
           leafset = LeafOf(SpendAll(s.utxos \cup Mined(b, Len(s.txos)), b.ins)),
           Apply(t, Effect(b)).hdr
               = HeaderOf(s.txos \o b.outs, s.kernels \o b.kernels, leafset)
    PROVE  t.txos = s.txos /\ t.kernels = s.kernels /\ t.utxos = s.utxos
PROOF
<1> DEFINE ins == ToSet(b.ins)
           e == Effect(b)
           r == Apply(t, e)
           n == Len(s.txos)
           mined == Mined(b, n)
<1>1. /\ s.txos \in Seq(Commitment) /\ t.txos \in Seq(Commitment)
      /\ s.kernels \in Seq(Kernel) /\ t.kernels \in Seq(Kernel)
  BY StateFields
<1>2. e.ins = ins /\ e.outs = b.outs /\ e.kernels = b.kernels
  BY DEF Effect
<1>3. /\ r.txos = t.txos \o b.outs /\ r.kernels = t.kernels \o b.kernels
      /\ r.leafset = LeafOf(r.utxos)
      /\ r.hdr = HeaderOf(r.txos, r.kernels, r.leafset)
  <2> HIDE DEF e
  <2>1. r.txos = t.txos \o e.outs /\ r.kernels = t.kernels \o e.kernels
    BY ApplyFields
  <2>2. r.leafset = LeafOf(r.utxos)
    BY ApplyFields DEF LeafOf
  <2>3. r.hdr = HeaderOf(r.txos, r.kernels, r.leafset)
    BY ApplyFields
  <2> QED
    BY <1>2, <2>1, <2>2, <2>3
<1>4. r.utxos = Kept(t, ins) \cup Mined(e, Len(t.txos))
  BY <1>2, AppliedCoins
<1> HIDE DEF r
<1>5. r.hdr = HeaderOf(s.txos \o b.outs, s.kernels \o b.kernels, leafset)
  BY DEF r
<1>6. /\ r.txos = s.txos \o b.outs /\ r.kernels = s.kernels \o b.kernels
      /\ r.leafset = leafset
  <2> DEFINE x == r.txos
             k == r.kernels
             l == r.leafset
             y == s.txos \o b.outs
             j == s.kernels \o b.kernels
  <2>1. HeaderOf(x, k, l) = HeaderOf(y, j, leafset)
    BY <1>3, <1>5
  <2> HIDE DEF x, k, l, y, j
  <2>2. x = y
    BY <2>1, HeaderTells
  <2>3. k = j
    BY <2>1, HeaderTells
  <2>4. l = leafset
    BY <2>1, HeaderTells
  <2> QED
    BY <2>2, <2>3, <2>4 DEF x, k, l, y, j
<1>7. t.txos = s.txos
  <2>1. t.txos \o b.outs = s.txos \o b.outs
    BY <1>3, <1>6
  <2> QED
    BY <1>1, <2>1, SameFront
<1>8. t.kernels = s.kernels
  <2>1. t.kernels \o b.kernels = s.kernels \o b.kernels
    BY <1>3, <1>6
  <2> QED
    BY <1>1, <2>1, SameFront
<1>9. Mined(e, Len(t.txos)) = mined
  BY <1>2, <1>7 DEF Mined
<1>10. SpendAll(s.utxos \cup mined, b.ins) = Kept(s, ins) \cup mined
  BY SpendAllCoins
<1>11. LeafOf(Kept(t, ins) \cup mined) = LeafOf(Kept(s, ins) \cup mined)
  BY <1>3, <1>4, <1>6, <1>9, <1>10
<1>12. /\ \A u \in mined : u[2] \in Nat /\ u[2] >= n
       /\ n \in Nat
  BY <1>1, MinedCoins
<1>13. \A u \in s.utxos \cup t.utxos : ~(u[2] >= n)
  <2>1. \A u \in s.utxos \cup t.utxos : u[2] < n /\ u[2] \in Nat
    BY <1>7, StateFields DEF SoundState, CoinsSound
  <2> QED
    BY <1>12, <2>1
<1>14. LeafOf(Kept(s, ins)) = LeafOf(Kept(t, ins))
  <2> DEFINE A == Kept(s, ins)
             B == Kept(t, ins)
  <2>1. (\A u \in mined : u[2] >= n) /\ \A u \in A \cup B : ~(u[2] >= n)
    BY <1>12, <1>13 DEF Kept
  <2>2. LeafOf(A \cup mined) = LeafOf(B \cup mined)
    BY <1>11
  <2> HIDE DEF A, B, mined, n
  <2>3. LeafOf(A) = LeafOf(B)
    BY <2>1, <2>2, OldLeaves
  <2> QED
    BY <2>3 DEF A, B
<1>15. t.utxos = s.utxos
  BY <1>7, <1>14, SameCoins
<1> QED
  BY <1>7, <1>8, <1>15
\* Where a built block connects, the offset is that of the state it was built on
\* as well.
LEMMA ConnectsBack ==
    ASSUME NEW at \in Place, SoundState(at.s), NEW tip \in Place, SoundState(tip.s),
           NEW txs, TakenOn(txs, at.s), NEW b, NEW tx, tx = Aggregated(txs),
           b.body = tx.body, b.offset = HeaderOffset(at, tx),
           b.hdr = BuildNextBlock(at, txs).hdr,
           Connects(tip, b)
    PROVE  /\ tip.s.txos = at.s.txos /\ tip.s.kernels = at.s.kernels
           /\ tip.s.utxos = at.s.utxos /\ tip.offset = at.offset
PROOF
<1> DEFINE body == tx.body
           U == SpendAll(at.s.utxos \cup Mined(body, Len(at.s.txos)), body.ins)
           leafset == LeafOf(U)
<1>1. /\ body.ins \in Seq(Commitment) /\ body.outs \in Seq(Commitment)
      /\ body.kernels \in Seq(Kernel) /\ tx.kernel_offset \in Int
      /\ ToSet(body.ins) \subseteq Unspent(at.s)
      /\ ToSet(body.outs) \cap Unspent(at.s) = {}
      /\ tx.kernel_offset = OwnOffset(body)
  BY BuiltOn DEF OffsetIsOwn
<1>2. ToSet(body.ins) \subseteq Unspent(tip.s)
      /\ ValidateForTx(body, b.offset - tip.offset)
      /\ Apply(tip.s, Effect(body)).hdr = b.hdr
  BY DEF Connects, ValidateForBlock
<1>3. b.hdr = HeaderOf(at.s.txos \o body.outs, at.s.kernels \o body.kernels, leafset)
  BY DEF BuildNextBlock, LeafOf
<1>4. at.offset \in Int /\ tip.offset \in Int /\ b.offset = at.offset + tx.kernel_offset
  BY DEF Place, HeaderOffset
<1> HIDE DEF body
<1>5. tip.s.txos = at.s.txos /\ tip.s.kernels = at.s.kernels /\ tip.s.utxos = at.s.utxos
  <2>1. Apply(tip.s, Effect(body)).hdr
            = HeaderOf(at.s.txos \o body.outs, at.s.kernels \o body.kernels, leafset)
    BY <1>2, <1>3
  <2> DEFINE s == at.s
             t == tip.s
  <2> HIDE DEF leafset
  <2>2. /\ SoundState(s) /\ SoundState(t)
        /\ ToSet(body.ins) \subseteq Unspent(s) /\ ToSet(body.outs) \cap Unspent(s) = {}
        /\ ToSet(body.ins) \subseteq Unspent(t)
        /\ Apply(t, Effect(body)).hdr
               = HeaderOf(s.txos \o body.outs, s.kernels \o body.kernels, leafset)
    BY <1>1, <1>2, <2>1
  <2>3. leafset = LeafOf(SpendAll(s.utxos \cup Mined(body, Len(s.txos)), body.ins))
    BY DEF leafset
  <2>4. /\ body.ins \in Seq(Commitment) /\ body.outs \in Seq(Commitment)
        /\ body.kernels \in Seq(Kernel)
    BY <1>1
  <2> HIDE DEF s, t
  <2>5. t.txos = s.txos /\ t.kernels = s.kernels /\ t.utxos = s.utxos
    BY <2>2, <2>3, <2>4, RootsTell
  <2> QED
    BY <2>5 DEF s, t
<1>6. b.offset - tip.offset = tx.kernel_offset
  <2> DEFINE o == b.offset - tip.offset
  <2>1. o \in Int /\ ValidateForTx(body, o)
    BY <1>1, <1>2, <1>4
  <2> HIDE DEF o
  <2>2. o = OwnOffset(body)
    BY <1>1, <2>1, RightSums
  <2> QED
    BY <1>1, <2>2 DEF o
<1>7. tip.offset = at.offset
  <2> DEFINE i == at.offset
             j == tip.offset
             k == tx.kernel_offset
  <2>1. i \in Int /\ j \in Int /\ k \in Int /\ i + k - j = k
    BY <1>1, <1>4, <1>6
  <2> HIDE DEF i, j, k
  <2>2. j = i
    BY <2>1
  <2> QED
    BY <2>2 DEF i, j
<1> QED
  BY <1>5, <1>7

-----------------------------------------------------------------------------
(* The sums of states.                                                     *)

\* A sum over coins.
CoinSum(F, U) == SumFunction([u \in U |-> F[u[1]]])

\* A list has finitely many places.
LEMMA FiniteList ==
    ASSUME NEW X, NEW s \in Seq(X)
    PROVE  IsFiniteSet(DOMAIN s)
PROOF
<1>1. Len(s) \in Nat /\ DOMAIN s = 1 .. Len(s)
  OBVIOUS
<1> QED
  BY <1>1, FS_Interval

\* There are finitely many coins.
LEMMA FiniteCoins ==
    ASSUME NEW s, SoundState(s)
    PROVE  IsFiniteSet(s.utxos)
PROOF
<1> DEFINE D == {i \in DOMAIN s.txos : <<s.txos[i], i - 1>> \in s.utxos}
           f == [i \in D |-> <<s.txos[i], i - 1>>]
<1>1. IsFiniteSet(DOMAIN s.txos)
  BY StateFields, FiniteList
<1>2. IsFiniteSet(D)
  BY <1>1, FS_Subset
<1>3. \A u \in s.utxos : u[2] + 1 \in D /\ f[u[2] + 1] = u
  <2> SUFFICES ASSUME NEW u \in s.utxos PROVE u[2] + 1 \in D /\ f[u[2] + 1] = u
    OBVIOUS
  <2>1. u = <<u[1], u[2]>> /\ u[2] \in Nat /\ u[2] + 1 \in DOMAIN s.txos
        /\ s.txos[u[2] + 1] = u[1]
    BY StateFields
  <2> DEFINE l == u[2]
  <2>2. l + 1 - 1 = l
    BY <2>1
  <2>3. <<s.txos[l + 1], l + 1 - 1>> = u
    BY <2>1, <2>2
  <2> QED
    BY <2>1, <2>3
<1>4. f \in Surjection(D, s.utxos)
  <2>1. f \in [D -> s.utxos]
    OBVIOUS
  <2> HIDE DEF f, D
  <2> QED
    BY <1>3, <2>1 DEF Surjection
<1> HIDE DEF f, D
<1> QED
  BY <1>2, <1>4, FS_Surjection

\* The sum over the coins after a block is that before it, without the inputs and
\* with the outputs.
LEMMA CoinSums ==
    ASSUME NEW F \in [Commitment -> Int], NEW s, SoundState(s),
           NEW ins \in Seq(Commitment), Injective(ins), ToSet(ins) \subseteq Unspent(s),
           NEW b, b.outs \in Seq(Commitment),
           NEW mined, mined = Mined(b, Len(s.txos)), NEW kept, kept = Kept(s, ToSet(ins))
    PROVE  /\ CoinSum(F, s.utxos) \in Int
           /\ CoinSum(F, kept \cup mined) =
                  CoinSum(F, s.utxos) - SumFunction(MapList(F, ins))
                      + SumFunction(MapList(F, b.outs))
PROOF
<1> DEFINE n == Len(s.txos)
           U == s.utxos
           spent == U \ kept
           W == U \cup mined
           f == [u \in W |-> F[u[1]]]
           On(V) == SumFunctionOnSet(f, V)
           a == MapList(F, ins)
           c == MapList(F, b.outs)
<1>1. n \in Nat /\ \A u \in U : u[1] \in Commitment
  BY StateFields
<1>2. \A u \in mined : u[1] \in Commitment
  <2>1. \A u \in mined : u[2] + 1 - n \in DOMAIN b.outs /\ u[1] = b.outs[u[2] + 1 - n]
    BY <1>1, MinedCoins
  <2>2. \A i \in DOMAIN b.outs : b.outs[i] \in Commitment
    OBVIOUS
  <2> QED
    BY <2>1, <2>2
<1>3. \A u \in W : f[u] \in Int /\ f[u] = F[u[1]]
  BY <1>1, <1>2
<1>4. kept \subseteq U /\ spent \subseteq U /\ kept \cap spent = {} /\ kept \cup spent = U
  BY DEF Kept
<1>5. kept \cap mined = {}
  <2>1. \A u \in U : u[2] < n /\ u[2] \in Nat
    BY StateFields DEF SoundState, CoinsSound
  <2>2. \A u \in mined : u[2] >= n
    BY <1>1, MinedCoins
  <2>3. \A i \in Nat : ~(i < n /\ i >= n)
    BY <1>1
  <2> QED
    BY <1>4, <2>1, <2>2, <2>3
<1>6. IsFiniteSet(U) /\ IsFiniteSet(kept) /\ IsFiniteSet(spent)
  BY <1>4, FiniteCoins, FS_Subset
<1>7. OneToOne([i \in DOMAIN ins |-> Newest(s, ins[i])], DOMAIN ins, spent)
  <2> DEFINE p == [i \in DOMAIN ins |-> Newest(s, ins[i])]
  <2>1. \A i \in DOMAIN ins : ins[i] \in ToSet(ins) /\ ins[i] \in Unspent(s)
    BY DEF ToSet
  <2>2. \A i \in DOMAIN ins : p[i] \in U /\ p[i][1] = ins[i]
    BY <2>1, NewestIsCoin DEF SoundState
  <2>3. \A u \in spent : u \in U /\ u[1] \in ToSet(ins)
    BY DEF Kept
  <2>4. \A u \in U : u[1] \in ToSet(ins) => u \in spent
    BY DEF Kept
  <2>5. \A u \in spent : \E i \in DOMAIN ins : ins[i] = u[1]
    BY <2>3 DEF ToSet
  <2>6. \A u, w \in U : u[1] = w[1] => u = w
    BY StateFields
  <2> HIDE DEF p, spent
  <2>7. \A i \in DOMAIN ins : p[i] \in spent
    BY <2>1, <2>2, <2>4
  <2>8. \A i, j \in DOMAIN ins : p[i] = p[j] => i = j
    BY <2>2 DEF Injective
  <2>9. \A u \in spent : \E i \in DOMAIN ins : p[i] = u
    BY <2>2, <2>3, <2>5, <2>6
  <2>10. OneToOne(p, DOMAIN ins, spent)
    BY <2>7, <2>8, <2>9 DEF OneToOne
  <2> QED
    BY <2>10 DEF p
<1>8. OneToOne([i \in DOMAIN b.outs |-> <<b.outs[i], n + i - 1>>], DOMAIN b.outs, mined)
  <2> DEFINE p == [i \in DOMAIN b.outs |-> <<b.outs[i], n + i - 1>>]
  <2>1. \A i \in DOMAIN b.outs : p[i] \in mined /\ i \in Nat
    BY <1>1, MinedCoins
  <2>2. \A u \in mined : \E i \in DOMAIN b.outs : p[i] = u
    BY DEF Mined
  <2>3. \A i \in DOMAIN b.outs : p[i][2] = n + i - 1
    OBVIOUS
  <2> HIDE DEF p, n
  <2>4. \A i, j \in DOMAIN b.outs : p[i] = p[j] => i = j
    <3>1. \A i, j \in DOMAIN b.outs : p[i] = p[j] => n + i - 1 = n + j - 1
      BY <2>3
    <3>2. \A i, j \in Nat : n + i - 1 = n + j - 1 => i = j
      BY <1>1
    <3> QED
      BY <2>1, <3>1, <3>2
  <2>5. OneToOne(p, DOMAIN b.outs, mined)
    BY <2>1, <2>2, <2>4 DEF OneToOne
  <2> QED
    BY <2>5 DEF p
<1>9. On(spent) = SumFunction(a)
  <2> DEFINE p == [i \in DOMAIN ins |-> Newest(s, ins[i])]
  <2>1. OneToOne(p, DOMAIN ins, spent)
    BY <1>7
  <2>2. \A i \in DOMAIN ins : p[i] \in U /\ p[i][1] = ins[i]
    <3>1. \A i \in DOMAIN ins : ins[i] \in Unspent(s)
      BY DEF ToSet
    <3> QED
      BY <3>1, NewestIsCoin DEF SoundState
  <2>3. DOMAIN a = DOMAIN ins /\ \A i \in DOMAIN ins : a[i] = F[ins[i]]
    BY DEF MapList
  <2>4. IsFiniteSet(DOMAIN ins)
    BY FiniteList
  <2> HIDE DEF p, spent, f, a
  <2>5. Matches(a, DOMAIN ins, f, p)
    BY <1>3, <2>2, <2>3 DEF Matches
  <2>6. SumFunctionOnSet(f, spent) = SumFunctionOnSet(a, DOMAIN ins)
    BY <2>1, <2>4, <2>5, SumReindex
  <2> QED
    BY <2>3, <2>6 DEF SumFunction
<1>10. On(mined) = SumFunction(c) /\ IsFiniteSet(mined)
  <2> DEFINE p == [i \in DOMAIN b.outs |-> <<b.outs[i], n + i - 1>>]
  <2>1. OneToOne(p, DOMAIN b.outs, mined)
    BY <1>8
  <2>2. \A i \in DOMAIN b.outs : p[i] \in mined /\ p[i][1] = b.outs[i]
    BY <1>1, MinedCoins
  <2>3. DOMAIN c = DOMAIN b.outs /\ \A i \in DOMAIN b.outs : c[i] = F[b.outs[i]]
    BY DEF MapList
  <2>4. IsFiniteSet(DOMAIN b.outs)
    BY FiniteList
  <2> HIDE DEF p, f, c
  <2>5. Matches(c, DOMAIN b.outs, f, p)
    BY <1>3, <2>2, <2>3 DEF Matches
  <2>6. SumFunctionOnSet(f, mined) = SumFunctionOnSet(c, DOMAIN b.outs)
    BY <2>1, <2>4, <2>5, SumReindex
  <2>7. IsFiniteSet(mined)
    BY <2>1, <2>4, <2>5, SumReindex
  <2> QED
    BY <2>3, <2>6, <2>7 DEF SumFunction
<1>11. \A V \in SUBSET W : IsFiniteSet(V) => CoinSum(F, V) = On(V)
  <2> SUFFICES ASSUME NEW V \in SUBSET W, IsFiniteSet(V) PROVE CoinSum(F, V) = On(V)
    OBVIOUS
  <2> DEFINE h == [u \in V |-> F[u[1]]]
  <2>1. DOMAIN h = V /\ \A u \in V : f[u] \in Int /\ h[u] = f[u]
    BY <1>3
  <2> HIDE DEF h, f, W
  <2>2. SumFunctionOnSet(h, V) = SumFunctionOnSet(f, V)
    BY <2>1, SumSame
  <2> QED
    BY <2>1, <2>2 DEF CoinSum, SumFunction, h
<1> HIDE DEF spent, f
<1>12. On(U) = On(kept) + On(spent) /\ On(kept) \in Int /\ On(spent) \in Int
  <2>1. \A u \in kept \cup spent : f[u] \in Int
    BY <1>3, <1>4
  <2>2. SumFunctionOnSet(f, kept \cup spent) = SumFunctionOnSet(f, kept) + SumFunctionOnSet(f, spent)
    BY <1>4, <1>6, <2>1, SumSplit
  <2>3. SumFunctionOnSet(f, kept) \in Int /\ SumFunctionOnSet(f, spent) \in Int
    BY <1>4, <1>6, <2>1, SumSplit
  <2> QED
    BY <1>4, <2>2, <2>3
<1>13. On(kept \cup mined) = On(kept) + On(mined) /\ On(mined) \in Int
  <2>1. \A u \in kept \cup mined : f[u] \in Int
    BY <1>3, <1>4
  <2>2. SumFunctionOnSet(f, kept \cup mined) = SumFunctionOnSet(f, kept) + SumFunctionOnSet(f, mined)
    BY <1>5, <1>6, <1>10, <2>1, SumSplit
  <2>3. SumFunctionOnSet(f, mined) \in Int
    BY <1>5, <1>6, <1>10, <2>1, SumSplit
  <2> QED
    BY <2>2, <2>3
<1>14. CoinSum(F, U) = On(U)
  BY <1>6, <1>11
<1>15. CoinSum(F, kept \cup mined) = On(kept \cup mined)
  <2>1. IsFiniteSet(kept \cup mined)
    BY <1>6, <1>10, FS_Union
  <2> QED
    BY <1>4, <1>11, <2>1
<1> HIDE DEF On, U
<1>16. \A i, j, k \in Int : i + k = (i + j) - j + k /\ i + j \in Int
  OBVIOUS
<1>17. On(kept) + On(mined) = On(U) - On(spent) + On(mined) /\ On(U) \in Int
  BY <1>12, <1>13, <1>16
<1> QED
  BY <1>9, <1>10, <1>13, <1>14, <1>15, <1>17 DEF U
\* A list is a rearrangement of itself; sums of two lists, one after the other.
LEMMA MapJoined ==
    ASSUME NEW X, NEW F \in [X -> Int], NEW s \in Seq(X), NEW t \in Seq(X)
    PROVE  SumFunction(MapList(F, s \o t)) =
               SumFunction(MapList(F, s)) + SumFunction(MapList(F, t))
PROOF
<1> DEFINE c == s \o t
           D == DOMAIN c
           id == [i \in D |-> i]
<1>1. OneToOne(id, D, D)
  BY DEF OneToOne
<1>2. c \in Seq(X)
  OBVIOUS
<1>3. c = [i \in D |-> c[id[i]]]
  <2> HIDE DEF c
  <2>1. c = [i \in D |-> c[i]]
    BY <1>2
  <2> QED
    BY <2>1
<1>4. Rearranges(c, c)
  BY <1>1, <1>3 DEF Rearranges
<1> HIDE DEF D, id
<1> QED
  BY <1>4, MapSums

\* Numbers, of which none is greater than the one before it.
Falls(x) == \A i \in 1 .. Len(x) - 1 : x[i] >= x[i + 1]

\* Nor is one greater than any before it.
LEMMA FallsOn ==
    ASSUME NEW x \in Seq(Int), Falls(x), NEW i \in DOMAIN x, NEW j \in DOMAIN x, i <= j
    PROVE  x[i] >= x[j]
PROOF
<1> DEFINE n == Len(x)
           T == {k \in 0 .. n : i + k \in DOMAIN x => x[i] >= x[i + k]}
<1>1. n \in Nat /\ DOMAIN x = 1 .. n /\ \A k \in 1 .. n : x[k] \in Int
  OBVIOUS
<1>2. \A k \in 1 .. n - 1 : x[k] >= x[k + 1]
  BY DEF Falls
<1> HIDE DEF n
<1>3. i \in 1 .. n /\ j \in 1 .. n
  BY <1>1
<1>4. 0 \in T
  <2>1. i + 0 = i /\ x[i] \in Int
    BY <1>1, <1>3
  <2>2. x[i] >= x[i + 0]
    BY <2>1
  <2> QED
    BY <1>1, <2>2
<1>5. ASSUME NEW k \in 1 .. n, k - 1 \in T PROVE k \in T
  <2> SUFFICES ASSUME i + k \in 1 .. n PROVE x[i] >= x[i + k]
    BY <1>1
  <2>1. i + (k - 1) \in 1 .. n - 1 /\ i + (k - 1) \in 1 .. n /\ (i + (k - 1)) + 1 = i + k
    BY <1>1, <1>3
  <2>2. x[i] >= x[i + (k - 1)]
    BY <1>1, <1>5, <2>1
  <2>3. x[i + (k - 1)] >= x[i + k]
    BY <1>2, <2>1
  <2>4. x[i] \in Int /\ x[i + (k - 1)] \in Int /\ x[i + k] \in Int
    BY <1>1, <1>3, <2>1
  <2>5. \A p, q, r \in Int : p >= q /\ q >= r => p >= r
    OBVIOUS
  <2> QED
    BY <2>2, <2>3, <2>4, <2>5
<1> HIDE DEF T
<1>6. 0 .. n \subseteq T
  BY <1>1, <1>4, <1>5, BoundedInduction
<1>7. j - i \in 0 .. n /\ i + (j - i) = j
  BY <1>1, <1>3
<1> QED
  BY <1>6, <1>7 DEF T

\* Added one by one, falling numbers never lead below 0 between two ends that
\* are not below it.
LEMMA NeverBelow ==
    ASSUME NEW x \in Seq(Int), Falls(x), NEW low \in Int, low >= 0,
           low + SumFunction(x) >= 0, NEW m \in 1 .. Len(x)
    PROVE  low + SumFunction(SubSeq(x, 1, m)) >= 0
PROOF
<1> DEFINE n == Len(x)
           a == SubSeq(x, 1, m)
           b == SubSeq(x, m + 1, n)
<1>1. n \in Nat /\ DOMAIN x = 1 .. n /\ m \in 1 .. n
  OBVIOUS
<1>2. /\ a \in Seq(Int) /\ DOMAIN a = 1 .. m /\ \A i \in 1 .. m : a[i] = x[i]
      /\ b \in Seq(Int) /\ DOMAIN b = 1 .. n - m /\ \A i \in 1 .. n - m : b[i] = x[m + i]
  OBVIOUS
<1>3. x = a \o b
  OBVIOUS
<1>4. /\ \A i \in 1 .. m : i \in DOMAIN x /\ i <= m
      /\ \A i \in 1 .. n - m : m + i \in DOMAIN x /\ m <= m + i
      /\ m \in DOMAIN x
      /\ \A i \in DOMAIN x : x[i] \in Int
  BY <1>1
<1>5. \A i \in 1 .. m : x[i] >= x[m]
  BY <1>4, FallsOn
<1>6. \A i \in 1 .. n - m : x[m] >= x[m + i]
  BY <1>4, FallsOn
<1> HIDE DEF a, b, n
<1>7. SumFunction(a) \in Int /\ SumFunction(b) \in Int
      /\ SumFunction(x) = SumFunction(a) + SumFunction(b)
  <2>1. SumFunction(a) \in Int
    BY <1>2, SumConcat
  <2>2. SumFunction(b) \in Int
    BY <1>2, SumConcat
  <2>3. SumFunction(a \o b) = SumFunction(a) + SumFunction(b)
    BY <1>2, SumConcat
  <2> QED
    BY <1>3, <2>1, <2>2, <2>3
<1>8. ASSUME x[m] >= 0 PROVE SumFunction(a) >= 0
  <2>1. \A p, q \in Int : p >= q /\ q >= 0 => p >= 0
    OBVIOUS
  <2>2. \A i \in DOMAIN a : a[i] \in Int /\ a[i] >= 0
    BY <1>2, <1>4, <1>5, <1>8, <2>1
  <2>3. IsFiniteSet(DOMAIN a)
    BY <1>2, FiniteList
  <2> QED
    BY <2>2, <2>3, SumSign DEF SumFunction
<1>9. ASSUME ~(x[m] >= 0) PROVE SumFunction(b) <= 0
  <2>1. \A p, q \in Int : p >= q /\ ~(p >= 0) => q <= 0
    OBVIOUS
  <2>2. \A i \in DOMAIN b : b[i] \in Int /\ b[i] <= 0
    BY <1>2, <1>4, <1>6, <1>9, <2>1
  <2>3. IsFiniteSet(DOMAIN b)
    BY <1>2, FiniteList
  <2> QED
    BY <2>2, <2>3, SumSign DEF SumFunction
<1>10. \A p, q \in Int : low + (p + q) >= 0 /\ (p >= 0 \/ q <= 0) => low + p >= 0
  OBVIOUS
<1>11. low + (SumFunction(a) + SumFunction(b)) >= 0
  BY <1>7
<1> QED
  BY <1>7, <1>8, <1>9, <1>10, <1>11 DEF a

\* The first elements of a list.
LEMMA PrefixAt ==
    ASSUME NEW X, NEW x \in Seq(X), NEW m \in 0 .. Len(x)
    PROVE  SubSeq(x, 1, m) \in [1 .. m -> X] /\ \A i \in 1 .. m : SubSeq(x, 1, m)[i] = x[i]
PROOF
<1> DEFINE q == SubSeq(x, 1, m)
<1>1. m \in Nat /\ q \in Seq(X) /\ Len(q) = m
  OBVIOUS
<1>2. \A i \in 1 .. m : q[i] = x[i]
  OBVIOUS
<1> HIDE DEF q
<1>3. q \in [1 .. m -> X]
  BY <1>1
<1> QED
  BY <1>2, <1>3 DEF q

\* Kernels that are sorted change the supply by less and less.
LEMMA SortedFall ==
    ASSUME NEW ks \in Seq(Kernel), Ordered(ks, KernelSort)
    PROVE  Falls(SupplyChanges(ks))
PROOF
<1> DEFINE x == SupplyChanges(ks)
           n == Len(ks)
<1>1. n \in Nat /\ DOMAIN ks = 1 .. n /\ \A i \in 1 .. n : ks[i] \in Kernel
  OBVIOUS
<1>2. x \in Seq(Int)
  BY KernelFunctions, KernelLists, MapSum
<1>3. DOMAIN x = 1 .. n /\ \A i \in 1 .. n : x[i] = GetSupplyChange(ks[i])
  BY <1>1 DEF SupplyChanges
<1>4. Len(x) = n
  <2> HIDE DEF x, n
  <2> QED
    BY <1>1, <1>2, <1>3
<1>5. \A i \in 1 .. n - 1 : ~KernelSort(ks[i + 1], ks[i])
  BY DEF Ordered
<1> HIDE DEF x, n
<1>6. \A i \in 1 .. n - 1 : i \in 1 .. n /\ i + 1 \in 1 .. n
  BY <1>1
<1>7. \A i \in 1 .. n - 1 : ~(x[i + 1] > x[i])
  BY <1>3, <1>5, <1>6 DEF KernelSort
<1>8. \A i \in 1 .. n : x[i] \in Int
  BY <1>1, <1>3, KernelType
<1>9. \A p, q \in Int : ~(p > q) => q >= p
  OBVIOUS
<1>10. \A i \in 1 .. n - 1 : x[i] >= x[i + 1]
  BY <1>6, <1>7, <1>8, <1>9
<1> QED
  BY <1>4, <1>10 DEF Falls, x

\* The supply after the first of some kernels.
LEMMA SupplyPrefix ==
    ASSUME NEW ks \in Seq(Kernel), NEW m \in 0 .. Len(ks)
    PROVE  SupplyChanges(SubSeq(ks, 1, m)) = SubSeq(SupplyChanges(ks), 1, m)
PROOF
<1> DEFINE x == SupplyChanges(ks)
           n == Len(ks)
           p == SubSeq(ks, 1, m)
           q == SubSeq(x, 1, m)
<1>1. n \in Nat /\ DOMAIN ks = 1 .. n /\ m \in 0 .. n
  OBVIOUS
<1>2. DOMAIN p = 1 .. m /\ \A i \in 1 .. m : p[i] = ks[i]
  OBVIOUS
<1>3. x \in Seq(Int)
  BY KernelFunctions, KernelLists, MapSum
<1>4. DOMAIN x = 1 .. n /\ \A i \in 1 .. n : x[i] = GetSupplyChange(ks[i])
  BY <1>1 DEF SupplyChanges
<1>5. Len(x) = n
  <2> HIDE DEF x, n
  <2> QED
    BY <1>1, <1>3, <1>4
<1>6. q \in [1 .. m -> Int] /\ \A i \in 1 .. m : q[i] = x[i]
  <2> HIDE DEF x, n
  <2>1. m \in 0 .. Len(x)
    BY <1>1, <1>5
  <2> QED
    BY <1>3, <2>1, PrefixAt
<1>7. \A i \in 1 .. m : i \in 1 .. n
  BY <1>1
<1> HIDE DEF x, n, p, q
<1>8. SupplyChanges(p) = [i \in 1 .. m |-> GetSupplyChange(p[i])]
  BY <1>2 DEF SupplyChanges
<1>9. \A i \in 1 .. m : q[i] = GetSupplyChange(p[i])
  BY <1>2, <1>4, <1>6, <1>7
<1>10. q = [i \in 1 .. m |-> q[i]]
  BY <1>6
<1>11. q = [i \in 1 .. m |-> GetSupplyChange(p[i])]
  BY <1>9, <1>10
<1> QED
  BY <1>8, <1>11 DEF p, q, x
\* The unspent coins of a state are worth what its kernels say, their blinding
\* factors are those of the kernels and of the offset, and the supply was never
\* below 0, not between two kernels of one block either.
NeverNegative(ks) ==
    \A n \in DOMAIN ks : SumFunction(SupplyChanges(SubSeq(ks, 1, n))) >= 0

SumsRight(at) ==
    /\ CoinSum(Amount, at.s.utxos) = SumFunction(SupplyChanges(at.s.kernels))
    /\ CoinSum(Blind, at.s.utxos) = SumFunction(Excesses(at.s.kernels)) + at.offset
    /\ NeverNegative(at.s.kernels)

\* The kernels of a block are sorted, so that the supply does not go below 0
\* between them when it is not below 0 before and after them.
LEMMA SupplyOfBlock ==
    ASSUME NEW ks \in Seq(Kernel), NEW new \in Seq(Kernel), Ordered(new, KernelSort),
           NeverNegative(ks),
           SumFunction(SupplyChanges(ks)) >= 0,
           SumFunction(SupplyChanges(ks \o new)) >= 0
    PROVE  NeverNegative(ks \o new)
PROOF
<1> DEFINE m == Len(ks)
           l == Len(new)
           low == SumFunction(SupplyChanges(ks))
           x == SupplyChanges(new)
           all == ks \o new
<1>1. \A k \in Seq(Kernel) : SumFunction(SupplyChanges(k)) \in Int
  BY KernelFunctions, KernelLists, MapSum
<1>2. \A k \in Seq(Kernel) :
          SumFunction(SupplyChanges(ks \o k)) = low + SumFunction(SupplyChanges(k))
  <2> SUFFICES ASSUME NEW k \in Seq(Kernel)
               PROVE  SumFunction(SupplyChanges(ks \o k)) = low + SumFunction(SupplyChanges(k))
    OBVIOUS
  <2>1. ks \o k \in Seq(Kernel)
    OBVIOUS
  <2>2. SumFunction(MapList(SupplyChange, ks \o k))
            = SumFunction(MapList(SupplyChange, ks)) + SumFunction(MapList(SupplyChange, k))
    BY KernelFunctions, MapJoined
  <2> QED
    BY <2>1, <2>2, KernelLists
<1>3. low \in Int /\ low >= 0 /\ low + SumFunction(x) >= 0
  BY <1>1, <1>2
<1>4. x \in Seq(Int) /\ Falls(x)
  <2>1. x \in Seq(Int)
    BY KernelFunctions, KernelLists, MapSum
  <2> QED
    BY <2>1, SortedFall
<1>5. m \in Nat /\ l \in Nat /\ DOMAIN ks = 1 .. m /\ DOMAIN new = 1 .. l
      /\ DOMAIN all = 1 .. m + l
  OBVIOUS
<1>6. Len(x) = l
  <2>1. DOMAIN x = 1 .. l
    BY <1>5 DEF SupplyChanges
  <2> HIDE DEF x, l
  <2> QED
    BY <1>4, <1>5, <2>1
<1>7. \A d \in Int : d <= l =>
          /\ d >= 0 => SubSeq(all, 1, m + d) = ks \o SubSeq(new, 1, d)
          /\ d <= 0 => SubSeq(all, 1, m + d) = SubSeq(ks, 1, m + d)
  BY PrefixOfConcat
<1>8. \A d \in 1 .. l : /\ SubSeq(new, 1, d) \in Seq(Kernel)
                        /\ SupplyChanges(SubSeq(new, 1, d)) = SubSeq(x, 1, d)
  <2> SUFFICES ASSUME NEW d \in 1 .. l
               PROVE  /\ SubSeq(new, 1, d) \in Seq(Kernel)
                      /\ SupplyChanges(SubSeq(new, 1, d)) = SubSeq(x, 1, d)
    OBVIOUS
  <2>1. d \in 0 .. Len(new) /\ d \in Int /\ d <= Len(new)
    BY <1>5
  <2> QED
    BY <2>1, PrefixType, SupplyPrefix
<1> HIDE DEF m, l, low, x, all
<1>9. \A d \in 1 .. l : low + SumFunction(SubSeq(x, 1, d)) >= 0
  BY <1>3, <1>4, <1>6, NeverBelow
<1>10. ASSUME NEW n \in 1 .. m + l
       PROVE  SumFunction(SupplyChanges(SubSeq(all, 1, n))) >= 0
  <2> DEFINE d == n - m
  <2>1. d \in Int /\ d <= l /\ m + d = n /\ (d <= 0 \/ (d >= 0 /\ d \in 1 .. l))
        /\ (d <= 0 => n \in 1 .. m)
    BY <1>5
  <2> HIDE DEF d
  <2>2. CASE d <= 0
    <3>1. SubSeq(all, 1, n) = SubSeq(ks, 1, n) /\ n \in DOMAIN ks
      BY <1>5, <1>7, <2>1, <2>2
    <3> QED
      BY <3>1 DEF NeverNegative
  <2>3. CASE d >= 0 /\ d \in 1 .. l
    <3>1. SubSeq(all, 1, n) = ks \o SubSeq(new, 1, d)
      BY <1>7, <2>1, <2>3
    <3>2. SumFunction(SupplyChanges(SubSeq(all, 1, n))) = low + SumFunction(SubSeq(x, 1, d))
      BY <1>2, <1>8, <2>3, <3>1
    <3> QED
      BY <1>9, <2>3, <3>2
  <2> QED
    BY <2>1, <2>2, <2>3
<1> QED
  BY <1>5, <1>10 DEF NeverNegative, all

\* What coins are worth is not below 0.
LEMMA CoinsWorth ==
    ASSUME NEW s, SoundState(s)
    PROVE  CoinSum(Amount, s.utxos) >= 0
PROOF
<1> DEFINE f == [u \in s.utxos |-> Amount[u[1]]]
<1>1. \A u \in s.utxos : u[1] \in Commitment
  BY StateFields
<1>2. \A c \in Commitment : Amount[c] \in Int /\ Amount[c] >= 0
  BY CoinTypes
<1>3. DOMAIN f = s.utxos /\ \A u \in s.utxos : f[u] \in Int /\ f[u] >= 0
  BY <1>1, <1>2
<1>4. IsFiniteSet(s.utxos)
  BY FiniteCoins
<1> HIDE DEF f
<1>5. SumFunctionOnSet(f, s.utxos) >= 0
  BY <1>3, <1>4, SumSign
<1> QED
  BY <1>3, <1>5 DEF CoinSum, SumFunction, f

\* The sums over the coins that the block of a body leaves.
LEMMA EffectSums ==
    ASSUME NEW F \in [Commitment -> Int], NEW s, SoundState(s),
           NEW body, body.ins \in Seq(Commitment), body.outs \in Seq(Commitment),
           Injective(body.ins), ToSet(body.ins) \subseteq Unspent(s)
    PROVE  /\ CoinSum(F, s.utxos) \in Int
           /\ CoinSum(F, Apply(s, Effect(body)).utxos) = CoinSum(F, s.utxos)
                  - SumFunction(MapList(F, body.ins)) + SumFunction(MapList(F, body.outs))
PROOF
<1> DEFINE e == Effect(body)
           ins == body.ins
           kept == Kept(s, ToSet(ins))
           mined == Mined(body, Len(s.txos))
<1>1. e.ins = ToSet(ins) /\ e.outs = body.outs
  BY DEF Effect
<1>2. Apply(s, e).utxos = kept \cup mined
  <2>1. Mined(e, Len(s.txos)) = mined
    BY <1>1 DEF Mined
  <2> HIDE DEF e
  <2> QED
    BY <1>1, <2>1, AppliedCoins
<1>3. kept = Kept(s, ToSet(ins)) /\ mined = Mined(body, Len(s.txos))
      /\ ins \in Seq(Commitment) /\ Injective(ins) /\ ToSet(ins) \subseteq Unspent(s)
  OBVIOUS
<1> HIDE DEF kept, mined, ins
<1>4. CoinSum(F, s.utxos) \in Int
  BY <1>3, CoinSums
<1>5. CoinSum(F, kept \cup mined)
          = CoinSum(F, s.utxos) - SumFunction(MapList(F, ins)) + SumFunction(MapList(F, body.outs))
  BY <1>3, CoinSums
<1> QED
  BY <1>2, <1>4, <1>5 DEF ins

\* A block whose own sums are right, over the offset of the state it connects to,
\* keeps the sums of the state right: its inputs are coins of the state, and its
\* kernels are sorted.
LEMMA SumsConnected ==
    ASSUME NEW at \in Place, SoundState(at.s), SumsRight(at),
           NEW b, b.offset \in Int,
           NEW body, b.body = body, body.ins \in Seq(Commitment),
           body.outs \in Seq(Commitment), body.kernels \in Seq(Kernel),
           Injective(body.ins), Ordered(body.kernels, KernelSort),
           ToSet(body.ins) \subseteq Unspent(at.s),
           ValidateForBlock(body, b.offset, at.offset),
           SoundState(Apply(at.s, Effect(body)))
    PROVE  SumsRight(Connected(at, b))
PROOF
<1> DEFINE s == at.s
           e == Effect(body)
           t == Apply(s, e)
           to == Connected(at, b)
           ks == s.kernels
           new == body.kernels
           own == b.offset - at.offset
<1>1. to.s = t /\ to.offset = b.offset
  BY DEF Connected
<1>2. e.ins = ToSet(body.ins) /\ e.outs = body.outs /\ e.kernels = new
  BY DEF Effect
<1>3. s \in StateType /\ ks \in Seq(Kernel) /\ at.offset \in Int /\ own \in Int
  BY StateFields DEF Place
<1>4. t.kernels = ks \o new
  <2>1. t.kernels = s.kernels \o e.kernels
    <3> HIDE DEF e, s
    <3> QED
      BY ApplyFields
  <2> QED
    BY <1>2, <2>1
<1>6. /\ own = OwnOffset(body)
      /\ SumFunction(Amounts(body.outs)) - SumFunction(Amounts(body.ins))
             = SumFunction(SupplyChanges(new))
  <2>1. ValidateForTx(body, own)
    BY DEF ValidateForBlock
  <2> HIDE DEF own
  <2> QED
    BY <1>3, <2>1, RightSums
<1>7. /\ SumFunction(Amounts(body.ins)) \in Int /\ SumFunction(Amounts(body.outs)) \in Int
      /\ SumFunction(Blinds(body.ins)) \in Int /\ SumFunction(Blinds(body.outs)) \in Int
      /\ SumFunction(Excesses(new)) \in Int /\ SumFunction(SupplyChanges(new)) \in Int
  BY OwnOffsetType
<1>8. \A l \in Seq(Kernel) :
          SumFunction(SupplyChanges(l)) \in Int /\ SumFunction(Excesses(l)) \in Int
  BY KernelFunctions, KernelLists, MapSum
<1>9. SumFunction(SupplyChanges(ks \o new))
          = SumFunction(SupplyChanges(ks)) + SumFunction(SupplyChanges(new))
  <2>1. ks \o new \in Seq(Kernel)
    BY <1>3
  <2>2. SumFunction(MapList(SupplyChange, ks \o new))
            = SumFunction(MapList(SupplyChange, ks)) + SumFunction(MapList(SupplyChange, new))
    BY <1>3, KernelFunctions, MapJoined
  <2> QED
    BY <1>3, <2>1, <2>2, KernelLists
<1>10. SumFunction(Excesses(ks \o new))
           = SumFunction(Excesses(ks)) + SumFunction(Excesses(new))
  <2>1. ks \o new \in Seq(Kernel)
    BY <1>3
  <2>2. SumFunction(MapList(Excess, ks \o new))
            = SumFunction(MapList(Excess, ks)) + SumFunction(MapList(Excess, new))
    BY <1>3, KernelFunctions, MapJoined
  <2> QED
    BY <1>3, <2>1, <2>2, KernelLists
<1>11. \A F \in [Commitment -> Int] :
           /\ CoinSum(F, s.utxos) \in Int
           /\ CoinSum(F, t.utxos) = CoinSum(F, s.utxos)
                  - SumFunction(MapList(F, body.ins)) + SumFunction(MapList(F, body.outs))
  BY EffectSums
<1>12. /\ CoinSum(Amount, s.utxos) \in Int
       /\ CoinSum(Amount, t.utxos) = CoinSum(Amount, s.utxos)
              - SumFunction(Amounts(body.ins)) + SumFunction(Amounts(body.outs))
  BY <1>11, CoinTypes, CoinLists
<1>13. /\ CoinSum(Blind, s.utxos) \in Int
       /\ CoinSum(Blind, t.utxos) = CoinSum(Blind, s.utxos)
              - SumFunction(Blinds(body.ins)) + SumFunction(Blinds(body.outs))
  BY <1>11, CoinTypes, CoinLists
<1> HIDE DEF t, e, to, own
<1>14. CoinSum(Amount, t.utxos) = SumFunction(SupplyChanges(ks \o new))
  <2>1. CoinSum(Amount, s.utxos) = SumFunction(SupplyChanges(ks))
    BY DEF SumsRight
  <2>2. \A i, j, k, l \in Int : k - j = l => i - j + k = i + l
    OBVIOUS
  <2>3. CoinSum(Amount, t.utxos) = CoinSum(Amount, s.utxos) + SumFunction(SupplyChanges(new))
    BY <1>6, <1>7, <1>12, <2>2
  <2> QED
    BY <1>9, <2>1, <2>3
<1>15. CoinSum(Blind, t.utxos) = SumFunction(Excesses(ks \o new)) + b.offset
  <2>1. CoinSum(Blind, s.utxos) = SumFunction(Excesses(ks)) + at.offset
    BY DEF SumsRight
  <2>2. b.offset - at.offset = SumFunction(Blinds(body.outs)) - SumFunction(Blinds(body.ins))
                                   - SumFunction(Excesses(new))
    BY <1>6 DEF own, OwnOffset
  <2>3. \A i, j, k, l, m, o \in Int :
            o - m = k - j - l => (i + m) - j + k = (i + l) + o
    OBVIOUS
  <2>4. SumFunction(Excesses(ks)) \in Int
    BY <1>3, <1>8
  <2> DEFINE i == SumFunction(Excesses(ks))
             j == SumFunction(Blinds(body.ins))
             k == SumFunction(Blinds(body.outs))
             l == SumFunction(Excesses(new))
             m == at.offset
             o == b.offset
  <2>5. i \in Int /\ j \in Int /\ k \in Int /\ l \in Int /\ m \in Int /\ o \in Int
        /\ o - m = k - j - l
    BY <1>3, <1>7, <2>2, <2>4
  <2> HIDE DEF i, j, k, l, m, o
  <2>6. (i + m) - j + k = (i + l) + o
    BY <2>3, <2>5
  <2> QED
    BY <1>10, <1>13, <2>1, <2>6 DEF i, j, k, l, m, o
<1>16. SumFunction(SupplyChanges(ks)) >= 0
  <2>1. CoinSum(Amount, s.utxos) >= 0
    BY CoinsWorth
  <2> QED
    BY <2>1 DEF SumsRight
<1>17. SumFunction(SupplyChanges(ks \o new)) >= 0
  <2>1. CoinSum(Amount, t.utxos) >= 0
    BY CoinsWorth DEF t, e
  <2> QED
    BY <1>14, <2>1
<1>18. NeverNegative(ks \o new)
  <2>1. NeverNegative(ks)
    BY DEF SumsRight
  <2> HIDE DEF ks, new
  <2>2. ks \in Seq(Kernel) /\ new \in Seq(Kernel) /\ Ordered(new, KernelSort)
    BY <1>3 DEF new
  <2> QED
    BY <1>16, <1>17, <2>1, <2>2, SupplyOfBlock
<1>19. to.s.utxos = t.utxos /\ to.s.kernels = ks \o new /\ to.offset = b.offset
  BY <1>1, <1>4
<1>20. SumsRight(to)
  <2> HIDE DEF ks, new
  <2> QED
    BY <1>14, <1>15, <1>18, <1>19 DEF SumsRight
<1> QED
  BY <1>20 DEF to

\* In the state before the first block all sums are 0.
LEMMA GenesisSums ==
    ASSUME NEW at, at = [s |-> Genesis, offset |-> 0]
    PROVE  at \in Place /\ SoundState(at.s) /\ SumsRight(at)
PROOF
<1>1. SumFunction(<<>>) = 0
  BY SumEmpty DEF SumFunction
<1>2. SupplyChanges(<<>>) = <<>> /\ Excesses(<<>>) = <<>>
  BY DEF SupplyChanges, Excesses
<1>3. \A F : CoinSum(F, {}) = 0
  <2>1. \A F : DOMAIN [u \in {} |-> F[u[1]]] = {}
    OBVIOUS
  <2> QED
    BY <2>1, SumEmpty DEF CoinSum, SumFunction
<1>4. at.s.utxos = {} /\ at.s.kernels = <<>> /\ at.offset = 0 /\ at.s = Genesis
  BY DEF Genesis, State
<1>5. NeverNegative(<<>>)
  BY DEF NeverNegative
<1>6. SumsRight(at)
  <2>1. CoinSum(Amount, at.s.utxos) = 0 /\ CoinSum(Blind, at.s.utxos) = 0
    BY <1>3, <1>4
  <2>2. SumFunction(SupplyChanges(at.s.kernels)) = 0
    BY <1>1, <1>2, <1>4
  <2>3. SumFunction(Excesses(at.s.kernels)) + at.offset = 0
    <3>1. SumFunction(Excesses(at.s.kernels)) = 0
      BY <1>1, <1>2, <1>4
    <3> QED
      BY <1>4, <3>1
  <2>4. NeverNegative(at.s.kernels)
    BY <1>4, <1>5
  <2> QED
    BY <2>1, <2>2, <2>3, <2>4 DEF SumsRight
<1>7. SoundState(at.s)
  BY <1>4, GenesisState
<1>8. at \in Place
  BY <1>7 DEF Place, SoundState
<1> QED
  BY <1>6, <1>7, <1>8

\* A body that TxBody::Validate passes has no input and no output twice, and its
\* kernels are sorted.
LEMMA ValidBody ==
    ASSUME NEW body, body.ins \in Seq(Commitment), body.outs \in Seq(Commitment),
           body.kernels \in Seq(Kernel), Validate(body)
    PROVE  /\ Injective(body.ins) /\ Injective(body.outs) /\ Injective(body.kernels)
           /\ Injective(Excesses(body.kernels)) /\ Ordered(body.kernels, KernelSort)
           /\ IsBlock(Effect(body))
PROOF
<1>1. Distinct(body.ins) /\ Distinct(body.outs) /\ Distinct(Excesses(body.kernels))
      /\ Ordered(body.kernels, KernelSort)
  BY DEF Validate, NoDuplicates
<1>2. Injective(body.ins)
  BY <1>1, DistinctInjective
<1>3. Injective(body.outs)
  BY <1>1, DistinctInjective
<1>4. Injective(body.kernels) /\ Injective(Excesses(body.kernels))
  <2> DEFINE ks == body.kernels
             x == Excesses(ks)
  <2>1. x \in Seq(Int)
    BY KernelFunctions, KernelLists, MapSum
  <2>2. DOMAIN x = DOMAIN ks /\ \A i \in DOMAIN ks : x[i] = ks[i].excess
    BY DEF Excesses
  <2> HIDE DEF x
  <2>3. Injective(x)
    BY <1>1, <2>1, DistinctInjective DEF x
  <2>4. Injective(ks)
    BY <2>2, <2>3 DEF Injective
  <2> QED
    BY <2>3, <2>4 DEF x
<1>5. IsBlock(Effect(body))
  <2> DEFINE e == Effect(body)
  <2>1. e.ins = ToSet(body.ins) /\ e.outs = body.outs /\ e.kernels = body.kernels
    BY DEF Effect
  <2>2. ToSet(body.ins) \subseteq Commitment
    BY DEF ToSet
  <2> HIDE DEF e
  <2>3. IsBlock(e)
    BY <1>3, <2>1, <2>2 DEF IsBlock, Injective
  <2> QED
    BY <2>3 DEF e
<1> QED
  BY <1>1, <1>2, <1>3, <1>4, <1>5

\* What connects to a sound state, and makes no coin that there is, makes a sound
\* state with right sums.
LEMMA ConnectedPlace ==
    ASSUME NEW at \in Place, SoundState(at.s), SumsRight(at),
           NEW b, b.offset \in Int, NEW body, b.body = body,
           body.ins \in Seq(Commitment), body.outs \in Seq(Commitment),
           body.kernels \in Seq(Kernel), Validate(body),
           ToSet(body.ins) \subseteq Unspent(at.s),
           ToSet(body.outs) \cap Unspent(at.s) = {},
           ValidateForBlock(body, b.offset, at.offset)
    PROVE  /\ Connected(at, b) \in Place
           /\ SoundState(Connected(at, b).s)
           /\ SumsRight(Connected(at, b))
PROOF
<1> DEFINE e == Effect(body)
           t == Apply(at.s, e)
           to == Connected(at, b)
<1>1. Injective(body.ins) /\ Ordered(body.kernels, KernelSort) /\ IsBlock(e)
  BY ValidBody
<1>2. e.ins = ToSet(body.ins) /\ e.outs = body.outs
  BY DEF Effect
<1>3. to = [s |-> t, offset |-> b.offset]
  BY DEF Connected
<1>4. Extends(at.s, e)
  BY <1>2 DEF Extends, Outs, ToSet
<1> HIDE DEF e
<1>5. SoundState(t)
  BY <1>1, <1>4, SoundApplied
<1>6. SumsRight(to)
  BY <1>1, <1>5, SumsConnected DEF e
<1> HIDE DEF t
<1>7. to \in Place /\ to.s = t
  BY <1>3, <1>5 DEF Place, SoundState
<1> QED
  BY <1>5, <1>6, <1>7

\* A chain of sound states with right sums; it stays one with another of them, or
\* without the last.
IsChain(c) ==
    /\ c \in Seq(Place) /\ c # <<>>
    /\ \A i \in DOMAIN c : SoundState(c[i].s) /\ SumsRight(c[i])

\* A connect adds one of them.
LEMMA ChainGrows ==
    ASSUME NEW c, IsChain(c), NEW to \in Place, SoundState(to.s), SumsRight(to)
    PROVE  IsChain(Append(c, to))
PROOF
<1> DEFINE d == Append(c, to)
<1>1. c \in Seq(Place)
  BY DEF IsChain
<1>2. d \in Seq(Place) /\ Len(d) = Len(c) + 1 /\ Len(c) \in Nat
  BY <1>1
<1>3. \A i \in DOMAIN d : (i \in DOMAIN c /\ d[i] = c[i]) \/ d[i] = to
  BY <1>1
<1> HIDE DEF d
<1>5. d # <<>>
  <2>1. Len(<<>>) = 0
    OBVIOUS
  <2> QED
    BY <1>2, <2>1
<1>4. \A i \in DOMAIN d : SoundState(d[i].s) /\ SumsRight(d[i])
  BY <1>3 DEF IsChain
<1> QED
  BY <1>2, <1>4, <1>5 DEF IsChain, d

\* A disconnect takes the last.
LEMMA ChainShrinks ==
    ASSUME NEW c, IsChain(c), Len(c) > 2
    PROVE  IsChain(SubSeq(c, 1, Len(c) - 1))
PROOF
<1> DEFINE m == Len(c) - 1
           d == SubSeq(c, 1, m)
<1>1. c \in Seq(Place) /\ Len(c) \in Nat /\ DOMAIN c = 1 .. Len(c)
  BY DEF IsChain
<1>2. m \in 0 .. Len(c) /\ m >= 1 /\ m \in Nat
  BY <1>1
<1>3. d \in [1 .. m -> Place] /\ \A i \in 1 .. m : d[i] = c[i]
  <2> HIDE DEF m
  <2> QED
    BY <1>1, <1>2, PrefixAt
<1>4. \A i \in 1 .. m : i \in DOMAIN c
  BY <1>1, <1>2
<1> HIDE DEF m, d
<1>5. d \in Seq(Place) /\ d # <<>> /\ DOMAIN d = 1 .. m
  <2>1. d \in Seq(Place) /\ DOMAIN d = 1 .. m
    BY <1>2, <1>3
  <2>2. d # <<>>
    <3>1. 1 \in DOMAIN d /\ DOMAIN <<>> = {}
      BY <1>2, <2>1
    <3> QED
      BY <3>1
  <2> QED
    BY <2>1, <2>2
<1>6. \A i \in DOMAIN d : SoundState(d[i].s) /\ SumsRight(d[i])
  BY <1>3, <1>4, <1>5 DEF IsChain
<1> QED
  BY <1>5, <1>6 DEF IsChain, d, m

\* The tip is one of them.
LEMMA TipSound ==
    ASSUME IsChain(chain)
    PROVE  Tip \in Place /\ SoundState(Tip.s) /\ SumsRight(Tip)
PROOF
<1>1. chain \in Seq(Place) /\ Len(chain) \in DOMAIN chain
  BY DEF IsChain
<1> QED
  BY <1>1 DEF IsChain, Tip
-----------------------------------------------------------------------------
(* The invariant.                                                          *)

Builder == [weight : Nat, txs : Seq(Transaction), open : BOOLEAN]

\* A block that was built of transactions that had been taken on the state it
\* was built on; a checked one has a valid body.
Block ==
    [body : TxBody, hdr : Header, offset : Int, owner_offset : Int,
     validated : BOOLEAN, built : {TRUE}, txs : Seq(Transaction), at : Place]

BuiltRight(b) ==
    /\ b \in Block
    /\ SoundState(b.at.s) /\ TakenOn(b.txs, b.at.s)
    /\ b.body = Aggregated(b.txs).body
    /\ b.hdr = BuildNextBlock(b.at, b.txs).hdr
    /\ b.offset = HeaderOffset(b.at, Aggregated(b.txs))
    /\ b.validated => Validate(b.body)

\* The states of the chain are sound and their sums right; a builder has only
\* transactions that it could take on the tip; and the last block is what was
\* built of them.
IInv ==
    /\ IsChain(chain)
    /\ builder \in Builder
    /\ builder.open => TakenOn(builder.txs, Tip.s)
    /\ block = NoBlock \/ BuiltRight(block)

\* A builder without transactions has taken none.
LEMMA NoneTaken == \A s : TakenOn(<<>>, s)
PROOF
<1>1. <<>> \in Seq(Transaction) /\ Len(<<>>) = 0 /\ 1 .. 0 = {}
  OBVIOUS
<1> QED
  BY <1>1 DEF TakenOn

\* The invariant holds at the start: of the genesis, without builder or block.
LEMMA InitIInv == Init => IInv
PROOF
<1> SUFFICES ASSUME Init PROVE IInv
  OBVIOUS
<1> DEFINE at == [s |-> Genesis, offset |-> 0]
<1>1. chain = <<at>> /\ builder = NoBuilder /\ block = NoBlock
  BY DEF Init
<1>2. at \in Place /\ SoundState(at.s) /\ SumsRight(at)
  BY GenesisSums
<1> HIDE DEF at
<1>3. IsChain(chain)
  <2>1. <<at>> \in Seq(Place) /\ <<at>> # <<>> /\ \A i \in DOMAIN <<at>> : <<at>>[i] = at
    BY <1>2
  <2> QED
    BY <1>1, <1>2, <2>1 DEF IsChain
<1>4. NoBuilder \in Builder /\ ~NoBuilder.open
  BY DEF NoBuilder, Builder
<1> QED
  BY <1>1, <1>3, <1>4 DEF IInv

\* What BuildNextBlock makes.
LEMMA Builds ==
    ASSUME NEW at \in Place, SoundState(at.s), NEW txs, TakenOn(txs, at.s),
           NEW b, b = BuildNextBlock(at, txs)
    PROVE  BuiltRight(b)
PROOF
<1> DEFINE tx == Aggregated(txs)
           body == tx.body
           U == SpendAll(at.s.utxos \cup Mined(body, Len(at.s.txos)), body.ins)
           leafset == {u[2] : u \in U}
           hdr == HeaderOf(at.s.txos \o body.outs, at.s.kernels \o body.kernels, leafset)
<1>1. /\ tx \in Transaction
      /\ body.ins \in Seq(Commitment) /\ body.outs \in Seq(Commitment)
      /\ body.kernels \in Seq(Kernel) /\ tx.kernel_offset \in Int
      /\ ToSet(body.ins) \subseteq Unspent(at.s)
      /\ ToSet(body.outs) \cap Unspent(at.s) = {}
  BY BuiltOn
<1>2. body \in TxBody /\ tx.owner_offset \in Int
  BY <1>1 DEF Transaction
<1>3. at.s.txos \in Seq(Commitment) /\ at.s.kernels \in Seq(Kernel) /\ at.offset \in Int
  BY StateFields DEF Place
<1>4. leafset \in SUBSET Nat
  <2>1. \A u \in at.s.utxos : u[2] \in Nat
    BY StateFields
  <2>2. Len(at.s.txos) \in Nat
    BY <1>3
  <2> HIDE DEF body
  <2>3. \A u \in Mined(body, Len(at.s.txos)) : u[2] \in Nat
    BY <1>1, <2>2, MinedCoins
  <2>4. U \subseteq at.s.utxos \cup Mined(body, Len(at.s.txos))
    BY DEF SpendAll
  <2> HIDE DEF U
  <2> QED
    BY <2>1, <2>3, <2>4
<1>5. hdr \in Header
  <2> DEFINE x == at.s.txos \o body.outs
             k == at.s.kernels \o body.kernels
  <2>1. x \in Seq(Commitment) /\ k \in Seq(Kernel)
    BY <1>1, <1>3
  <2> HIDE DEF x, k, leafset
  <2>2. HeaderOf(x, k, leafset) \in Header
    BY <1>4, <2>1, HeaderOfType
  <2> QED
    BY <2>2 DEF x, k
<1>6. b = [body |-> body, hdr |-> hdr, offset |-> HeaderOffset(at, tx),
           owner_offset |-> tx.owner_offset, validated |-> FALSE, built |-> TRUE,
           txs |-> txs, at |-> at]
  BY DEF BuildNextBlock
<1>7. HeaderOffset(at, tx) \in Int
  BY <1>1, <1>3 DEF HeaderOffset
<1>8. txs \in Seq(Transaction)
  BY DEF TakenOn
<1> HIDE DEF hdr, body, tx
<1>9. b \in Block /\ b.at = at /\ b.txs = txs /\ b.body = body /\ ~b.validated
      /\ b.offset = HeaderOffset(at, tx)
  BY <1>2, <1>5, <1>6, <1>7, <1>8 DEF Block
<1>10. b.hdr = BuildNextBlock(b.at, b.txs).hdr
  BY <1>9
<1>11. b.body = Aggregated(b.txs).body /\ b.offset = HeaderOffset(b.at, Aggregated(b.txs))
  BY <1>9 DEF body, tx
<1> QED
  BY <1>9, <1>10, <1>11 DEF BuiltRight

\* A built block that connects does so where it was built.
LEMMA BuiltConnects ==
    ASSUME NEW tip \in Place, SoundState(tip.s), NEW b, BuiltRight(b), Connects(tip, b)
    PROVE  /\ tip.s.txos = b.at.s.txos /\ tip.s.kernels = b.at.s.kernels
           /\ tip.s.utxos = b.at.s.utxos /\ tip.offset = b.at.offset
PROOF
<1> DEFINE at == b.at
           txs == b.txs
           tx == Aggregated(txs)
<1>1. /\ at \in Place /\ SoundState(at.s) /\ TakenOn(txs, at.s)
      /\ b.body = tx.body /\ b.offset = HeaderOffset(at, tx)
      /\ b.hdr = BuildNextBlock(at, txs).hdr
      /\ tx = Aggregated(txs)
  BY DEF BuiltRight, Block
<1> HIDE DEF at, txs, tx
<1>2. /\ tip.s.txos = at.s.txos /\ tip.s.kernels = at.s.kernels
      /\ tip.s.utxos = at.s.utxos /\ tip.offset = at.offset
  BY <1>1, ConnectsBack
<1> QED
  BY <1>2 DEF at

\* Each of the other steps keeps the invariant.
LEMMA NewBuilderStep == IInv /\ NewBuilder => IInv'
PROOF
<1> SUFFICES ASSUME IInv, NewBuilder PROVE IInv'
  OBVIOUS
<1>1. /\ builder' = [weight |-> 0, txs |-> <<>>, open |-> TRUE]
      /\ block' = NoBlock /\ chain' = chain
  BY DEF NewBuilder, NoBuilder
<1>2. builder' \in Builder /\ TakenOn(builder'.txs, Tip'.s)
  BY <1>1, NoneTaken DEF Builder
<1>3. IsChain(chain')
  BY <1>1 DEF IInv
<1> QED
  BY <1>1, <1>2, <1>3 DEF IInv

\* A transaction that is taken joins those that could be taken.
LEMMA AddTransactionStep ==
    ASSUME IInv, NEW tx \in Mempool, AddTransaction(tx)
    PROVE  IInv'
PROOF
<1> DEFINE w == builder.weight + Weight(tx.body)
           txs == Append(builder.txs, tx)
<1>1. builder \in Builder /\ builder.open /\ TakenOn(builder.txs, Tip.s)
      /\ chain' = chain /\ block' = block
      /\ builder' = [builder EXCEPT !.txs = Append(@, tx),
                                    !.weight = @ + Weight(tx.body)]
      /\ Accepts(builder, tx, GetPegIns(tx.body))
  BY DEF IInv, AddTransaction
<1>2. tx \in Transaction
  BY MempoolType
<1>3. w \in Nat
  <2>1. tx.body \in TxBody
    BY <1>2 DEF Transaction
  <2>2. /\ Len(tx.body.kernels) \in Nat /\ Len(tx.body.owner_sigs) \in Nat
        /\ Len(tx.body.outs) \in Nat
    BY <2>1 DEF TxBody
  <2>3. \A i, j, k \in Nat : 2 * i + j + 18 * k \in Nat
    OBVIOUS
  <2>4. Weight(tx.body) \in Nat
    BY <2>2, <2>3 DEF Weight
  <2>5. builder.weight \in Nat
    BY <1>1 DEF Builder
  <2> QED
    BY <2>4, <2>5
<1>4. /\ ValidTx(tx) /\ ToSet(tx.body.ins) \subseteq Unspent(Tip.s)
      /\ ToSet(tx.body.outs) \cap Unspent(Tip.s) = {}
  BY <1>1 DEF Accepts
<1>5. TakenOn(txs, Tip.s)
  <2> DEFINE old == builder.txs
  <2>1. old \in Seq(Transaction)
    BY <1>1 DEF Builder
  <2>2. \A i \in 1 .. Len(old) : /\ ValidTx(old[i])
                                /\ ToSet(old[i].body.ins) \subseteq Unspent(Tip.s)
                                /\ ToSet(old[i].body.outs) \cap Unspent(Tip.s) = {}
    BY <1>1 DEF TakenOn
  <2> HIDE DEF old
  <2>3. txs \in Seq(Transaction)
        /\ \A i \in 1 .. Len(txs) : (i \in 1 .. Len(old) /\ txs[i] = old[i]) \/ txs[i] = tx
    BY <1>2, <2>1 DEF old
  <2> HIDE DEF txs
  <2> QED
    BY <1>4, <2>2, <2>3 DEF TakenOn
<1>6. builder' = [weight |-> w, txs |-> txs, open |-> builder.open]
  BY <1>1 DEF Builder
<1>7. txs \in Seq(Transaction)
  BY <1>5 DEF TakenOn
<1> HIDE DEF w, txs
<1>8. builder' \in Builder /\ builder'.txs = txs
  <2> DEFINE o == builder.open
             n == [weight |-> w, txs |-> txs, open |-> o]
  <2>1. o \in BOOLEAN
    BY <1>1 DEF Builder
  <2>2. builder' = n
    BY <1>6
  <2> HIDE DEF o
  <2>3. n \in Builder /\ n.txs = txs
    BY <2>1, <1>3, <1>7 DEF Builder
  <2> HIDE DEF n
  <2> QED
    BY <2>2, <2>3
<1>9. Tip' = Tip
  BY <1>1 DEF Tip
<1>10. IsChain(chain') /\ (block' = NoBlock \/ BuiltRight(block'))
  BY <1>1 DEF IInv
<1>11. builder'.open => TakenOn(builder'.txs, Tip'.s)
  BY <1>5, <1>8, <1>9
<1> QED
  BY <1>8, <1>10, <1>11 DEF IInv

\* The block is made of what had been taken on the tip.
LEMMA BuildBlockStep == IInv /\ BuildBlock => IInv'
PROOF
<1> SUFFICES ASSUME IInv, BuildBlock PROVE IInv'
  OBVIOUS
<1>1. /\ builder.open /\ block' = BuildNextBlock(Tip, builder.txs)
      /\ builder' = NoBuilder /\ chain' = chain
  BY DEF BuildBlock
<1>2. IsChain(chain) /\ TakenOn(builder.txs, Tip.s)
  BY <1>1 DEF IInv
<1>3. Tip \in Place /\ SoundState(Tip.s)
  BY <1>2, TipSound
<1>4. BuiltRight(block')
  <2> DEFINE at == Tip
             txs == builder.txs
             b == block'
  <2>1. at \in Place /\ SoundState(at.s) /\ TakenOn(txs, at.s) /\ b = BuildNextBlock(at, txs)
    BY <1>1, <1>2, <1>3
  <2> HIDE DEF at, txs, b
  <2>2. BuiltRight(b)
    BY <2>1, Builds
  <2> QED
    BY <2>2 DEF b
<1>5. builder' \in Builder /\ ~builder'.open
  BY <1>1 DEF NoBuilder, Builder
<1>6. IsChain(chain')
  BY <1>1, <1>2
<1> QED
  BY <1>4, <1>5, <1>6 DEF IInv

\* A builder that is dropped leaves nothing behind.
LEMMA BuildBlockThrowsStep == IInv /\ BuildBlockThrows => IInv'
PROOF
<1> SUFFICES ASSUME IInv, BuildBlockThrows PROVE IInv'
  OBVIOUS
<1>1. builder' = NoBuilder /\ chain' = chain /\ block' = block
  BY DEF BuildBlockThrows
<1>2. builder' \in Builder /\ ~builder'.open
  BY <1>1 DEF NoBuilder, Builder
<1>3. IsChain(chain') /\ (block' = NoBlock \/ BuiltRight(block'))
  BY <1>1 DEF IInv
<1> QED
  BY <1>2, <1>3 DEF IInv

\* A block that was built is not the one there is before.
LEMMA BlockBuilt == IInv /\ block.built => BuiltRight(block)
PROOF
  BY DEF IInv, NoBlock

\* A block of which a check has passed is still the one that was built.
LEMMA CheckedRight ==
    ASSUME NEW b, BuiltRight(b), Validate(b.body),
           NEW n, n = [b EXCEPT !.validated = TRUE]
    PROVE  BuiltRight(n)
PROOF
<1> DEFINE body == b.body
           hdr == b.hdr
           offset == b.offset
           owner == b.owner_offset
           txs == b.txs
           at == b.at
           m == [body |-> body, hdr |-> hdr, offset |-> offset, owner_offset |-> owner,
                 validated |-> TRUE, built |-> TRUE, txs |-> txs, at |-> at]
<1>1. /\ body \in TxBody /\ hdr \in Header /\ offset \in Int /\ owner \in Int
      /\ txs \in Seq(Transaction) /\ at \in Place
  BY DEF BuiltRight, Block
<1>2. n = m
  BY DEF BuiltRight, Block
<1>3. /\ SoundState(at.s) /\ TakenOn(txs, at.s)
      /\ body = Aggregated(txs).body
      /\ hdr = BuildNextBlock(at, txs).hdr
      /\ offset = HeaderOffset(at, Aggregated(txs))
      /\ Validate(body)
  BY DEF BuiltRight
<1> HIDE DEF body, hdr, offset, owner, txs, at
<1>4. m \in Block
  BY <1>1 DEF Block
<1>5. /\ m.body = body /\ m.hdr = hdr /\ m.offset = offset /\ m.txs = txs /\ m.at = at
  OBVIOUS
<1> HIDE DEF m
<1>6. BuiltRight(m)
  BY <1>3, <1>4, <1>5 DEF BuiltRight
<1> QED
  BY <1>2, <1>6

\* A check marks the block that was built.
LEMMA CheckBlockStep == IInv /\ CheckBlock => IInv'
PROOF
<1> SUFFICES ASSUME IInv, CheckBlock PROVE IInv'
  OBVIOUS
<1>1. /\ block.built /\ Passes(block, PegIns(block.txs), PegOuts(block.txs))
      /\ block' = [block EXCEPT !.validated = TRUE]
      /\ chain' = chain /\ builder' = builder
  BY DEF CheckBlock
<1>2. BuiltRight(block)
  BY <1>1, BlockBuilt
<1>3. Validate(block.body)
  BY <1>1 DEF Passes
<1>4. BuiltRight(block')
  BY <1>1, <1>2, <1>3, CheckedRight
<1>5. Tip' = Tip
  BY <1>1 DEF Tip
<1> QED
  BY <1>1, <1>4, <1>5 DEF IInv

\* The block connects where it was built, so that its outputs are new there, and its
\* sums extend those of the tip.
LEMMA ConnectBlockStep == IInv /\ ConnectBlock => IInv'
PROOF
<1> SUFFICES ASSUME IInv, ConnectBlock PROVE IInv'
  OBVIOUS
<1> DEFINE at == Tip
           b == block
           body == b.body
           to == Connected(at, b)
<1>1. /\ ~builder.open /\ b.built /\ b.validated /\ Connects(at, b)
      /\ chain' = Append(chain, to) /\ builder' = builder /\ block' = block
  BY DEF ConnectBlock
<1>2. BuiltRight(b)
  BY <1>1, BlockBuilt
<1>3. IsChain(chain)
  BY DEF IInv
<1>4. at \in Place /\ SoundState(at.s) /\ SumsRight(at)
  BY <1>3, TipSound
<1> HIDE DEF at, b, to
<1>5. at.s.utxos = b.at.s.utxos
  BY <1>1, <1>2, <1>4, BuiltConnects
<1>6. /\ body.ins \in Seq(Commitment) /\ body.outs \in Seq(Commitment)
      /\ body.kernels \in Seq(Kernel)
      /\ ToSet(body.outs) \cap Unspent(b.at.s) = {}
  <2> DEFINE s == b.at.s
             txs == b.txs
             tx == Aggregated(txs)
  <2>1. TakenOn(txs, s) /\ body = tx.body /\ tx = Aggregated(txs)
    BY <1>2 DEF BuiltRight
  <2> HIDE DEF s, txs, tx, body
  <2>2. /\ tx.body.ins \in Seq(Commitment) /\ tx.body.outs \in Seq(Commitment)
        /\ tx.body.kernels \in Seq(Kernel) /\ ToSet(tx.body.outs) \cap Unspent(s) = {}
    BY <2>1, BuiltOn
  <2> QED
    BY <2>1, <2>2 DEF s
<1>7. ToSet(body.outs) \cap Unspent(at.s) = {}
  BY <1>5, <1>6 DEF Unspent
<1>8. Validate(body) /\ b.offset \in Int
  BY <1>1, <1>2 DEF BuiltRight, Block
<1>9. ValidateForBlock(body, b.offset, at.offset) /\ ToSet(body.ins) \subseteq Unspent(at.s)
  BY <1>1 DEF Connects
<1>10. b.body = body
  OBVIOUS
<1> HIDE DEF body
<1>11. to \in Place /\ SoundState(to.s) /\ SumsRight(to)
  BY <1>4, <1>6, <1>7, <1>8, <1>9, <1>10, ConnectedPlace DEF to
<1>12. IsChain(chain')
  BY <1>1, <1>3, <1>11, ChainGrows
<1> QED
  BY <1>1, <1>12 DEF IInv

\* The bodies of other miners are made of coins and kernels that there are.
LEMMA ForeignBodyType ==
    ASSUME NEW body \in ForeignBodies
    PROVE  /\ body.ins \in Seq(Commitment) /\ body.outs \in Seq(Commitment)
           /\ body.kernels \in Seq(Kernel) /\ Validate(body)
PROOF
<1> DEFINE K == {KernelOf(r) : r \in OtherRequests}
<1>1. \A S, n : \A l \in Lists(S, n) : l \in Seq(S)
  BY DEF Lists
<1>2. K \subseteq Kernel
  BY MiningAssumption, RequestAssumption
<1>3. /\ body.ins \in Lists(Commitment, MaxTXOs)
      /\ body.outs \in Lists(Commitment, MaxOutputs)
      /\ body.kernels \in Lists(K, MaxKernels)
      /\ Validate(body)
  BY DEF ForeignBodies
<1> HIDE DEF K
<1>4. body.kernels \in Seq(K)
  BY <1>1, <1>3
<1>5. body.kernels \in Seq(Kernel)
  BY <1>2, <1>4
<1> QED
  BY <1>1, <1>3, <1>5

\* The sums of a block of another miner extend those of the tip as well.
LEMMA ForeignBlockStep ==
    ASSUME IInv, NEW body \in ForeignBodies, ForeignBlock(body)
    PROVE  IInv'
PROOF
<1> DEFINE at == Tip
           B(offset) == [body |-> body, offset |-> offset,
                         hdr |-> Apply(at.s, Effect(body)).hdr]
<1>1. /\ ~builder.open /\ Extends(at.s, Effect(body))
      /\ builder' = builder /\ block' = block
  BY DEF ForeignBlock
<1>2. PICK offset \in {OwnOffset(body), at.offset + OwnOffset(body)} :
         Connects(at, B(offset)) /\ chain' = Append(chain, Connected(at, B(offset)))
  BY DEF ForeignBlock
<1> DEFINE b == B(offset)
           to == Connected(at, b)
<1>3. IsChain(chain)
  BY DEF IInv
<1>4. at \in Place /\ SoundState(at.s) /\ SumsRight(at)
  BY <1>3, TipSound
<1>5. /\ body.ins \in Seq(Commitment) /\ body.outs \in Seq(Commitment)
      /\ body.kernels \in Seq(Kernel) /\ Validate(body)
  BY ForeignBodyType
<1> HIDE DEF at
<1>6. offset \in Int
  <2>1. OwnOffset(body) \in Int
    BY <1>5, OwnOffsetType
  <2>2. at.offset \in Int
    BY <1>4 DEF Place
  <2> QED
    BY <1>2, <2>1, <2>2
<1>7. b.body = body /\ b.offset = offset
  OBVIOUS
<1> HIDE DEF b
<1>8. /\ ValidateForBlock(body, b.offset, at.offset)
      /\ ToSet(body.ins) \subseteq Unspent(at.s)
  BY <1>2, <1>7 DEF Connects, b
<1>9. ToSet(body.outs) \cap Unspent(at.s) = {}
  BY <1>1 DEF Extends, Effect, Outs, ToSet
<1>10. b.offset \in Int
  BY <1>6, <1>7
<1>11. to \in Place /\ SoundState(to.s) /\ SumsRight(to)
  BY <1>4, <1>5, <1>7, <1>8, <1>9, <1>10, ConnectedPlace
<1>12. chain' = Append(chain, to)
  BY <1>2 DEF b
<1> HIDE DEF to
<1>13. IsChain(chain')
  BY <1>3, <1>11, <1>12, ChainGrows
<1> QED
  BY <1>1, <1>13 DEF IInv

\* What a disconnect leaves is a chain.
LEMMA DisconnectBlockStep == IInv /\ DisconnectBlock => IInv'
PROOF
<1> SUFFICES ASSUME IInv, DisconnectBlock PROVE IInv'
  OBVIOUS
<1>1. /\ ~builder.open /\ Len(chain) > 2
      /\ chain' = SubSeq(chain, 1, Len(chain) - 1)
      /\ builder' = builder /\ block' = block
  BY DEF DisconnectBlock
<1>2. IsChain(chain)
  BY DEF IInv
<1>3. IsChain(chain')
  BY <1>1, <1>2, ChainShrinks
<1> QED
  BY <1>1, <1>3 DEF IInv

\* No step breaks the invariant.
LEMMA StepIInv == IInv /\ [Next]_vars => IInv'
PROOF
<1> SUFFICES ASSUME IInv, [Next]_vars PROVE IInv'
  OBVIOUS
<1>1. CASE NewBuilder
  BY <1>1, NewBuilderStep
<1>2. CASE \E tx \in Mempool : AddTransaction(tx)
  BY <1>2, AddTransactionStep
<1>3. CASE BuildBlock
  BY <1>3, BuildBlockStep
<1>4. CASE BuildBlockThrows
  BY <1>4, BuildBlockThrowsStep
<1>5. CASE CheckBlock
  BY <1>5, CheckBlockStep
<1>6. CASE ConnectBlock
  BY <1>6, ConnectBlockStep
<1>7. CASE \E body \in ForeignBodies : ForeignBlock(body)
  BY <1>7, ForeignBlockStep
<1>8. CASE DisconnectBlock
  BY <1>8, DisconnectBlockStep
<1>9. CASE UNCHANGED vars
  <2>1. chain' = chain /\ builder' = builder /\ block' = block
    BY <1>9 DEF vars
  <2>2. Tip' = Tip
    BY <2>1 DEF Tip
  <2> QED
    BY <2>1, <2>2 DEF IInv
<1> QED
  BY <1>1, <1>2, <1>3, <1>4, <1>5, <1>6, <1>7, <1>8, <1>9 DEF Next

\* The invariant holds in every state that the node, its miner and the others
\* get to.
THEOREM Invariant == Spec => []IInv
PROOF
<1>1. Init => IInv
  BY InitIInv
<1>2. IInv /\ [Next]_vars => IInv'
  BY StepIInv
<1> QED
  BY <1>1, <1>2, PTL DEF Spec
-----------------------------------------------------------------------------
(* What the runs check.                                                    *)

\* A block that was built connects on a state with the coins, kernels and
\* offset of the one it was built on, and on no other.
THEOREM WhereBuilt == Spec => []ConnectsWhereBuilt
PROOF
<1>1. IInv => ConnectsWhereBuilt
  <2> SUFFICES ASSUME IInv, block.built, Connects(Tip, block)
               PROVE  /\ Tip.s.txos = block.at.s.txos
                      /\ Tip.s.kernels = block.at.s.kernels
                      /\ Tip.s.utxos = block.at.s.utxos
                      /\ Tip.offset = block.at.offset
    BY DEF ConnectsWhereBuilt
  <2>1. Tip \in Place /\ SoundState(Tip.s)
    BY TipSound DEF IInv
  <2>2. BuiltRight(block)
    BY BlockBuilt
  <2> DEFINE at == Tip
  <2>3. at \in Place /\ SoundState(at.s) /\ Connects(at, block)
    BY <2>1
  <2> HIDE DEF at
  <2>4. /\ at.s.txos = block.at.s.txos /\ at.s.kernels = block.at.s.kernels
        /\ at.s.utxos = block.at.s.utxos /\ at.offset = block.at.offset
    BY <2>2, <2>3, BuiltConnects
  <2> QED
    BY <2>4 DEF at
<1> QED
  BY <1>1, Invariant, PTL

\* The sums of a state that come to zero have no encoding, which the blinding
\* factors that wallets draw make as good as impossible.
NoSumAtInfinity ==
    \A i \in 2 .. Len(chain) :
        LET s == chain[i].s
        IN  /\ s.utxos # {} => \/ CoinSum(Amount, s.utxos) # 0
                               \/ CoinSum(Blind, s.utxos) # 0
            /\ s.kernels # <<>> => SumFunction(Excesses(s.kernels)) # 0
            /\ SumFunction(SupplyChanges(s.kernels)) # 0 \/ chain[i].offset # 0 =>
                   CoinSum(Blind, s.utxos) # 0

\* In every state of the chain the unspent outputs are worth the supply, their
\* blinding factors are those of the kernels and the offset, and the supply was
\* never below 0: nobody made or lost a coin.
ChainSums == \A i \in DOMAIN chain : SumsRight(chain[i])

\* That what AddTransaction, CheckBlock and ConnectBlock compare of one block at
\* a time adds up over the whole chain, whatever was disconnected in between.
THEOREM SumsOfChain == Spec => []ChainSums
PROOF
<1>1. IInv => ChainSums
  BY DEF IInv, IsChain, ChainSums
<1> QED
  BY <1>1, Invariant, PTL

\* ValidateState then passes every state, as long as no sum is at infinity.
THEOREM StatesValid == Spec => [](NoSumAtInfinity => StateSums)
PROOF
<1>1. IInv /\ NoSumAtInfinity => StateSums
  <2> SUFFICES ASSUME IInv, NoSumAtInfinity, NEW i \in 2 .. Len(chain)
               PROVE  ValidateState(chain[i].s, chain[i].offset)
    BY DEF StateSums
  <2> DEFINE at == chain[i]
             s == at.s
             value == CoinSum(Amount, s.utxos)
             blind == CoinSum(Blind, s.utxos)
  <2>1. chain \in Seq(Place) /\ IsChain(chain)
    BY DEF IInv, IsChain
  <2>2. SumsRight(at)
    BY <2>1 DEF IsChain
  <2>3. /\ s.utxos # {} => value # 0 \/ blind # 0
        /\ s.kernels # <<>> => SumFunction(Excesses(s.kernels)) # 0
        /\ SumFunction(SupplyChanges(s.kernels)) # 0 \/ at.offset # 0 => blind # 0
    BY DEF NoSumAtInfinity
  <2>4. /\ value = SumFunction(SupplyChanges(s.kernels))
        /\ blind = SumFunction(Excesses(s.kernels)) + at.offset
        /\ NeverNegative(s.kernels)
    BY <2>2 DEF SumsRight
  <2>5. /\ value = SumFunction([u \in s.utxos |-> Amount[u[1]]])
        /\ blind = SumFunction([u \in s.utxos |-> Blind[u[1]]])
    BY DEF CoinSum
  <2> HIDE DEF value, blind, at
  <2>6. ValidateSums(s.utxos # {}, value, blind, s.kernels, at.offset)
    BY <2>3, <2>4 DEF ValidateSums
  <2>7. ValidateState(s, at.offset)
    BY <2>4, <2>5, <2>6 DEF ValidateState, NeverNegative
  <2> QED
    BY <2>7 DEF at
<1> QED
  BY <1>1, Invariant, PTL

\* Of transactions that AddTransaction took and of which two conflict no block
\* passes CheckBlock: its lists have the coin or kernel that they share twice.
THEOREM ConflictsFound == Spec => []ConflictsCaught
PROOF
<1>1. IInv => ConflictsCaught
  <2> DEFINE txs == builder.txs
             b == BuildNextBlock(Tip, txs)
             body == Aggregated(txs).body
  <2> SUFFICES ASSUME IInv, builder.open, Passes(b, PegIns(txs), PegOuts(txs))
               PROVE  NoConflict(txs)
    BY DEF ConflictsCaught
  <2>1. TakenOn(txs, Tip.s)
    BY DEF IInv
  <2>2. Validate(body)
    BY DEF Passes, BuildNextBlock
  <2> HIDE DEF txs
  <2>3. txs \in Seq(Transaction)
    BY <2>1 DEF TakenOn
  <2>4. /\ body.ins \in Seq(Commitment) /\ body.outs \in Seq(Commitment)
        /\ body.kernels \in Seq(Kernel)
    BY <2>1, BuiltOn
  <2>5. /\ Injective(body.ins) /\ Injective(body.outs)
        /\ Injective(Excesses(body.kernels))
    BY <2>2, <2>4, ValidBody
  <2> DEFINE n == Len(txs)
  <2>6. /\ Apart(InsOf(txs), n) /\ Apart(OutsOf(txs), n) /\ Apart(ExcessesOf(txs), n)
    BY <2>3, <2>5, AggregatedLists
  <2>7. DOMAIN txs = 1 .. n
    BY <2>3
  <2> QED
    BY <2>6, <2>7 DEF NoConflict, Apart, InsOf, OutsOf, ExcessesOf
<1> QED
  BY <1>1, Invariant, PTL
-----------------------------------------------------------------------------
(* What a transaction's sums compare, and an aggregate's.                  *)

\* A running total of numbers ends with their sum.
LEMMA RunningTotal ==
    ASSUME NEW n \in Nat, NEW v \in [0 .. n -> Int], NEW x \in [1 .. n -> Int],
           v[0] = 0, \A k \in 1 .. n : v[k] = v[k - 1] + x[k]
    PROVE  v[n] = SumFunction(x)
PROOF
<1> DEFINE s(k) == SumFunctionOnSet(x, 1 .. k)
           T == {k \in 0 .. n : v[k] = s(k)}
<1>1. 0 \in T
  <2>1. 1 .. 0 = {}
    OBVIOUS
  <2> QED
    BY <2>1, SumEmpty
<1>2. ASSUME NEW k \in 1 .. n, k - 1 \in T PROVE k \in T
  <2>1. /\ k \notin 1 .. k - 1 /\ (1 .. k - 1) \cup {k} = 1 .. k
        /\ k - 1 \in Nat /\ k \in 0 .. n
    OBVIOUS
  <2>2. IsFiniteSet(1 .. k - 1)
    BY <2>1, FS_Interval
  <2>3. \A y \in (1 .. k - 1) \cup {k} : x[y] \in Int
    BY <2>1
  <2>4. s(k) = x[k] + s(k - 1)
    <3> HIDE DEF T
    <3>1. SumFunctionOnSet(x, (1 .. k - 1) \cup {k}) = x[k] + SumFunctionOnSet(x, 1 .. k - 1)
      BY <2>1, <2>2, <2>3, SumAdd
    <3> QED
      BY <2>1, <3>1
  <2>5. v[k - 1] = s(k - 1)
    BY <1>2
  <2> HIDE DEF s
  <2>6. v[k] = s(k)
    <3>1. x[k] \in Int /\ v[k - 1] \in Int
      OBVIOUS
    <3>2. \A i, j \in Int : i + j = j + i
      OBVIOUS
    <3>3. v[k] = v[k - 1] + x[k]
      OBVIOUS
    <3> QED
      BY <2>4, <2>5, <3>1, <3>2, <3>3, Zenon
  <2> QED
    BY <2>1, <2>6
<1> HIDE DEF T
<1>3. 0 .. n \subseteq T
  BY <1>1, <1>2, BoundedInduction
<1>4. n \in T
  BY <1>3
<1>5. DOMAIN x = 1 .. n
  OBVIOUS
<1> QED
  BY <1>4, <1>5 DEF T, SumFunction

\* Bodies whose lists are in the order that TxBody::Validate asks for.
SortedBody(body) ==
    /\ Ordered(body.ins, SortByCommitment)
    /\ Ordered(body.outs, SortByCommitment)
    /\ Ordered(body.kernels, KernelSort)
    /\ Ordered(body.owner_sigs, SortByHash)

\* Transaction::Create leaves its lists in that order, and keeps the owner
\* messages.
LEMMA CreatedSorted ==
    ASSUME NEW k \in Int, NEW o \in Int, NEW body \in TxBody,
           NEW tx, tx = Create(k, o, body)
    PROVE  /\ SortedBody(tx.body)
           /\ tx.owner_offset = o
           /\ Rearranges(tx.body.owner_sigs, body.owner_sigs)
PROOF
<1> DEFINE ins == SortBy(body.ins, SortByCommitment)
           outs == SortBy(body.outs, SortByCommitment)
           kernels == SortBy(body.kernels, KernelSort)
           sigs == SortBy(body.owner_sigs, SortByHash)
<1>1. /\ body.ins \in Seq(Commitment) /\ body.outs \in Seq(Commitment)
      /\ body.kernels \in Seq(Kernel) /\ body.owner_sigs \in Seq(Message)
  BY DEF TxBody
<1>2. Ordered(ins, SortByCommitment) /\ Ordered(outs, SortByCommitment)
  BY <1>1, CommitmentsSorted
<1>3. Ordered(kernels, KernelSort)
  BY <1>1, KernelsSorted
<1>4. Ordered(sigs, SortByHash) /\ Rearranges(sigs, body.owner_sigs)
  BY <1>1, MessagesSorted
<1>5. tx = [kernel_offset |-> k, owner_offset |-> o,
            body |-> [ins |-> ins, outs |-> outs, kernels |-> kernels,
                      owner_sigs |-> sigs]]
  BY DEF Create
<1> HIDE DEF ins, outs, kernels, sigs
<1>6. /\ tx.body.ins = ins /\ tx.body.outs = outs /\ tx.body.kernels = kernels
      /\ tx.body.owner_sigs = sigs /\ tx.owner_offset = o
  BY <1>5
<1> QED
  BY <1>2, <1>3, <1>4, <1>6 DEF SortedBody

\* So does Aggregate.
LEMMA AggregateSorted ==
    ASSUME NEW a \in Transaction, NEW b \in Transaction
    PROVE  /\ SortedBody(Aggregate(a, b).body)
           /\ Aggregate(a, b).owner_offset = a.owner_offset + b.owner_offset
           /\ Rearranges(Aggregate(a, b).body.owner_sigs,
                         a.body.owner_sigs \o b.body.owner_sigs)
PROOF
<1> DEFINE body == [ins        |-> a.body.ins \o b.body.ins,
                    outs       |-> a.body.outs \o b.body.outs,
                    kernels    |-> a.body.kernels \o b.body.kernels,
                    owner_sigs |-> a.body.owner_sigs \o b.body.owner_sigs]
           k == a.kernel_offset + b.kernel_offset
           o == a.owner_offset + b.owner_offset
           tx == Aggregate(a, b)
<1>1. a.body \in TxBody /\ b.body \in TxBody /\ k \in Int /\ o \in Int
  BY DEF Transaction
<1>2. a.body.ins \o b.body.ins \in Seq(Commitment)
  BY <1>1 DEF TxBody
<1>3. a.body.outs \o b.body.outs \in Seq(Commitment)
  BY <1>1 DEF TxBody
<1>4. a.body.kernels \o b.body.kernels \in Seq(Kernel)
  BY <1>1 DEF TxBody
<1>5. a.body.owner_sigs \o b.body.owner_sigs \in Seq(Message)
  BY <1>1 DEF TxBody
<1>6. body \in TxBody
  BY <1>2, <1>3, <1>4, <1>5 DEF TxBody
<1>7. tx = Create(k, o, body)
  BY DEF Aggregate
<1>8. body.owner_sigs = a.body.owner_sigs \o b.body.owner_sigs
  OBVIOUS
<1> HIDE DEF k, o, body, tx
<1>9. SortedBody(tx.body) /\ tx.owner_offset = o
      /\ Rearranges(tx.body.owner_sigs, body.owner_sigs)
  BY <1>1, <1>6, <1>7, CreatedSorted
<1> QED
  BY <1>8, <1>9 DEF tx, o

\* The lists and numbers of a transaction.
LEMMA TransactionFields ==
    ASSUME NEW tx \in Transaction
    PROVE  /\ tx.body.ins \in Seq(Commitment) /\ tx.body.outs \in Seq(Commitment)
           /\ tx.body.kernels \in Seq(Kernel) /\ tx.body.owner_sigs \in Seq(Message)
           /\ tx.kernel_offset \in Int /\ tx.owner_offset \in Int
  BY DEF Transaction, TxBody

\* Two lists, joined and in another order.
LEMMA JoinedRearranged ==
    ASSUME NEW X, NEW s \in Seq(X), NEW t \in Seq(X), NEW u, Rearranges(u, s \o t)
    PROVE  Len(u) = Len(s) + Len(t) /\ ToSet(u) = ToSet(s) \cup ToSet(t)
PROOF
<1>1. s \o t \in Seq(X) /\ ToSet(s \o t) = ToSet(s) \cup ToSet(t)
  BY Joined
<1>2. Len(u) = Len(s \o t) /\ ToSet(u) = ToSet(s \o t)
  BY <1>1, Rearranged
<1>3. Len(s \o t) = Len(s) + Len(t)
  OBVIOUS
<1> QED
  BY <1>1, <1>2, <1>3

\* How long the lists of an aggregate are, and of which kernels and messages.
LEMMA AggregateLengths ==
    ASSUME NEW a \in Transaction, NEW b \in Transaction
    PROVE  LET c == Aggregate(a, b)
           IN  /\ Len(c.body.outs) = Len(a.body.outs) + Len(b.body.outs)
               /\ Len(c.body.kernels) = Len(a.body.kernels) + Len(b.body.kernels)
               /\ Len(c.body.owner_sigs) = Len(a.body.owner_sigs) + Len(b.body.owner_sigs)
PROOF
<1> DEFINE c == Aggregate(a, b)
<1>1. Rearranges(c.body.outs, a.body.outs \o b.body.outs)
  BY AggregateOf
<1>2. Rearranges(c.body.kernels, a.body.kernels \o b.body.kernels)
  BY AggregateOf
<1>3. Rearranges(c.body.owner_sigs, a.body.owner_sigs \o b.body.owner_sigs)
  BY AggregateSorted
<1> HIDE DEF c
<1>4. a.body.outs \in Seq(Commitment) /\ b.body.outs \in Seq(Commitment)
  BY TransactionFields
<1>5. a.body.kernels \in Seq(Kernel) /\ b.body.kernels \in Seq(Kernel)
  BY TransactionFields
<1>6. a.body.owner_sigs \in Seq(Message) /\ b.body.owner_sigs \in Seq(Message)
  BY TransactionFields
<1>7. Len(c.body.outs) = Len(a.body.outs) + Len(b.body.outs)
  BY <1>1, <1>4, JoinedRearranged
<1>8. Len(c.body.kernels) = Len(a.body.kernels) + Len(b.body.kernels)
  BY <1>2, <1>5, JoinedRearranged
<1>9. Len(c.body.owner_sigs) = Len(a.body.owner_sigs) + Len(b.body.owner_sigs)
  BY <1>3, <1>6, JoinedRearranged
<1> QED
  BY <1>7, <1>8, <1>9 DEF c

\* and have the kernels and messages of both.
LEMMA AggregateMembers ==
    ASSUME NEW a \in Transaction, NEW b \in Transaction
    PROVE  LET c == Aggregate(a, b)
           IN  /\ ToSet(c.body.kernels) = ToSet(a.body.kernels) \cup ToSet(b.body.kernels)
               /\ ToSet(c.body.owner_sigs) =
                      ToSet(a.body.owner_sigs) \cup ToSet(b.body.owner_sigs)
PROOF
<1> DEFINE c == Aggregate(a, b)
<1>1. Rearranges(c.body.kernels, a.body.kernels \o b.body.kernels)
  BY AggregateOf
<1>2. Rearranges(c.body.owner_sigs, a.body.owner_sigs \o b.body.owner_sigs)
  BY AggregateSorted
<1> HIDE DEF c
<1>3. a.body.kernels \in Seq(Kernel) /\ b.body.kernels \in Seq(Kernel)
  BY TransactionFields
<1>4. a.body.owner_sigs \in Seq(Message) /\ b.body.owner_sigs \in Seq(Message)
  BY TransactionFields
<1>5. ToSet(c.body.kernels) = ToSet(a.body.kernels) \cup ToSet(b.body.kernels)
  BY <1>1, <1>3, JoinedRearranged
<1>6. ToSet(c.body.owner_sigs) = ToSet(a.body.owner_sigs) \cup ToSet(b.body.owner_sigs)
  BY <1>2, <1>4, JoinedRearranged
<1> QED
  BY <1>5, <1>6 DEF c

\* What the outputs of a body are worth beyond its inputs.
Worth(body) == SumFunction(Amounts(body.outs)) - SumFunction(Amounts(body.ins))

\* The owners of what a transaction spends, with its messages and owner offset,
OwnersIn(tx) ==
    SumFunction(SpendKeys(tx.body.ins)) + SumFunction(Keys(tx.body.owner_sigs))
        + tx.owner_offset

\* and of what it makes.
OwnersOut(tx) == SumFunction(SenderKeys(tx.body.outs))

\* Every owner message signs a kernel of the body.
KernelsSigned(body) == \A m \in ToSet(body.owner_sigs) : m.kernel \in ToSet(body.kernels)

\* What a valid transaction's sums show: its offset is its own, its coins change by
\* the supply of its kernels, its owners' keys agree, and its messages sign them.
Balances(tx) ==
    /\ OffsetIsOwn(tx)
    /\ Worth(tx.body) = SumFunction(SupplyChanges(tx.body.kernels))
    /\ OwnersIn(tx) = OwnersOut(tx)
    /\ KernelsSigned(tx.body)

\* The key of an owner message,
MessageKey == [m \in Message |-> m.key]

\* so that the keys of a body's messages are a mapped list.
LEMMA MessageLists ==
    /\ MessageKey \in [Message -> Int]
    /\ \A ms \in Seq(Message) : Keys(ms) = MapList(MessageKey, ms)
PROOF
<1>1. \A m \in Message : m.key \in Int
  BY DEF Message
<1>2. MessageKey \in [Message -> Int]
  BY <1>1 DEF MessageKey
<1>3. ASSUME NEW ms \in Seq(Message) PROVE Keys(ms) = MapList(MessageKey, ms)
  <2>1. \A i \in DOMAIN ms : ms[i] \in Message
    OBVIOUS
  <2>2. \A i \in DOMAIN ms : MessageKey[ms[i]] = ms[i].key
    BY <2>1 DEF MessageKey
  <2> QED
    BY <2>2 DEF Keys, MapList
<1> QED
  BY <1>2, <1>3

\* What is compared are integers.
LEMMA BalanceType ==
    ASSUME NEW tx \in Transaction
    PROVE  /\ Worth(tx.body) \in Int
           /\ SumFunction(SpendKeys(tx.body.ins)) \in Int
           /\ SumFunction(Keys(tx.body.owner_sigs)) \in Int
           /\ OwnersOut(tx) \in Int
PROOF
<1>1. /\ tx.body.ins \in Seq(Commitment) /\ tx.body.outs \in Seq(Commitment)
      /\ tx.body.kernels \in Seq(Kernel) /\ tx.body.owner_sigs \in Seq(Message)
  BY TransactionFields
<1>2. /\ SumFunction(Amounts(tx.body.outs)) \in Int
      /\ SumFunction(Amounts(tx.body.ins)) \in Int
  BY <1>1, OwnOffsetType
<1>3. Worth(tx.body) \in Int
  <2>1. \A i, j \in Int : i - j \in Int
    OBVIOUS
  <2> QED
    BY <1>2, <2>1 DEF Worth
<1>4. SumFunction(SpendKeys(tx.body.ins)) \in Int
  <2>1. SumFunction(MapList(SpendKey, tx.body.ins)) \in Int
    BY <1>1, CoinTypes, MapSum
  <2> QED
    BY <1>1, <2>1, CoinLists
<1>5. OwnersOut(tx) \in Int
  <2>1. SumFunction(MapList(SenderKey, tx.body.outs)) \in Int
    BY <1>1, CoinTypes, MapSum
  <2> QED
    BY <1>1, <2>1, CoinLists DEF OwnersOut
<1>6. SumFunction(Keys(tx.body.owner_sigs)) \in Int
  <2>1. SumFunction(MapList(MessageKey, tx.body.owner_sigs)) \in Int
    BY <1>1, MessageLists, MapSum
  <2> QED
    BY <1>1, <2>1, MessageLists
<1> QED
  BY <1>3, <1>4, <1>5, <1>6

\* A valid transaction balances.
LEMMA ValidBalances ==
    ASSUME NEW tx \in Transaction, ValidTx(tx)
    PROVE  Balances(tx)
PROOF
<1>1. /\ tx.body.ins \in Seq(Commitment) /\ tx.body.outs \in Seq(Commitment)
      /\ tx.body.kernels \in Seq(Kernel) /\ tx.kernel_offset \in Int
  BY TransactionFields
<1>2. ValidateForTx(tx.body, tx.kernel_offset)
  BY DEF ValidTx
<1>3. Worth(tx.body) = SumFunction(SupplyChanges(tx.body.kernels))
  BY <1>1, <1>2, RightSums DEF Worth
<1>4. OffsetIsOwn(tx)
  BY ValidOffset
<1>5. OwnersIn(tx) = OwnersOut(tx)
  BY DEF ValidTx, OwnerSums, OwnersIn, OwnersOut
<1>6. KernelsSigned(tx.body)
  BY DEF ValidTx, Validate, KernelsSigned
<1> QED
  BY <1>3, <1>4, <1>5, <1>6 DEF Balances

\* So does no transaction.
LEMMA NothingBalances == Balances(NoTransaction)
PROOF
<1>1. SumFunction(<<>>) = 0
  BY SumEmpty DEF SumFunction
<1>2. /\ Blinds(<<>>) = <<>> /\ Excesses(<<>>) = <<>> /\ Amounts(<<>>) = <<>>
      /\ SupplyChanges(<<>>) = <<>> /\ SpendKeys(<<>>) = <<>>
      /\ SenderKeys(<<>>) = <<>> /\ Keys(<<>>) = <<>>
  BY DEF Blinds, Excesses, Amounts, SupplyChanges, SpendKeys, SenderKeys, Keys
<1>3. OffsetIsOwn(NoTransaction)
  BY <1>1, <1>2 DEF OffsetIsOwn, OwnOffset, NoTransaction, EmptyBody
<1>4. Worth(NoTransaction.body) = SumFunction(SupplyChanges(NoTransaction.body.kernels))
  BY <1>1, <1>2 DEF Worth, NoTransaction, EmptyBody
<1>5. OwnersIn(NoTransaction) = OwnersOut(NoTransaction)
  BY <1>1, <1>2 DEF OwnersIn, OwnersOut, NoTransaction, EmptyBody
<1>6. KernelsSigned(NoTransaction.body)
  BY DEF KernelsSigned, NoTransaction, EmptyBody, ToSet
<1> QED
  BY <1>3, <1>4, <1>5, <1>6 DEF Balances

\* So do two transactions that do, aggregated.
LEMMA AggregateBalances ==
    ASSUME NEW a \in Transaction, NEW b \in Transaction, Balances(a), Balances(b),
           NEW c, c = Aggregate(a, b)
    PROVE  Balances(c)
PROOF
<1> DEFINE Out(t) == SumFunction(Amounts(t.body.outs))
           In(t) == SumFunction(Amounts(t.body.ins))
           Made(t) == SumFunction(SupplyChanges(t.body.kernels))
           Spend(t) == SumFunction(SpendKeys(t.body.ins))
           Sign(t) == SumFunction(Keys(t.body.owner_sigs))
<1>1. \A t \in Transaction : /\ t.body.ins \in Seq(Commitment)
                             /\ t.body.outs \in Seq(Commitment)
                             /\ t.body.kernels \in Seq(Kernel)
                             /\ t.body.owner_sigs \in Seq(Message)
                             /\ t.owner_offset \in Int
  BY TransactionFields
<1>2. c \in Transaction /\ OffsetIsOwn(c)
  BY AggregateOf, AggregateOffset DEF Balances
<1>3. Rearranges(c.body.ins, a.body.ins \o b.body.ins)
  BY AggregateOf
<1>4. Rearranges(c.body.outs, a.body.outs \o b.body.outs)
  BY AggregateOf
<1>5. Rearranges(c.body.kernels, a.body.kernels \o b.body.kernels)
  BY AggregateOf
<1>6. Rearranges(c.body.owner_sigs, a.body.owner_sigs \o b.body.owner_sigs)
      /\ c.owner_offset = a.owner_offset + b.owner_offset
  BY AggregateSorted
<1>7. Out(c) = Out(a) + Out(b)
  <2>1. SumFunction(MapList(Amount, c.body.outs)) =
            SumFunction(MapList(Amount, a.body.outs)) + SumFunction(MapList(Amount, b.body.outs))
    BY <1>1, <1>4, CoinTypes, MapSums
  <2> QED
    BY <1>1, <1>2, <2>1, CoinLists
<1>8. In(c) = In(a) + In(b)
  <2>1. SumFunction(MapList(Amount, c.body.ins)) =
            SumFunction(MapList(Amount, a.body.ins)) + SumFunction(MapList(Amount, b.body.ins))
    BY <1>1, <1>3, CoinTypes, MapSums
  <2> QED
    BY <1>1, <1>2, <2>1, CoinLists
<1>9. Made(c) = Made(a) + Made(b)
  <2>1. SumFunction(MapList(SupplyChange, c.body.kernels)) =
            SumFunction(MapList(SupplyChange, a.body.kernels))
                + SumFunction(MapList(SupplyChange, b.body.kernels))
    BY <1>1, <1>5, KernelFunctions, MapSums
  <2> QED
    BY <1>1, <1>2, <2>1, KernelLists
<1>10. Spend(c) = Spend(a) + Spend(b)
  <2>1. SumFunction(MapList(SpendKey, c.body.ins)) =
            SumFunction(MapList(SpendKey, a.body.ins))
                + SumFunction(MapList(SpendKey, b.body.ins))
    BY <1>1, <1>3, CoinTypes, MapSums
  <2> QED
    BY <1>1, <1>2, <2>1, CoinLists
<1>11. OwnersOut(c) = OwnersOut(a) + OwnersOut(b)
  <2>1. SumFunction(MapList(SenderKey, c.body.outs)) =
            SumFunction(MapList(SenderKey, a.body.outs))
                + SumFunction(MapList(SenderKey, b.body.outs))
    BY <1>1, <1>4, CoinTypes, MapSums
  <2> QED
    BY <1>1, <1>2, <2>1, CoinLists DEF OwnersOut
<1>12. Sign(c) = Sign(a) + Sign(b)
  <2>1. SumFunction(MapList(MessageKey, c.body.owner_sigs)) =
            SumFunction(MapList(MessageKey, a.body.owner_sigs))
                + SumFunction(MapList(MessageKey, b.body.owner_sigs))
    BY <1>1, <1>6, MessageLists, MapSums
  <2> QED
    BY <1>1, <1>2, <2>1, MessageLists
<1>13. \A t \in Transaction : /\ Out(t) \in Int /\ In(t) \in Int
                              /\ Spend(t) \in Int /\ Sign(t) \in Int
  BY <1>1, BalanceType, OwnOffsetType
<1>14. \A t \in Transaction : /\ Worth(t.body) = Out(t) - In(t)
                              /\ OwnersIn(t) = Spend(t) + Sign(t) + t.owner_offset
  BY DEF Worth, OwnersIn
<1> HIDE DEF Out, In, Made, Spend, Sign
<1>15. Worth(c.body) = Made(c)
  <2>1. Out(a) - In(a) = Made(a) /\ Out(b) - In(b) = Made(b)
    BY <1>14 DEF Balances, Made
  <2>2. \A i, j, k, l \in Int : (i + j) - (k + l) = (i - k) + (j - l)
    OBVIOUS
  <2>3. Out(c) - In(c) = Made(c)
    BY <1>7, <1>8, <1>9, <1>13, <2>1, <2>2
  <2> QED
    BY <1>2, <1>14, <2>3
<1>16. OwnersIn(c) = OwnersOut(c)
  <2>1. /\ Spend(a) + Sign(a) + a.owner_offset = OwnersOut(a)
        /\ Spend(b) + Sign(b) + b.owner_offset = OwnersOut(b)
    BY <1>14 DEF Balances
  <2>2. \A i, j, k, l, m, n \in Int :
            (i + l) + (j + m) + (k + n) = (i + j + k) + (l + m + n)
    OBVIOUS
  <2>3. Spend(c) + Sign(c) + c.owner_offset = OwnersOut(c)
    BY <1>1, <1>6, <1>10, <1>11, <1>12, <1>13, <2>1, <2>2
  <2> QED
    BY <1>2, <1>14, <2>3
<1>17. KernelsSigned(c.body)
  <2>1. ToSet(c.body.kernels) = ToSet(a.body.kernels) \cup ToSet(b.body.kernels)
    BY AggregateMembers
  <2>3. ToSet(c.body.owner_sigs) = ToSet(a.body.owner_sigs) \cup ToSet(b.body.owner_sigs)
    BY AggregateMembers
  <2>2. KernelsSigned(a.body) /\ KernelsSigned(b.body)
    BY DEF Balances
  <2> QED
    BY <2>1, <2>2, <2>3 DEF KernelsSigned
<1> QED
  BY <1>2, <1>15, <1>16, <1>17 DEF Balances, Made

\* So do all those that AddTransaction took, in lists in order.
LEMMA AggregatedBalances ==
    ASSUME NEW txs \in Seq(Transaction), AllValid(txs)
    PROVE  /\ Balances(Aggregated(txs))
           /\ SortedBody(Aggregated(txs).body)
PROOF
<1> DEFINE n == Len(txs)
<1>1. n \in Nat /\ \A k \in 1 .. n : txs[k] \in Transaction
  OBVIOUS
<1>2. \A k \in 1 .. n : Balances(txs[k])
  BY <1>1, ValidBalances DEF AllValid
<1> HIDE DEF n
<1>3. PICK p \in [0 .. n -> Transaction] :
          /\ p[0] = NoTransaction /\ p[n] = Aggregated(txs)
          /\ \A k \in 1 .. n : p[k] = Aggregate(p[k - 1], txs[k])
  BY AggregatedSteps DEF Aggregates, n
<1> DEFINE T == {k \in 0 .. n : Balances(p[k]) /\ SortedBody(p[k].body)}
<1>4. 0 \in T
  <2>1. SortedBody(EmptyBody)
    BY DEF SortedBody, EmptyBody, Ordered
  <2>2. SortedBody(NoTransaction.body)
    BY <2>1 DEF NoTransaction
  <2> QED
    BY <1>1, <1>3, <2>2, NothingBalances
<1>5. ASSUME NEW k \in 1 .. n, k - 1 \in T PROVE k \in T
  <2>1. p[k - 1] \in Transaction /\ Balances(p[k - 1])
    BY <1>3, <1>5
  <2>2. Balances(p[k])
    BY <1>1, <1>2, <1>3, <2>1, AggregateBalances
  <2>3. SortedBody(p[k].body)
    BY <1>1, <1>3, <2>1, AggregateSorted
  <2> QED
    BY <2>2, <2>3
<1> HIDE DEF T
<1>6. 0 .. n \subseteq T
  BY <1>1, <1>4, <1>5, BoundedInduction
<1>7. n \in T
  BY <1>1, <1>6
<1> QED
  BY <1>3, <1>7 DEF T

\* What the transactions weigh.
Weights(txs) == [i \in 1 .. Len(txs) |-> Weight(txs[i].body)]

\* An aggregate weighs what both transactions do.
LEMMA AggregateWeight ==
    ASSUME NEW a \in Transaction, NEW b \in Transaction
    PROVE  /\ Weight(a.body) \in Nat /\ Weight(b.body) \in Nat
           /\ Weight(Aggregate(a, b).body) = Weight(a.body) + Weight(b.body)
PROOF
<1> DEFINE c == Aggregate(a, b)
<1>1. \A t \in Transaction : /\ Len(t.body.outs) \in Nat /\ Len(t.body.kernels) \in Nat
                             /\ Len(t.body.owner_sigs) \in Nat
  <2> SUFFICES ASSUME NEW t \in Transaction
               PROVE  /\ Len(t.body.outs) \in Nat /\ Len(t.body.kernels) \in Nat
                      /\ Len(t.body.owner_sigs) \in Nat
    OBVIOUS
  <2>1. /\ t.body.outs \in Seq(Commitment) /\ t.body.kernels \in Seq(Kernel)
        /\ t.body.owner_sigs \in Seq(Message)
    BY TransactionFields
  <2> QED
    BY <2>1
<1>2. /\ Len(c.body.outs) = Len(a.body.outs) + Len(b.body.outs)
      /\ Len(c.body.kernels) = Len(a.body.kernels) + Len(b.body.kernels)
      /\ Len(c.body.owner_sigs) = Len(a.body.owner_sigs) + Len(b.body.owner_sigs)
  BY AggregateLengths
<1> HIDE DEF c
<1>3. \A i, j, k \in Nat : 2 * i + j + 18 * k \in Nat
  OBVIOUS
<1>4. \A i, j, k, l, m, n \in Nat :
          2 * (i + l) + (j + m) + 18 * (k + n) = (2 * i + j + 18 * k) + (2 * l + m + 18 * n)
  OBVIOUS
<1>5. Weight(c.body) = Weight(a.body) + Weight(b.body)
  <2> DEFINE i == Len(a.body.kernels)
             j == Len(a.body.owner_sigs)
             k == Len(a.body.outs)
             l == Len(b.body.kernels)
             m == Len(b.body.owner_sigs)
             n == Len(b.body.outs)
  <2>1. /\ i \in Nat /\ j \in Nat /\ k \in Nat /\ l \in Nat /\ m \in Nat /\ n \in Nat
    BY <1>1
  <2>2. /\ Weight(c.body) = 2 * (i + l) + (j + m) + 18 * (k + n)
        /\ Weight(a.body) = 2 * i + j + 18 * k
        /\ Weight(b.body) = 2 * l + m + 18 * n
    BY <1>2 DEF Weight
  <2> HIDE DEF i, j, k, l, m, n
  <2> QED
    BY <1>4, <2>1, <2>2
<1> QED
  BY <1>1, <1>3, <1>5 DEF Weight, c

\* An aggregate weighs what all its transactions do.
LEMMA AggregatedWeight ==
    ASSUME NEW txs \in Seq(Transaction)
    PROVE  /\ Weights(txs) \in [1 .. Len(txs) -> Nat]
           /\ Weight(Aggregated(txs).body) = SumFunction(Weights(txs))
PROOF
<1> DEFINE n == Len(txs)
           x == Weights(txs)
<1>1. n \in Nat /\ \A k \in 1 .. n : txs[k] \in Transaction
  OBVIOUS
<1> HIDE DEF n
<1>2. \A t \in Transaction : Weight(t.body) \in Nat
  BY AggregateWeight
<1>3. x \in [1 .. n -> Nat] /\ \A k \in 1 .. n : x[k] = Weight(txs[k].body)
  BY <1>1, <1>2 DEF Weights, n
<1>4. PICK p \in [0 .. n -> Transaction] :
          /\ p[0] = NoTransaction /\ p[n] = Aggregated(txs)
          /\ \A k \in 1 .. n : p[k] = Aggregate(p[k - 1], txs[k])
  BY AggregatedSteps DEF Aggregates, n
<1> DEFINE v == [k \in 0 .. n |-> Weight(p[k].body)]
<1>5. v \in [0 .. n -> Int] /\ x \in [1 .. n -> Int]
  BY <1>2, <1>3, <1>4
<1>6. v[0] = 0
  <2>1. Weight(EmptyBody) = 0
    BY DEF Weight, EmptyBody
  <2>2. p[0].body = EmptyBody /\ 0 \in 0 .. n
    BY <1>1, <1>4 DEF NoTransaction
  <2> QED
    BY <2>1, <2>2
<1>7. \A k \in 1 .. n : v[k] = v[k - 1] + x[k]
  <2> SUFFICES ASSUME NEW k \in 1 .. n PROVE v[k] = v[k - 1] + x[k]
    OBVIOUS
  <2>1. k - 1 \in 0 .. n /\ k \in 0 .. n
    BY <1>1
  <2>2. p[k - 1] \in Transaction /\ txs[k] \in Transaction
    BY <1>1, <2>1
  <2>3. Weight(p[k].body) = Weight(p[k - 1].body) + Weight(txs[k].body)
    BY <1>4, <2>2, AggregateWeight
  <2> QED
    BY <1>3, <2>1, <2>3
<1>8. v[n] = Weight(Aggregated(txs).body)
  BY <1>1, <1>4
<1> HIDE DEF v, x
<1>9. v[n] = SumFunction(x)
  BY <1>1, <1>5, <1>6, <1>7, RunningTotal
<1> QED
  BY <1>3, <1>8, <1>9 DEF x, n

\* The lists that FlattenSeq goes through, from none to all of them.
Flattens(ss, n, X) ==
    {p \in [0 .. n -> Seq(X)] :
        /\ p[0] = <<>> /\ p[n] = FlattenSeq(ss)
        /\ \A k \in 1 .. n : p[k] = p[k - 1] \o ss[k]}

\* FlattenSeq goes through such lists.
LEMMA FlattenSteps ==
    ASSUME NEW X, NEW ss, NEW n \in Nat, ss \in [1 .. n -> Seq(X)]
    PROVE  Flattens(ss, n, X) # {}
PROOF
<1> DEFINE V == Seq(X)
           step == [z \in V \X (1 .. n) |-> z[1] \o ss[z[2]]]
           Value(f, i) == IF i = 1 THEN ss[i] ELSE f[i - 1] \o ss[i]
           flatten == CHOOSE f : f = [i \in 1 .. n |-> Value(f, i)]
<1>1. CASE n = 0
  <2> DEFINE p == [k \in 0 .. n |-> <<>>]
  <2>1. ss = <<>> /\ Len(ss) = 0
    BY <1>1
  <2>2. FlattenSeq(ss) = <<>>
    BY <2>1 DEF FlattenSeq
  <2>3. p \in Flattens(ss, n, X)
    BY <1>1, <2>2 DEF Flattens
  <2> QED
    BY <2>3
<1>2. CASE n # 0
  <2>1. ss \in Seq(V) /\ Len(ss) = n
    OBVIOUS
  <2>2. FlattenSeq(ss) = flatten[n]
    BY <1>2, <2>1 DEF FlattenSeq
  <2> HIDE DEF flatten
  <2>3. <<>> \in V /\ \A k \in 1 .. n : ss[k] \in V /\ <<>> \o ss[k] = ss[k]
    OBVIOUS
  <2>4. \A v \in V, k \in 1 .. n : v \o ss[k] \in V
    BY <2>3
  <2> HIDE DEF V
  <2>5. step \in [V \X (1 .. n) -> V]
    BY <2>4
  <2>6. PICK g \in [SUBSET (1 .. n) -> V] :
            \A u \in SUBSET (1 .. n) :
                g[u] = IF u = {} THEN <<>>
                       ELSE step[<<g[u \ {Most(u)}], Most(u)>>]
    <3> HIDE DEF step
    <3>1. ListFolds(n, V, <<>>, step) # {}
      BY <2>3, <2>5, ListFoldExists
    <3> QED
      BY <3>1 DEF ListFolds
  <2> DEFINE h == [i \in 1 .. n |-> g[1 .. i]]
  <2>7. \A i \in 1 .. n : g[1 .. i] = g[1 .. i - 1] \o ss[i] /\ g[1 .. i - 1] \in V
    <3> SUFFICES ASSUME NEW i \in 1 .. n
                 PROVE  g[1 .. i] = g[1 .. i - 1] \o ss[i] /\ g[1 .. i - 1] \in V
      OBVIOUS
    <3>1. i \in Nat /\ i # 0 /\ 1 .. i \in SUBSET (1 .. n) /\ 1 .. i - 1 \in SUBSET (1 .. n)
      OBVIOUS
    <3>2. Most(1 .. i) = i /\ (1 .. i) \ {i} = 1 .. i - 1 /\ 1 .. i # {}
      BY <3>1, Segments
    <3>3. g[1 .. i] = step[<<g[1 .. i - 1], i>>]
      BY <2>6, <3>1, <3>2
    <3>4. g[1 .. i - 1] \in V
      BY <3>1
    <3> QED
      BY <3>3, <3>4
  <2>8. h[1] = ss[1] /\ \A i \in 1 .. n : i # 1 => h[i] = h[i - 1] \o ss[i]
    <3>1. 1 .. 1 - 1 = {} /\ {} \in SUBSET (1 .. n) /\ 1 \in 1 .. n
      BY <1>2
    <3>2. g[1 .. 1 - 1] = <<>>
      <4> HIDE DEF step
      <4> QED
        BY <2>6, <3>1
    <3>3. h[1] = <<>> \o ss[1]
      <4>1. g[1 .. 1] = g[1 .. 1 - 1] \o ss[1]
        BY <2>7, <3>1
      <4>2. h[1] = g[1 .. 1]
        BY <3>1
      <4> QED
        BY <3>2, <4>1, <4>2
    <3>4. \A i \in 1 .. n : i # 1 => i - 1 \in 1 .. n
      OBVIOUS
    <3> QED
      BY <2>3, <2>7, <3>1, <3>3, <3>4
  <2>9. h = [i \in 1 .. n |-> Value(h, i)]
    BY <2>8
  <2> HIDE DEF h
  <2>10. flatten = [i \in 1 .. n |-> Value(flatten, i)]
    <3> HIDE DEF Value
    <3> QED
      BY <2>9 DEF flatten
  <2> DEFINE T == {k \in 0 .. n : k # 0 => flatten[k] \in V}
  <2>11. \A k \in 1 .. n : k - 1 \in T => k \in T
    <3> SUFFICES ASSUME NEW k \in 1 .. n, k - 1 # 0 => flatten[k - 1] \in V
                 PROVE  flatten[k] \in V
      OBVIOUS
    <3>1. flatten[k] = IF k = 1 THEN ss[k] ELSE flatten[k - 1] \o ss[k]
      BY <2>10
    <3> QED
      BY <2>3, <2>4, <3>1
  <2>12. 0 \in T
    OBVIOUS
  <2> HIDE DEF T
  <2>13. 0 .. n \subseteq T
    BY <2>11, <2>12, BoundedInduction
  <2> DEFINE p == [k \in 0 .. n |-> IF k = 0 THEN <<>> ELSE flatten[k]]
  <2>14. p \in [0 .. n -> V] /\ p[0] = <<>> /\ p[n] = FlattenSeq(ss)
    BY <1>2, <2>2, <2>3, <2>13 DEF T
  <2>15. \A k \in 1 .. n : p[k] = p[k - 1] \o ss[k]
    <3> SUFFICES ASSUME NEW k \in 1 .. n PROVE p[k] = p[k - 1] \o ss[k]
      OBVIOUS
    <3>1. flatten[k] = IF k = 1 THEN ss[k] ELSE flatten[k - 1] \o ss[k]
      BY <2>10
    <3>2. k - 1 \in 0 .. n /\ k \in 0 .. n /\ k # 0
      OBVIOUS
    <3>3. CASE k = 1
      <4>1. p[k] = flatten[k] /\ p[k - 1] = <<>>
        BY <3>2, <3>3
      <4> QED
        BY <2>3, <3>1, <3>3, <4>1
    <3>4. CASE k # 1
      <4>1. p[k] = flatten[k] /\ p[k - 1] = flatten[k - 1]
        BY <3>2, <3>4
      <4> QED
        BY <3>1, <3>4, <4>1
    <3> QED
      BY <3>3, <3>4
  <2> HIDE DEF p
  <2> QED
    BY <2>14, <2>15 DEF Flattens, V
<1> QED
  BY <1>1, <1>2

\* How long each of some lists is.
LengthsIn(ss, n) == [i \in 1 .. n |-> Len(ss[i])]

\* What is in any of them.
AllIn(ss, n) == UNION {ToSet(ss[i]) : i \in 1 .. n}

\* One after the other they are as long as all of them, and have what they have.
LEMMA FlatMembers ==
    ASSUME NEW X, NEW n \in Nat, NEW ss \in [1 .. n -> Seq(X)]
    PROVE  /\ FlattenSeq(ss) \in Seq(X)
           /\ Len(FlattenSeq(ss)) = SumFunction(LengthsIn(ss, n))
           /\ ToSet(FlattenSeq(ss)) = AllIn(ss, n)
PROOF
<1> DEFINE x == LengthsIn(ss, n)
<1>1. PICK p \in [0 .. n -> Seq(X)] :
          /\ p[0] = <<>> /\ p[n] = FlattenSeq(ss)
          /\ \A k \in 1 .. n : p[k] = p[k - 1] \o ss[k]
  <2>1. Flattens(ss, n, X) # {}
    BY FlattenSteps
  <2> QED
    BY <2>1 DEF Flattens
<1>2. \A k \in 1 .. n : p[k - 1] \in Seq(X) /\ ss[k] \in Seq(X)
  OBVIOUS
<1> DEFINE v == [k \in 0 .. n |-> Len(p[k])]
           M(k) == UNION {ToSet(ss[i]) : i \in 1 .. k}
           T == {k \in 0 .. n : ToSet(p[k]) = M(k)}
<1>3. v \in [0 .. n -> Int] /\ x \in [1 .. n -> Int] /\ v[0] = 0
  BY <1>1 DEF LengthsIn
<1>4. \A k \in 1 .. n : v[k] = v[k - 1] + x[k]
  <2> SUFFICES ASSUME NEW k \in 1 .. n PROVE v[k] = v[k - 1] + x[k]
    OBVIOUS
  <2>1. k - 1 \in 0 .. n /\ k \in 0 .. n
    OBVIOUS
  <2>2. Len(p[k]) = Len(p[k - 1]) + Len(ss[k])
    BY <1>1, <1>2
  <2> QED
    BY <2>1, <2>2 DEF LengthsIn
<1>5. v[n] = SumFunction(x)
  <2> HIDE DEF v, x
  <2> QED
    BY <1>3, <1>4, RunningTotal
<1>6. 0 \in T
  <2>1. ToSet(p[0]) = {} /\ M(0) = {}
    BY <1>1 DEF ToSet
  <2> QED
    BY <2>1
<1>7. ASSUME NEW k \in 1 .. n, k - 1 \in T PROVE k \in T
  <2>1. ToSet(p[k]) = ToSet(p[k - 1]) \cup ToSet(ss[k])
    <3>1. ToSet(p[k - 1] \o ss[k]) = ToSet(p[k - 1]) \cup ToSet(ss[k])
      BY <1>2, Joined
    <3> QED
      BY <1>1, <3>1
  <2>2. \A i : i \in 1 .. k <=> i \in 1 .. k - 1 \/ i = k
    OBVIOUS
  <2>3. M(k) = M(k - 1) \cup ToSet(ss[k])
    BY <2>2
  <2>4. ToSet(p[k - 1]) = M(k - 1)
    BY <1>7
  <2>5. ToSet(p[k]) = M(k)
    BY <2>1, <2>3, <2>4, Zenon
  <2> HIDE DEF M
  <2> QED
    BY <2>5
<1> HIDE DEF T
<1>8. 0 .. n \subseteq T
  BY <1>6, <1>7, BoundedInduction
<1>9. n \in T
  BY <1>8
<1>10. FlattenSeq(ss) \in Seq(X) /\ v[n] = Len(FlattenSeq(ss))
  BY <1>1
<1>11. ToSet(FlattenSeq(ss)) = AllIn(ss, n)
  BY <1>1, <1>9 DEF T, AllIn
<1> HIDE DEF v
<1> QED
  BY <1>5, <1>10, <1>11

\* The lists that a function has for the elements of a list, one after the other.
Flat(F, s) == FlattenSeq(MapList(F, s))

\* How much F has for each element, and what it has for any of a set.
Lengths(F, X) == [x \in X |-> Len(F[x])]

MembersOf(F, S) == UNION {ToSet(F[x]) : x \in S}

\* What function F has for a list is what it has for its elements, one after the
\* other.
LEMMA FlatMap ==
    ASSUME NEW X, NEW Y, NEW F \in [X -> Seq(Y)], NEW s \in Seq(X)
    PROVE  /\ MapList(F, s) \in [1 .. Len(s) -> Seq(Y)]
           /\ \A i \in 1 .. Len(s) : MapList(F, s)[i] = F[s[i]]
           /\ Flat(F, s) \in Seq(Y)
PROOF
<1> DEFINE n == Len(s)
           ss == MapList(F, s)
<1>1. n \in Nat /\ DOMAIN s = 1 .. n /\ \A i \in 1 .. n : s[i] \in X
  OBVIOUS
<1> HIDE DEF n
<1>2. ss \in [1 .. n -> Seq(Y)] /\ \A i \in 1 .. n : ss[i] = F[s[i]]
  BY <1>1 DEF MapList
<1> HIDE DEF ss
<1>3. FlattenSeq(ss) \in Seq(Y)
  BY <1>1, <1>2, FlatMembers
<1> QED
  BY <1>2, <1>3 DEF Flat, ss, n

\* That is as long as F says of each,
LEMMA FlatLength ==
    ASSUME NEW X, NEW Y, NEW F \in [X -> Seq(Y)], NEW s \in Seq(X)
    PROVE  /\ Lengths(F, X) \in [X -> Int]
           /\ Len(Flat(F, s)) = SumFunction(MapList(Lengths(F, X), s))
PROOF
<1> DEFINE n == Len(s)
           ss == MapList(F, s)
           x == MapList(Lengths(F, X), s)
<1>1. n \in Nat /\ DOMAIN s = 1 .. n /\ \A i \in 1 .. n : s[i] \in X
  OBVIOUS
<1>2. ss \in [1 .. n -> Seq(Y)] /\ \A i \in 1 .. n : ss[i] = F[s[i]]
  BY FlatMap
<1> HIDE DEF n, ss
<1>3. Lengths(F, X) \in [X -> Int]
  BY DEF Lengths
<1>4. x = LengthsIn(ss, n)
  BY <1>1, <1>2 DEF MapList, Lengths, LengthsIn
<1> HIDE DEF x
<1>5. Len(FlattenSeq(ss)) = SumFunction(x)
  BY <1>1, <1>2, <1>4, FlatMembers
<1> QED
  BY <1>3, <1>5 DEF Flat, ss, x

\* and has what F has for any of them.
LEMMA FlatHas ==
    ASSUME NEW X, NEW Y, NEW F \in [X -> Seq(Y)], NEW s \in Seq(X)
    PROVE  ToSet(Flat(F, s)) = MembersOf(F, ToSet(s))
PROOF
<1> DEFINE n == Len(s)
           ss == MapList(F, s)
<1>1. n \in Nat /\ DOMAIN s = 1 .. n
  OBVIOUS
<1>2. ss \in [1 .. n -> Seq(Y)] /\ \A i \in 1 .. n : ss[i] = F[s[i]]
  BY FlatMap
<1> HIDE DEF n, ss
<1>3. ToSet(FlattenSeq(ss)) = AllIn(ss, n)
  BY <1>1, <1>2, FlatMembers
<1>4. ToSet(s) = {s[i] : i \in 1 .. n}
  BY <1>1 DEF ToSet
<1>5. ASSUME NEW i \in 1 .. n PROVE ToSet(ss[i]) \subseteq MembersOf(F, ToSet(s))
  <2>1. ss[i] = F[s[i]] /\ s[i] \in ToSet(s)
    BY <1>2, <1>4
  <2> QED
    BY <2>1 DEF MembersOf
<1>6. \A z \in ToSet(s) : ToSet(F[z]) \subseteq AllIn(ss, n)
  BY <1>2, <1>4 DEF AllIn
<1>7. AllIn(ss, n) \subseteq MembersOf(F, ToSet(s))
  BY <1>5 DEF AllIn
<1>8. MembersOf(F, ToSet(s)) \subseteq AllIn(ss, n)
  BY <1>6 DEF MembersOf
<1> QED
  BY <1>3, <1>7, <1>8 DEF Flat, ss

\* Of two lists, joined and in another order.
IsBoth(u, s, t) == Len(u) = Len(s) + Len(t) /\ ToSet(u) = ToSet(s) \cup ToSet(t)

\* What the function has for such a list is what it has for both.
LEMMA FlatJoined ==
    ASSUME NEW X, NEW Y, NEW F \in [X -> Seq(Y)], NEW s \in Seq(X), NEW t \in Seq(X),
           NEW u, Rearranges(u, s \o t)
    PROVE  IsBoth(Flat(F, u), Flat(F, s), Flat(F, t))
PROOF
<1> DEFINE L == Lengths(F, X)
<1>1. u \in Seq(X)
  <2>1. s \o t \in Seq(X)
    BY Joined
  <2> QED
    BY <2>1, Rearranged
<1>2. L \in [X -> Int]
  BY FlatLength
<1> HIDE DEF L
<1>3. SumFunction(MapList(L, u)) = SumFunction(MapList(L, s)) + SumFunction(MapList(L, t))
  BY <1>2, MapSums
<1>4. /\ Len(Flat(F, u)) = SumFunction(MapList(L, u))
      /\ Len(Flat(F, s)) = SumFunction(MapList(L, s))
      /\ Len(Flat(F, t)) = SumFunction(MapList(L, t))
  BY <1>1, FlatLength DEF L
<1>5. ToSet(u) = ToSet(s) \cup ToSet(t)
  BY JoinedRearranged
<1>6. ASSUME NEW l \in Seq(X) PROVE ToSet(Flat(F, l)) = MembersOf(F, ToSet(l))
  BY FlatHas
<1>7. /\ ToSet(Flat(F, u)) = MembersOf(F, ToSet(u))
      /\ ToSet(Flat(F, s)) = MembersOf(F, ToSet(s))
      /\ ToSet(Flat(F, t)) = MembersOf(F, ToSet(t))
  BY <1>1, <1>6
<1>8. MembersOf(F, ToSet(s) \cup ToSet(t)) = MembersOf(F, ToSet(s)) \cup MembersOf(F, ToSet(t))
  BY DEF MembersOf
<1>9. ToSet(Flat(F, u)) = ToSet(Flat(F, s)) \cup ToSet(Flat(F, t))
  BY <1>5, <1>7, <1>8
<1> QED
  BY <1>3, <1>4, <1>9 DEF IsBoth

\* Of the kernels of two transactions, aggregated.
LEMMA FlatAggregate ==
    ASSUME NEW Y, NEW F \in [Kernel -> Seq(Y)],
           NEW a \in Transaction, NEW b \in Transaction
    PROVE  IsBoth(Flat(F, Aggregate(a, b).body.kernels),
                  Flat(F, a.body.kernels), Flat(F, b.body.kernels))
PROOF
<1> DEFINE s == a.body.kernels
           t == b.body.kernels
           u == Aggregate(a, b).body.kernels
<1>1. s \in Seq(Kernel) /\ t \in Seq(Kernel)
  BY TransactionFields
<1>2. Rearranges(u, s \o t)
  BY AggregateOf
<1> HIDE DEF s, t, u
<1>3. IsBoth(Flat(F, u), Flat(F, s), Flat(F, t))
  BY <1>1, <1>2, FlatJoined
<1> QED
  BY <1>3 DEF s, t, u

\* What the function has for the kernels of each transaction.
PartsOf(F, txs) == [i \in 1 .. Len(txs) |-> Flat(F, txs[i].body.kernels)]

\* Two lists of the same elements, as many.
SameElements(s, t) == Len(s) = Len(t) /\ ToSet(s) = ToSet(t)

\* What the kernels of an aggregate have is what those of its transactions have,
\* though in another order.
LEMMA FlatAggregated ==
    ASSUME NEW Y, NEW F \in [Kernel -> Seq(Y)], NEW txs \in Seq(Transaction)
    PROVE  /\ FlattenSeq(PartsOf(F, txs)) \in Seq(Y)
           /\ SameElements(Flat(F, Aggregated(txs).body.kernels),
                           FlattenSeq(PartsOf(F, txs)))
PROOF
<1> DEFINE n == Len(txs)
           ss == PartsOf(F, txs)
           G(t) == Flat(F, t.body.kernels)
<1>1. n \in Nat /\ \A k \in 1 .. n : txs[k] \in Transaction
  OBVIOUS
<1> HIDE DEF n
<1>2. PICK p \in [0 .. n -> Transaction] :
          /\ p[0] = NoTransaction /\ p[n] = Aggregated(txs)
          /\ \A k \in 1 .. n : p[k] = Aggregate(p[k - 1], txs[k])
  BY AggregatedSteps DEF Aggregates, n
<1>3. \A t \in Transaction : t.body.kernels \in Seq(Kernel)
  BY TransactionFields
<1>4. \A t \in Transaction : G(t) \in Seq(Y)
  BY <1>3, FlatMap
<1>5. ASSUME NEW k \in 1 .. n
      PROVE  /\ Len(G(p[k])) = Len(G(p[k - 1])) + Len(G(txs[k]))
             /\ ToSet(G(p[k])) = ToSet(G(p[k - 1])) \cup ToSet(G(txs[k]))
  <2>1. p[k - 1] \in Transaction /\ txs[k] \in Transaction
    BY <1>1
  <2>2. IsBoth(G(p[k]), G(p[k - 1]), G(txs[k]))
    BY <1>2, <2>1, FlatAggregate
  <2> QED
    BY <2>2 DEF IsBoth
<1>6. G(p[0]) = <<>>
  <2>1. MapList(F, <<>>) = <<>>
    BY DEF MapList
  <2> QED
    BY <1>2, <2>1 DEF NoTransaction, EmptyBody, Flat, FlattenSeq
<1>7. ss \in [1 .. n -> Seq(Y)] /\ \A i \in 1 .. n : ss[i] = G(txs[i])
  BY <1>1, <1>4 DEF n, PartsOf
<1> HIDE DEF G, ss
<1> DEFINE v == [k \in 0 .. n |-> Len(G(p[k]))]
           x == LengthsIn(ss, n)
           T == {k \in 0 .. n : ToSet(G(p[k])) = AllIn(ss, k)}
<1>8. FlattenSeq(ss) \in Seq(Y) /\ Len(FlattenSeq(ss)) = SumFunction(x)
  BY <1>1, <1>7, FlatMembers
<1>9. ToSet(FlattenSeq(ss)) = AllIn(ss, n)
  BY <1>1, <1>7, FlatMembers
<1>10. v[n] = SumFunction(x)
  <2>1. \A k \in 0 .. n : Len(G(p[k])) \in Int
    BY <1>4
  <2>2. v \in [0 .. n -> Int] /\ x \in [1 .. n -> Int]
    BY <1>7, <2>1 DEF LengthsIn
  <2>3. v[0] = 0
    BY <1>1, <1>6
  <2>4. \A k \in 1 .. n : v[k] = v[k - 1] + x[k]
    <3>1. \A k \in 1 .. n : k - 1 \in 0 .. n /\ k \in 0 .. n
      BY <1>1
    <3> QED
      BY <1>5, <1>7, <3>1 DEF LengthsIn
  <2> HIDE DEF v, x
  <2> QED
    BY <1>1, <2>2, <2>3, <2>4, RunningTotal
<1>11. 0 \in T
  <2>1. ToSet(G(p[0])) = {} /\ AllIn(ss, 0) = {}
    BY <1>6 DEF ToSet, AllIn
  <2>2. ToSet(G(p[0])) = AllIn(ss, 0)
    BY <2>1
  <2> QED
    BY <1>1, <2>2
<1>12. ASSUME NEW k \in 1 .. n, k - 1 \in T PROVE k \in T
  <2>1. \A i : i \in 1 .. k <=> i \in 1 .. k - 1 \/ i = k
    BY <1>1
  <2>2. AllIn(ss, k) = AllIn(ss, k - 1) \cup ToSet(ss[k])
    BY <2>1 DEF AllIn
  <2>3. ToSet(G(p[k - 1])) = AllIn(ss, k - 1)
    BY <1>12
  <2>4. ss[k] = G(txs[k])
    BY <1>7
  <2>5. ToSet(G(p[k])) = AllIn(ss, k)
    BY <1>5, <2>2, <2>3, <2>4, Zenon
  <2>6. k \in 0 .. n
    BY <1>1
  <2> QED
    BY <2>5, <2>6
<1> HIDE DEF T
<1>13. 0 .. n \subseteq T
  BY <1>1, <1>11, <1>12, BoundedInduction
<1>14. n \in T
  BY <1>1, <1>13
<1>15. ToSet(G(p[n])) = AllIn(ss, n) /\ v[n] = Len(G(p[n]))
  BY <1>1, <1>14 DEF T
<1> HIDE DEF v, x
<1>16. SameElements(G(p[n]), FlattenSeq(ss))
  BY <1>8, <1>9, <1>10, <1>15 DEF SameElements
<1> QED
  BY <1>2, <1>8, <1>16 DEF G, ss
-----------------------------------------------------------------------------
(* Pegs.                                                                   *)

\* Nothing but a key and an amount makes a coin.
IsCoin(c) == c = [key |-> c.key, amount |-> c.amount]

\* In a list of distinct keys no two coins have the same key, and no coin is twice.
LEMMA KeysDiffer ==
    ASSUME NEW X, NEW s \in Seq(X), DistinctKeys(s)
    PROVE  /\ \A i, j \in DOMAIN s : s[i].key = s[j].key => i = j
           /\ Injective(s)
PROOF
<1> DEFINE n == Len(s)
           ks == [i \in 1 .. n |-> s[i].key]
           K == {c.key : c \in X}
<1>1. n \in Nat /\ DOMAIN s = 1 .. n /\ \A i \in 1 .. n : s[i] \in X
  OBVIOUS
<1>2. ks \in Seq(K) /\ Len(ks) = n /\ DOMAIN ks = 1 .. n
  <2> HIDE DEF n
  <2> QED
    BY <1>1
<1>3. ToSet(ks) = KeysOf(s)
  <2> HIDE DEF n
  <2> QED
    BY <1>1 DEF ToSet, KeysOf
<1>4. \A i \in DOMAIN s : ks[i] = s[i].key
  BY <1>1
<1> HIDE DEF ks, K
<1>5. Injective(ks)
  <2>1. Cardinality(ToSet(ks)) = Len(ks)
    BY <1>2, <1>3 DEF DistinctKeys
  <2> QED
    BY <1>2, <2>1, DistinctInjective DEF Distinct
<1>6. \A i, j \in DOMAIN s : s[i].key = s[j].key => i = j
  BY <1>1, <1>2, <1>4, <1>5 DEF Injective
<1> QED
  BY <1>6 DEF Injective

\* What is not twice in a list is in it once or not at all.
LEMMA OnceOrNot ==
    ASSUME NEW X, NEW s \in Seq(X), Injective(s), NEW x
    PROVE  Occurrences(x, s) = IF x \in ToSet(s) THEN 1 ELSE 0
PROOF
<1>1. CASE x \in ToSet(s)
  <2>1. PICK i \in DOMAIN s : s[i] = x
    BY <1>1 DEF ToSet
  <2>2. {j \in DOMAIN s : s[j] = x} = {i}
    BY <2>1 DEF Injective
  <2>3. Cardinality({i}) = 1
    BY FS_Singleton
  <2> QED
    BY <1>1, <2>2, <2>3 DEF Occurrences
<1>2. CASE x \notin ToSet(s)
  <2>1. {j \in DOMAIN s : s[j] = x} = {}
    BY <1>2 DEF ToSet
  <2>2. Cardinality({}) = 0
    BY FS_EmptySet
  <2> QED
    BY <1>2, <2>1, <2>2 DEF Occurrences
<1> QED
  BY <1>1, <1>2

\* The map that insert() fills has the amount of each coin, if keys are distinct.
LEMMA FirstIsIt ==
    ASSUME NEW X, NEW s \in Seq(X), DistinctKeys(s), NEW i \in DOMAIN s
    PROVE  First(s, s[i].key) = s[i].amount
PROOF
<1> DEFINE P(j) == s[j].key = s[i].key /\ \A l \in 1 .. j - 1 : s[l].key # s[i].key
           c == CHOOSE j \in DOMAIN s : P(j)
<1>1. \A j, l \in DOMAIN s : s[j].key = s[l].key => j = l
  BY KeysDiffer
<1>2. P(i)
  <2>1. Len(s) \in Nat /\ DOMAIN s = 1 .. Len(s)
    OBVIOUS
  <2>2. \A l \in 1 .. i - 1 : l \in DOMAIN s /\ l # i
    BY <2>1
  <2> QED
    BY <1>1, <2>2
<1>3. c \in DOMAIN s /\ P(c)
  <2> HIDE DEF P
  <2> QED
    BY <1>2
<1>4. c = i
  <2> HIDE DEF c
  <2> QED
    BY <1>1, <1>3
<1>5. First(s, s[i].key) = s[c].amount
  BY DEF First
<1> QED
  BY <1>4, <1>5

\* Of coins with distinct keys, comparing their number and looking each up in the
\* map finds whether they are the same.
LEMMA CoinsAgree ==
    ASSUME NEW X, \A c \in X : IsCoin(c), NEW s \in Seq(X), NEW t \in Seq(X),
           DistinctKeys(s), DistinctKeys(t)
    PROVE  (SameNumber(s, t) /\ SameAmounts(s, t)) <=> SameBag(s, t)
PROOF
<1>1. Injective(s) /\ Injective(t)
  BY KeysDiffer
<1>2. SameBag(s, t) <=> ToSet(s) = ToSet(t)
  <2>1. \A x : Occurrences(x, s) = IF x \in ToSet(s) THEN 1 ELSE 0
    BY <1>1, OnceOrNot
  <2>2. \A x : Occurrences(x, t) = IF x \in ToSet(t) THEN 1 ELSE 0
    BY <1>1, OnceOrNot
  <2> DEFINE S == ToSet(s)
             T == ToSet(t)
  <2> HIDE DEF S, T
  <2>3. \A x : Occurrences(x, s) = Occurrences(x, t) <=> (x \in S <=> x \in T)
    BY <2>1, <2>2 DEF S, T
  <2>4. SameBag(s, t) <=> \A x \in S \cup T : Occurrences(x, s) = Occurrences(x, t)
    BY DEF SameBag, S, T
  <2>5. SameBag(s, t) <=> S = T
    BY <2>3, <2>4
  <2> QED
    BY <2>5 DEF S, T
<1>3. Cardinality(KeysOf(s)) = Len(s)
  BY DEF DistinctKeys
<1>4. ASSUME NEW i \in DOMAIN s, NEW j \in DOMAIN t, s[i].key = t[j].key,
             s[i].amount = t[j].amount
      PROVE  s[i] = t[j]
  <2>1. s[i] \in X /\ t[j] \in X
    OBVIOUS
  <2>2. s[i] = [key |-> s[i].key, amount |-> s[i].amount]
        /\ t[j] = [key |-> t[j].key, amount |-> t[j].amount]
    BY <2>1 DEF IsCoin
  <2> QED
    BY <1>4, <2>2
<1>5. ASSUME SameNumber(s, t), SameAmounts(s, t) PROVE ToSet(s) = ToSet(t)
  <2>1. \A i \in DOMAIN s : \E j \in DOMAIN t : s[i].key = t[j].key /\ s[i] = t[j]
    <3> SUFFICES ASSUME NEW i \in DOMAIN s
                 PROVE  \E j \in DOMAIN t : s[i].key = t[j].key /\ s[i] = t[j]
      OBVIOUS
    <3>1. s[i].key \in KeysOf(t) /\ s[i].amount = First(t, s[i].key)
      BY <1>5 DEF SameAmounts
    <3>2. PICK j \in DOMAIN t : t[j].key = s[i].key
      BY <3>1 DEF KeysOf
    <3>3. First(t, t[j].key) = t[j].amount
      BY FirstIsIt
    <3>4. s[i] = t[j]
      BY <1>4, <3>1, <3>2, <3>3
    <3> QED
      BY <3>2, <3>4
  <2>2. KeysOf(s) \subseteq KeysOf(t)
    BY <2>1 DEF KeysOf
  <2>3. Cardinality(KeysOf(s)) = Cardinality(KeysOf(t))
    BY <1>3, <1>5 DEF SameNumber
  <2>4. IsFiniteSet(KeysOf(t))
    <3>1. IsFiniteSet(DOMAIN t)
      BY FiniteList
    <3> DEFINE f == [j \in DOMAIN t |-> t[j].key]
    <3>2. f \in Surjection(DOMAIN t, KeysOf(t))
      BY DEF Surjection, KeysOf
    <3> QED
      BY <3>1, <3>2, FS_Surjection
  <2>5. KeysOf(s) = KeysOf(t)
    BY <2>2, <2>3, <2>4, FS_Subset
  <2>6. ToSet(s) \subseteq ToSet(t)
    BY <2>1 DEF ToSet
  <2>7. ToSet(t) \subseteq ToSet(s)
    <3> SUFFICES ASSUME NEW j \in DOMAIN t PROVE t[j] \in ToSet(s)
      BY DEF ToSet
    <3>1. PICK i \in DOMAIN s : s[i].key = t[j].key
      BY <2>5 DEF KeysOf
    <3>2. PICK l \in DOMAIN t : s[i].key = t[l].key /\ s[i] = t[l]
      BY <2>1
    <3>3. l = j
      BY <3>1, <3>2, KeysDiffer
    <3> QED
      BY <3>2, <3>3 DEF ToSet
  <2> QED
    BY <2>6, <2>7
<1>6. ASSUME ToSet(s) = ToSet(t) PROVE SameNumber(s, t) /\ SameAmounts(s, t)
  <2>1. \A i \in DOMAIN s : \E j \in DOMAIN t : s[i] = t[j]
    BY <1>6 DEF ToSet
  <2>2. \A j \in DOMAIN t : \E i \in DOMAIN s : s[i] = t[j]
    BY <1>6 DEF ToSet
  <2>3. KeysOf(s) = KeysOf(t)
    BY <2>1, <2>2 DEF KeysOf
  <2>4. SameNumber(s, t)
    BY <1>3, <2>3 DEF SameNumber
  <2>5. \A i \in DOMAIN s : s[i].key \in KeysOf(t) /\ s[i].amount = First(t, s[i].key)
    <3> SUFFICES ASSUME NEW i \in DOMAIN s
                 PROVE  s[i].key \in KeysOf(t) /\ s[i].amount = First(t, s[i].key)
      OBVIOUS
    <3>1. PICK j \in DOMAIN t : s[i] = t[j]
      BY <2>1
    <3>2. First(t, t[j].key) = t[j].amount
      BY FirstIsIt
    <3> QED
      BY <3>1, <3>2 DEF KeysOf
  <2> QED
    BY <2>4, <2>5 DEF SameAmounts
<1> QED
  BY <1>2, <1>5, <1>6

\* A peg-in of a kernel, and a peg-out.
PegInCoin == [key : Int, amount : Nat]
PegOutCoin == {c \in {k.pegout[1] : k \in Kernel} : IsCoin(c) /\ c.amount \in Nat}

\* The peg-ins and the peg-outs of a kernel.
PegInsOf == [k \in Kernel |-> PegInCoins(k)]
PegOutsOf == [k \in Kernel |-> k.pegout]

\* They are lists of coins.
LEMMA KernelPegs ==
    /\ PegInsOf \in [Kernel -> Seq(PegInCoin)]
    /\ PegOutsOf \in [Kernel -> Seq(PegOutCoin)]
PROOF
<1>1. \A k \in Kernel : PegInCoins(k) \in Seq(PegInCoin)
  <2> SUFFICES ASSUME NEW k \in Kernel, k.pegin # <<>>
               PROVE  <<[key |-> k.excess, amount |-> PegIn(k)]>> \in Seq(PegInCoin)
    BY DEF PegInCoins
  <2>1. k.excess \in Int /\ k.pegin[1] \in Nat
    BY KernelAssumption, Zenon
  <2>2. PegIn(k) \in Nat
    BY <2>1 DEF PegIn
  <2> QED
    BY <2>1, <2>2 DEF PegInCoin
<1>2. \A k \in Kernel : k.pegout \in Seq(PegOutCoin)
  <2> SUFFICES ASSUME NEW k \in Kernel, k.pegout # <<>> PROVE k.pegout \in Seq(PegOutCoin)
    <3>1. <<>> \in Seq(PegOutCoin)
      OBVIOUS
    <3> QED
      BY <3>1
  <2> DEFINE c == k.pegout[1]
  <2>1. c.amount \in Nat /\ k.pegout = <<[key |-> c.key, amount |-> c.amount]>>
    BY KernelAssumption, Zenon
  <2>2. IsCoin(c) /\ k.pegout = <<c>>
    <3> DEFINE d == [key |-> c.key, amount |-> c.amount]
    <3>1. k.pegout = <<d>>
      BY <2>1
    <3>2. k.pegout[1] = d
      <4> HIDE DEF d
      <4> QED
        BY <3>1
    <3> QED
      BY <3>1, <3>2 DEF IsCoin
  <2>3. c \in PegOutCoin
    BY <2>1, <2>2 DEF PegOutCoin
  <2> HIDE DEF c
  <2> QED
    BY <2>2, <2>3
<1> QED
  BY <1>1, <1>2 DEF PegInsOf, PegOutsOf

\* The pegs of a body are those of its kernels, one after the other.
LEMMA BodyPegs ==
    ASSUME NEW body, body.kernels \in Seq(Kernel)
    PROVE  /\ GetPegIns(body) = Flat(PegInsOf, body.kernels)
           /\ GetPegOuts(body) = Flat(PegOutsOf, body.kernels)
PROOF
<1> DEFINE ks == body.kernels
<1>1. \A i \in DOMAIN ks : ks[i] \in Kernel
  OBVIOUS
<1>2. [i \in DOMAIN ks |-> PegInCoins(ks[i])] = MapList(PegInsOf, ks)
  BY <1>1 DEF MapList, PegInsOf
<1>3. [i \in DOMAIN ks |-> ks[i].pegout] = MapList(PegOutsOf, ks)
  BY <1>1 DEF MapList, PegOutsOf
<1> QED
  BY <1>2, <1>3 DEF GetPegIns, GetPegOuts, Flat

\* So the lists of pegs are well-typed.
LEMMA PegLists ==
    ASSUME NEW body, body.kernels \in Seq(Kernel)
    PROVE  /\ GetPegIns(body) \in Seq(PegInCoin)
           /\ GetPegOuts(body) \in Seq(PegOutCoin)
PROOF
<1>1. Flat(PegInsOf, body.kernels) \in Seq(PegInCoin)
  BY KernelPegs, FlatMap
<1>2. Flat(PegOutsOf, body.kernels) \in Seq(PegOutCoin)
  BY KernelPegs, FlatMap
<1> QED
  BY <1>1, <1>2, BodyPegs

\* So are those that other blocks may have around the extension block.
LEMMA OtherPegs ==
    /\ \A pegins \in OtherPegIns : pegins \in Seq(PegInCoin)
    /\ \A pegouts \in OtherPegOuts : \E X : pegouts \in Seq(X) /\ \A c \in X : IsCoin(c)
PROOF
<1> DEFINE More(C) == C \cup {[c EXCEPT !.amount = @ + 1] : c \in C}
<1>1. \A C : \A l \in Variations(C) : l \in Seq(More(C))
  <2>1. \A S, n : \A l \in Lists(S, n) : l \in Seq(S)
    BY DEF Lists
  <2> SUFFICES ASSUME NEW C, NEW l \in Variations(C) PROVE l \in Seq(More(C))
    OBVIOUS
  <2>2. l \in Lists(More(C), 2)
    BY DEF Variations
  <2> HIDE DEF More
  <2> QED
    BY <2>1, <2>2
<1>2. \A tx \in Mempool : /\ GetPegIns(tx.body) \in Seq(PegInCoin)
                          /\ GetPegOuts(tx.body) \in Seq(PegOutCoin)
  <2>1. \A tx \in Mempool : tx.body.kernels \in Seq(Kernel)
    BY MempoolType DEF Transaction, TxBody
  <2> QED
    BY <2>1, PegLists
<1>3. UNION {ToSet(GetPegIns(tx.body)) : tx \in Mempool} \subseteq PegInCoin
  BY <1>2 DEF ToSet
<1>4. UNION {ToSet(GetPegOuts(tx.body)) : tx \in Mempool} \subseteq PegOutCoin
  BY <1>2 DEF ToSet
<1>5. \A C \in SUBSET PegInCoin : More(C) \subseteq PegInCoin
  BY DEF PegInCoin
<1>6. \A C \in SUBSET PegOutCoin : \A c \in More(C) : IsCoin(c)
  <2> SUFFICES ASSUME NEW c \in PegOutCoin PROVE IsCoin(c) /\ IsCoin([c EXCEPT !.amount = @ + 1])
    BY DEF PegOutCoin
  <2> DEFINE k == c.key
             a == c.amount
             b == a + 1
  <2>1. c = [key |-> k, amount |-> a]
    BY DEF PegOutCoin, IsCoin
  <2>2. [c EXCEPT !.amount = @ + 1] = [key |-> k, amount |-> b]
    BY <2>1
  <2> HIDE DEF k, a, b
  <2> QED
    BY <2>1, <2>2 DEF IsCoin
<1> HIDE DEF More
<1>7. \A pegins \in OtherPegIns : pegins \in Seq(PegInCoin)
  BY <1>1, <1>3, <1>5 DEF OtherPegIns
<1>8. \A pegouts \in OtherPegOuts : \E X : pegouts \in Seq(X) /\ \A c \in X : IsCoin(c)
  BY <1>1, <1>4, <1>6 DEF OtherPegOuts
<1> QED
  BY <1>7, <1>8

\* Where all keys are distinct, CheckBlock passes exactly the pegs that are those
\* of the block's kernels.
THEOREM PegsExact == Spec => []PegsAgree
PROOF
<1>1. IInv => PegsAgree
  <2> DEFINE ins == GetPegIns(block.body)
             outs == GetPegOuts(block.body)
  <2> SUFFICES ASSUME IInv, block.built,
                      NEW pegins \in OtherPegIns, NEW pegouts \in OtherPegOuts,
                      DistinctKeys(pegins), DistinctKeys(ins),
                      DistinctKeys(pegouts), DistinctKeys(outs)
               PROVE  ValidatePegs(block.body, pegins, pegouts)
                      <=> SameBag(ins, pegins) /\ SameBag(outs, pegouts)
    BY DEF PegsAgree
  <2>1. BuiltRight(block)
    BY BlockBuilt
  <2>2. block.body.kernels \in Seq(Kernel)
    BY <2>1 DEF BuiltRight, Block, TxBody
  <2>3. ins \in Seq(PegInCoin) /\ outs \in Seq(PegOutCoin)
    BY <2>2, PegLists
  <2>4. pegins \in Seq(PegInCoin)
    BY OtherPegs
  <2>5. PICK X : pegouts \in Seq(X) /\ \A c \in X : IsCoin(c)
    BY OtherPegs
  <2>6. \A c \in PegInCoin : IsCoin(c)
    BY DEF PegInCoin, IsCoin
  <2>7. \A c \in PegOutCoin : IsCoin(c)
    BY DEF PegOutCoin
  <2>8. ValidatePegs(block.body, pegins, pegouts)
        <=> /\ SameNumber(ins, pegins) /\ SameAmounts(ins, pegins)
            /\ SameNumber(outs, pegouts) /\ SameAmounts(outs, pegouts)
    BY DEF ValidatePegs, ValidatePegAmounts
  <2> HIDE DEF ins, outs
  <2>9. (SameNumber(ins, pegins) /\ SameAmounts(ins, pegins)) <=> SameBag(ins, pegins)
    BY <2>3, <2>4, <2>6, CoinsAgree
  <2>10. (SameNumber(outs, pegouts) /\ SameAmounts(outs, pegouts)) <=> SameBag(outs, pegouts)
    <3> DEFINE Y == PegOutCoin \cup X
    <3>1. outs \in Seq(Y) /\ pegouts \in Seq(Y) /\ \A c \in Y : IsCoin(c)
      BY <2>3, <2>5, <2>7
    <3> HIDE DEF Y
    <3> QED
      BY <3>1, CoinsAgree
  <2> QED
    BY <2>8, <2>9, <2>10
<1> QED
  BY <1>1, Invariant, PTL

\* The pegs of an aggregate are those of its transactions, which the block around
\* it lists in their order.
LEMMA AggregatedPegs ==
    ASSUME NEW txs \in Seq(Transaction), NEW body, body = Aggregated(txs).body
    PROVE  /\ PegIns(txs) \in Seq(PegInCoin) /\ PegOuts(txs) \in Seq(PegOutCoin)
           /\ SameElements(GetPegIns(body), PegIns(txs))
           /\ SameElements(GetPegOuts(body), PegOuts(txs))
PROOF
<1> DEFINE n == Len(txs)
<1>1. n \in Nat /\ DOMAIN txs = 1 .. n /\ \A k \in 1 .. n : txs[k] \in Transaction
  OBVIOUS
<1>2. \A k \in 1 .. n : txs[k].body.kernels \in Seq(Kernel)
  BY <1>1, TransactionFields
<1>3. body.kernels \in Seq(Kernel)
  BY AggregatedLists, TransactionFields
<1>4. PegIns(txs) = FlattenSeq(PartsOf(PegInsOf, txs))
  <2>1. [i \in DOMAIN txs |-> GetPegIns(txs[i].body)] = PartsOf(PegInsOf, txs)
    BY <1>1, <1>2, BodyPegs DEF PartsOf
  <2> QED
    BY <2>1 DEF PegIns
<1>5. PegOuts(txs) = FlattenSeq(PartsOf(PegOutsOf, txs))
  <2>1. [i \in DOMAIN txs |-> GetPegOuts(txs[i].body)] = PartsOf(PegOutsOf, txs)
    BY <1>1, <1>2, BodyPegs DEF PartsOf
  <2> QED
    BY <2>1 DEF PegOuts
<1> HIDE DEF n
<1>6. PegIns(txs) \in Seq(PegInCoin)
      /\ SameElements(Flat(PegInsOf, body.kernels), PegIns(txs))
  BY <1>4, KernelPegs, FlatAggregated
<1>7. PegOuts(txs) \in Seq(PegOutCoin)
      /\ SameElements(Flat(PegOutsOf, body.kernels), PegOuts(txs))
  BY <1>5, KernelPegs, FlatAggregated
<1>8. /\ GetPegIns(body) = Flat(PegInsOf, body.kernels)
      /\ GetPegOuts(body) = Flat(PegOutsOf, body.kernels)
  BY <1>3, BodyPegs
<1> QED
  BY <1>6, <1>7, <1>8

\* Where both lists have as many coins, and the same, looking each up finds them
\* equal exactly if no two have one key.
LEMMA SamePegs ==
    ASSUME NEW X, \A c \in X : IsCoin(c), NEW s \in Seq(X), NEW t \in Seq(X),
           SameElements(s, t)
    PROVE  (SameNumber(s, t) /\ SameAmounts(s, t)) <=> DistinctKeys(t)
PROOF
<1>1. \A l : KeysOf(l) = {c.key : c \in ToSet(l)}
  BY DEF KeysOf, ToSet
<1>2. KeysOf(s) = KeysOf(t) /\ Len(s) = Len(t) /\ ToSet(s) = ToSet(t)
  BY <1>1 DEF SameElements
<1>3. ASSUME SameNumber(s, t) PROVE DistinctKeys(t)
  BY <1>2, <1>3 DEF SameNumber, DistinctKeys
<1>4. ASSUME DistinctKeys(t) PROVE SameNumber(s, t) /\ SameAmounts(s, t)
  <2>1. DistinctKeys(s)
    BY <1>2, <1>4 DEF DistinctKeys
  <2>2. Injective(s) /\ Injective(t)
    BY <1>4, <2>1, KeysDiffer
  <2>3. \A x : Occurrences(x, s) = IF x \in ToSet(s) THEN 1 ELSE 0
    BY <2>2, OnceOrNot
  <2>4. \A x : Occurrences(x, t) = IF x \in ToSet(t) THEN 1 ELSE 0
    BY <2>2, OnceOrNot
  <2>5. SameBag(s, t)
    BY <1>2, <2>3, <2>4 DEF SameBag
  <2> QED
    BY <1>4, <2>1, <2>5, CoinsAgree
<1> QED
  BY <1>3, <1>4

\* Kernels with different excesses peg in coins with different keys.
LEMMA PegInsDiffer ==
    ASSUME NEW body, body.kernels \in Seq(Kernel), Injective(Excesses(body.kernels))
    PROVE  DistinctKeys(GetPegIns(body))
PROOF
<1> DEFINE ks == body.kernels
           n == Len(ks)
           ss == MapList(PegInsOf, ks)
<1>1. /\ n \in Nat /\ DOMAIN ks = 1 .. n
      /\ \A i \in 1 .. n : ks[i] \in Kernel
  OBVIOUS
<1>2. \A i, j \in 1 .. n : ks[i].excess = ks[j].excess => i = j
  BY <1>1 DEF Injective, Excesses
<1>3. GetPegIns(body) = FlattenSeq(ss)
  BY BodyPegs DEF Flat
<1>4. ss \in [1 .. n -> Seq(PegInCoin)]
  BY KernelPegs, FlatMap
<1>5. \A i \in 1 .. n : ss[i] = PegInCoins(ks[i])
  BY <1>1 DEF MapList, PegInsOf
<1> HIDE DEF ks, n, ss
<1>6. PICK p \in [0 .. n -> Seq(PegInCoin)] :
          /\ p[0] = <<>> /\ p[n] = FlattenSeq(ss)
          /\ \A k \in 1 .. n : p[k] = p[k - 1] \o ss[k]
  <2>1. Flattens(ss, n, PegInCoin) # {}
    BY <1>1, <1>4, FlattenSteps
  <2> QED
    BY <2>1 DEF Flattens
<1> DEFINE Before(k) == {ks[i].excess : i \in 1 .. k}
           T == {k \in 0 .. n : /\ IsFiniteSet(KeysOf(p[k])) /\ DistinctKeys(p[k])
                                /\ KeysOf(p[k]) \subseteq Before(k)}
<1>7. 0 \in T
  <2>1. KeysOf(<<>>) = {} /\ Len(<<>>) = 0
    BY DEF KeysOf
  <2>2. IsFiniteSet({}) /\ Cardinality({}) = 0
    BY FS_EmptySet
  <2>3. p[0] = <<>> /\ 0 \in 0 .. n
    BY <1>1, <1>6
  <2>4. IsFiniteSet(KeysOf(p[0])) /\ DistinctKeys(p[0]) /\ KeysOf(p[0]) = {}
    BY <2>1, <2>2, <2>3 DEF DistinctKeys
  <2> HIDE DEF Before
  <2> QED
    BY <2>3, <2>4
<1>8. ASSUME NEW k \in 1 .. n, k - 1 \in T PROVE k \in T
  <2> DEFINE a == p[k - 1]
             b == p[k]
             x == ks[k].excess
  <2>1. /\ IsFiniteSet(KeysOf(a)) /\ DistinctKeys(a)
        /\ KeysOf(a) \subseteq Before(k - 1)
    BY <1>8
  <2>2. k \in 0 .. n /\ k - 1 \in 0 .. n
    BY <1>1
  <2>3. Before(k) = Before(k - 1) \cup {x}
    <3>1. \A i : i \in 1 .. k <=> i \in 1 .. k - 1 \/ i = k
      BY <1>1
    <3> QED
      BY <3>1
  <2>4. x \notin Before(k - 1)
    <3>1. \A i \in 1 .. k - 1 : i \in 1 .. n /\ i # k
      BY <1>1
    <3> QED
      BY <1>2, <3>1
  <2>5. a \in Seq(PegInCoin) /\ b = a \o PegInCoins(ks[k])
    BY <1>5, <1>6, <2>2
  <2> HIDE DEF T, Before, a, b
  <2>6. CASE ks[k].pegin = <<>>
    <3>1. b = a
      <4>1. PegInCoins(ks[k]) = <<>>
        BY <2>6 DEF PegInCoins
      <4> QED
        BY <2>5, <4>1
    <3> QED
      BY <2>1, <2>2, <2>3, <3>1 DEF T, b
  <2>7. CASE ks[k].pegin # <<>>
    <3> DEFINE c == [key |-> x, amount |-> PegIn(ks[k])]
    <3>1. b = a \o <<c>> /\ c.key = x
      BY <2>5, <2>7 DEF PegInCoins
    <3> HIDE DEF c, x
    <3>2. /\ Len(a) \in Nat /\ Len(b) = Len(a) + 1 /\ DOMAIN a = 1 .. Len(a)
          /\ DOMAIN b = 1 .. Len(a) + 1
          /\ b[Len(a) + 1] = c /\ \A i \in 1 .. Len(a) : b[i] = a[i]
      BY <2>5, <3>1
    <3>3. \A i : i \in 1 .. Len(a) + 1 <=> i \in 1 .. Len(a) \/ i = Len(a) + 1
      BY <3>2
    <3>4. KeysOf(b) = KeysOf(a) \cup {x}
      BY <3>1, <3>2, <3>3 DEF KeysOf
    <3>5. x \notin KeysOf(a)
      BY <2>1, <2>4
    <3>6. IsFiniteSet(KeysOf(b)) /\ Cardinality(KeysOf(b)) = Cardinality(KeysOf(a)) + 1
      BY <2>1, <3>4, <3>5, FS_AddElement
    <3>7. DistinctKeys(b)
      BY <2>1, <3>2, <3>6 DEF DistinctKeys
    <3>8. KeysOf(b) \subseteq Before(k)
      BY <2>1, <2>3, <3>4
    <3> QED
      BY <2>2, <3>6, <3>7, <3>8 DEF T, b
  <2> QED
    BY <2>6, <2>7
<1> HIDE DEF T
<1>9. 0 .. n \subseteq T
  BY <1>1, <1>7, <1>8, BoundedInduction
<1>10. n \in T
  BY <1>1, <1>9
<1> QED
  BY <1>3, <1>6, <1>10 DEF T

\* With the pegs of the transactions in it, a block of which all kernels differ
\* passes exactly if no two peg out to one script.
LEMMA PegsPass ==
    ASSUME NEW txs \in Seq(Transaction), NEW body, body = Aggregated(txs).body,
           Injective(Excesses(body.kernels))
    PROVE  ValidatePegs(body, PegIns(txs), PegOuts(txs)) <=> DistinctKeys(PegOuts(txs))
PROOF
<1> DEFINE ins == GetPegIns(body)
           outs == GetPegOuts(body)
           pegins == PegIns(txs)
           pegouts == PegOuts(txs)
<1>1. body.kernels \in Seq(Kernel)
  BY AggregatedLists, TransactionFields
<1>2. ins \in Seq(PegInCoin) /\ outs \in Seq(PegOutCoin)
  BY <1>1, PegLists
<1>3. /\ pegins \in Seq(PegInCoin) /\ pegouts \in Seq(PegOutCoin)
      /\ SameElements(ins, pegins) /\ SameElements(outs, pegouts)
  BY AggregatedPegs
<1>4. DistinctKeys(ins)
  BY <1>1, PegInsDiffer
<1>5. ValidatePegs(body, pegins, pegouts)
      <=> /\ SameNumber(ins, pegins) /\ SameAmounts(ins, pegins)
          /\ SameNumber(outs, pegouts) /\ SameAmounts(outs, pegouts)
  BY DEF ValidatePegs, ValidatePegAmounts
<1>6. \A c \in PegInCoin : IsCoin(c)
  BY DEF PegInCoin, IsCoin
<1>7. \A c \in PegOutCoin : IsCoin(c)
  BY DEF PegOutCoin
<1> HIDE DEF ins, outs, pegins, pegouts
<1>8. DistinctKeys(pegins)
  <2>1. \A l : KeysOf(l) = {c.key : c \in ToSet(l)}
    BY DEF KeysOf, ToSet
  <2>2. KeysOf(ins) = KeysOf(pegins) /\ Len(ins) = Len(pegins)
    BY <1>3, <2>1 DEF SameElements
  <2> QED
    BY <1>4, <2>2 DEF DistinctKeys
<1>9. SameNumber(ins, pegins) /\ SameAmounts(ins, pegins)
  BY <1>2, <1>3, <1>6, <1>8, SamePegs
<1>10. SameNumber(outs, pegouts) /\ SameAmounts(outs, pegouts) <=> DistinctKeys(pegouts)
  BY <1>2, <1>3, <1>7, SamePegs
<1> QED
  BY <1>5, <1>9, <1>10 DEF pegins, pegouts
-----------------------------------------------------------------------------
(* Templates: blocks made of what AddTransaction took.                     *)

\* Each input of a block finds its coin, once.
LEMMA CoinsFound ==
    ASSUME NEW at, SoundState(at.s), NEW tx \in Transaction,
           Injective(tx.body.ins),
           ToSet(tx.body.ins) \subseteq Unspent(at.s),
           ToSet(tx.body.outs) \cap Unspent(at.s) = {}
    PROVE  CanBuild(at, tx)
PROOF
<1> DEFINE s == at.s
           ins == tx.body.ins
           mined == Mined(tx.body, Len(s.txos))
<1>1. ins \in Seq(Commitment) /\ tx.body.outs \in Seq(Commitment)
  BY TransactionFields
<1>2. s.txos \in Seq(Commitment) /\ \A u, w \in s.utxos : u[1] = w[1] => u = w
  BY StateFields
<1>3. \A u \in mined : u[1] \in ToSet(tx.body.outs)
  <2>1. Len(s.txos) \in Nat
    BY <1>2
  <2> QED
    BY <1>1, <2>1, MinedCoins
<1> HIDE DEF mined
<1>4. ASSUME NEW c \in ToSet(ins)
      PROVE  Occurrences(c, ins) <= Cardinality({u \in s.utxos \cup mined : u[1] = c})
  <2>1. PICK u \in s.utxos : u[1] = c
    BY DEF Unspent
  <2>2. c \notin ToSet(tx.body.outs)
    BY <2>1 DEF Unspent
  <2>3. {w \in s.utxos \cup mined : w[1] = c} = {u}
    BY <1>2, <1>3, <2>1, <2>2
  <2>4. Cardinality({u}) = 1
    BY FS_Singleton
  <2>5. Occurrences(c, ins) = 1
    BY <1>1, OnceOrNot
  <2> QED
    BY <2>3, <2>4, <2>5
<1> QED
  BY <1>4 DEF CanBuild, mined

\* The header that the builder makes is that of the state after the block.
LEMMA HeaderFits ==
    ASSUME NEW at, SoundState(at.s), NEW txs, TakenOn(txs, at.s),
           NEW body, body = Aggregated(txs).body
    PROVE  Apply(at.s, Effect(body)).hdr = BuildNextBlock(at, txs).hdr
PROOF
<1> DEFINE s == at.s
           e == Effect(body)
           to == Apply(s, e)
           mined == Mined(body, Len(s.txos))
<1>1. /\ body.ins \in Seq(Commitment) /\ body.outs \in Seq(Commitment)
      /\ ToSet(body.ins) \subseteq Unspent(s) /\ ToSet(body.outs) \cap Unspent(s) = {}
  BY BuiltOn
<1>2. e.ins = ToSet(body.ins) /\ e.outs = body.outs /\ e.kernels = body.kernels
  BY DEF Effect
<1>3. Mined(e, Len(s.txos)) = mined
  BY <1>2 DEF Mined
<1>4. to.utxos = Kept(s, ToSet(body.ins)) \cup mined
  <2> HIDE DEF e, s, mined, to
  <2>1. Apply(s, e).utxos = Kept(s, e.ins) \cup Mined(e, Len(s.txos))
    BY <1>1, <1>2, AppliedCoins DEF s
  <2> QED
    BY <1>2, <1>3, <2>1 DEF to
<1>5. SpendAll(s.utxos \cup mined, body.ins) = to.utxos
  <2> HIDE DEF to, s
  <2>1. SpendAll(s.utxos \cup mined, body.ins) = Kept(s, ToSet(body.ins)) \cup mined
    BY <1>1, SpendAllCoins DEF s
  <2> QED
    BY <1>4, <2>1
<1>6. /\ to.txos = s.txos \o body.outs /\ to.kernels = s.kernels \o body.kernels
      /\ to.leafset = {u[2] : u \in to.utxos}
      /\ to.hdr = HeaderOf(to.txos, to.kernels, to.leafset)
  <2> HIDE DEF e, s
  <2>1. Apply(s, e).txos = s.txos \o e.outs /\ Apply(s, e).kernels = s.kernels \o e.kernels
    BY DEF Apply, State
  <2>2. Apply(s, e).leafset = {u[2] : u \in Apply(s, e).utxos}
    BY DEF Apply, State
  <2>3. Apply(s, e).hdr = HeaderOf(Apply(s, e).txos, Apply(s, e).kernels, Apply(s, e).leafset)
    BY DEF Apply, State
  <2> HIDE DEF to
  <2>4. to = Apply(s, e)
    BY DEF to
  <2> QED
    BY <1>2, <2>1, <2>2, <2>3, <2>4
<1> HIDE DEF to, e, mined
<1>7. BuildNextBlock(at, txs).hdr =
          HeaderOf(s.txos \o body.outs, s.kernels \o body.kernels,
                   {u[2] : u \in SpendAll(s.utxos \cup mined, body.ins)})
  BY DEF BuildNextBlock, mined
<1> QED
  BY <1>5, <1>6, <1>7 DEF to, e

\* The sums that AddCommitments and AddPublicKeys make for a transaction come to
\* zero only where there is nothing to add.
NoneAtInfinity(tx) ==
    LET body   == tx.body
        blinds == SumFunction(Blinds(body.outs)) - SumFunction(Blinds(body.ins))
    IN  /\ body.outs \o body.ins # <<>> => Worth(body) # 0 \/ blinds # 0
        /\ body.kernels # <<>> => SumFunction(Excesses(body.kernels)) # 0
        /\ Worth(body) # 0 \/ tx.kernel_offset # 0 => blinds # 0
        /\ \/ body.ins = <<>> /\ body.owner_sigs = <<>> /\ tx.owner_offset = 0
           \/ OwnersOut(tx) # 0

\* The sums of what balances are then right.
LEMMA SumsPass ==
    ASSUME NEW tx \in Transaction, Balances(tx), NoneAtInfinity(tx)
    PROVE  /\ ValidateForTx(tx.body, tx.kernel_offset)
           /\ OwnerSums(tx.owner_offset, tx.body)
PROOF
<1> DEFINE body == tx.body
           worth == Worth(body)
           supply == SumFunction(SupplyChanges(body.kernels))
           excess == SumFunction(Excesses(body.kernels))
           blinds == SumFunction(Blinds(body.outs)) - SumFunction(Blinds(body.ins))
<1>1. /\ body.ins \in Seq(Commitment) /\ body.outs \in Seq(Commitment)
      /\ body.kernels \in Seq(Kernel) /\ tx.kernel_offset \in Int
  BY TransactionFields
<1>2. worth = supply
  BY DEF Balances
<1>3. blinds = excess + tx.kernel_offset
  <2>1. tx.kernel_offset = blinds - excess
    BY DEF Balances, OffsetIsOwn, OwnOffset
  <2>2. blinds \in Int /\ excess \in Int
    <3>1. \A i, j \in Int : i - j \in Int
      OBVIOUS
    <3> QED
      BY <1>1, <3>1, OwnOffsetType
  <2> HIDE DEF blinds, excess
  <2> QED
    BY <2>1, <2>2
<1>4. /\ body.outs \o body.ins # <<>> => worth # 0 \/ blinds # 0
      /\ body.kernels # <<>> => excess # 0
      /\ worth # 0 \/ tx.kernel_offset # 0 => blinds # 0
  BY DEF NoneAtInfinity
<1>5. ValidateForTx(body, tx.kernel_offset) =
          ValidateSums(body.outs \o body.ins # <<>>, worth, blinds, body.kernels,
                       tx.kernel_offset)
  BY DEF ValidateForTx, Worth
<1>6. ValidateSums(body.outs \o body.ins # <<>>, worth, blinds, body.kernels,
                   tx.kernel_offset)
  <2> HIDE DEF worth, blinds
  <2> QED
    BY <1>2, <1>3, <1>4 DEF ValidateSums
<1>7. OwnerSums(tx.owner_offset, tx.body)
  <2>1. OwnersIn(tx) = OwnersOut(tx)
    BY DEF Balances
  <2>2. \/ tx.body.ins = <<>> /\ tx.body.owner_sigs = <<>> /\ tx.owner_offset = 0
        \/ OwnersIn(tx) # 0
    BY <2>1 DEF NoneAtInfinity
  <2> QED
    BY <2>1, <2>2 DEF OwnerSums, OwnersIn, OwnersOut
<1> QED
  BY <1>5, <1>6, <1>7

\* Of valid transactions without conflict, no list of the aggregate has anything
\* twice.
LEMMA NothingTwice ==
    ASSUME NEW txs \in Seq(Transaction), AllValid(txs), NoConflict(txs),
           NEW body, body = Aggregated(txs).body
    PROVE  /\ Injective(body.ins) /\ Injective(body.outs)
           /\ Injective(Excesses(body.kernels))
PROOF
<1> DEFINE n == Len(txs)
<1>1. DOMAIN txs = 1 .. n /\ \A i \in 1 .. n : txs[i] \in Transaction
  OBVIOUS
<1>2. \A i \in 1 .. n : /\ Injective(txs[i].body.ins) /\ Injective(txs[i].body.outs)
                        /\ Injective(Excesses(txs[i].body.kernels))
  <2> SUFFICES ASSUME NEW i \in 1 .. n
               PROVE  /\ Injective(txs[i].body.ins) /\ Injective(txs[i].body.outs)
                      /\ Injective(Excesses(txs[i].body.kernels))
    OBVIOUS
  <2>1. /\ txs[i].body.ins \in Seq(Commitment) /\ txs[i].body.outs \in Seq(Commitment)
        /\ txs[i].body.kernels \in Seq(Kernel)
    BY <1>1, TransactionFields
  <2>2. Validate(txs[i].body)
    BY DEF AllValid, ValidTx
  <2> QED
    BY <2>1, <2>2, ValidBody
<1>3. EachOnce(InsOf(txs), n) /\ EachOnce(OutsOf(txs), n) /\ EachOnce(ExcessesOf(txs), n)
  BY <1>2 DEF EachOnce, InsOf, OutsOf, ExcessesOf
<1>4. Apart(InsOf(txs), n) /\ Apart(OutsOf(txs), n) /\ Apart(ExcessesOf(txs), n)
  BY <1>1 DEF NoConflict, Apart, InsOf, OutsOf, ExcessesOf
<1> QED
  BY <1>3, <1>4, AggregatedLists

\* The aggregate of valid transactions without conflict is a valid body, if it is
\* not too heavy.
LEMMA BodyPasses ==
    ASSUME NEW txs \in Seq(Transaction), AllValid(txs), NoConflict(txs),
           SumFunction(Weights(txs)) <= MaxWeight
    PROVE  Validate(Aggregated(txs).body)
PROOF
<1> DEFINE body == Aggregated(txs).body
<1>1. Weight(body) <= MaxWeight
  BY AggregatedWeight
<1>2. SortedBody(body) /\ KernelsSigned(body)
  BY AggregatedBalances DEF Balances
<1>3. /\ body.ins \in Seq(Commitment) /\ body.outs \in Seq(Commitment)
      /\ body.kernels \in Seq(Kernel)
  BY AggregatedLists, TransactionFields
<1>4. Injective(body.ins) /\ Injective(body.outs) /\ Injective(Excesses(body.kernels))
  BY NothingTwice
<1> HIDE DEF body
<1>5. Excesses(body.kernels) \in Seq(Int)
  BY <1>3, KernelFunctions, KernelLists, MapSum
<1>6. NoDuplicates(body)
  <2>1. Distinct(body.ins) /\ Distinct(body.outs)
    BY <1>3, <1>4, DistinctInjective
  <2>2. Distinct(Excesses(body.kernels))
    BY <1>4, <1>5, DistinctInjective
  <2> QED
    BY <2>1, <2>2 DEF NoDuplicates
<1>7. Validate(body)
  BY <1>1, <1>2, <1>6 DEF Validate, SortedBody, KernelsSigned
<1> QED
  BY <1>7 DEF body

\* A builder that is open knows what its transactions weigh, which is not too much.
WeightKept ==
    builder.open => /\ builder.weight = SumFunction(Weights(builder.txs))
                    /\ builder.weight <= MaxWeight

\* At first they weigh nothing.
LEMMA NewWeight == IInv /\ WeightKept /\ NewBuilder => WeightKept'
PROOF
<1> SUFFICES ASSUME NewBuilder PROVE WeightKept'
  OBVIOUS
<1>1. builder'.weight = 0 /\ builder'.txs = <<>>
  BY DEF NewBuilder, NoBuilder
<1>2. Weights(<<>>) = <<>>
  BY DEF Weights
<1>3. SumFunction(<<>>) = 0
  BY SumEmpty DEF SumFunction
<1>4. 0 <= MaxWeight
  BY CoinAssumption
<1> QED
  BY <1>1, <1>2, <1>3, <1>4 DEF WeightKept

\* Each transaction adds its weight.
LEMMA AddedWeight ==
    ASSUME IInv, WeightKept, NEW tx \in Mempool, AddTransaction(tx)
    PROVE  WeightKept'
PROOF
<1> DEFINE txs == builder.txs
           w == Weight(tx.body)
<1>1. builder.open /\ w + builder.weight <= MaxWeight
  BY DEF AddTransaction, Accepts
<1>2. txs \in Seq(Transaction) /\ builder \in Builder
  BY <1>1 DEF IInv, TakenOn
<1>3. tx \in Transaction /\ w \in Nat
  BY MempoolType, AggregateWeight
<1>4. builder'.txs = Append(txs, tx) /\ builder'.weight = builder.weight + w
  BY <1>2 DEF AddTransaction, Builder
<1>5. builder.weight = SumFunction(Weights(txs)) /\ builder.weight \in Nat
  BY <1>1, <1>2 DEF WeightKept, Builder
<1> HIDE DEF txs
<1>6. Weights(txs) \in [1 .. Len(txs) -> Nat] /\ Len(txs) \in Nat
  BY <1>2, AggregatedWeight
<1>7. Weights(Append(txs, tx)) = Weights(txs) \o <<w>>
  BY <1>2, <1>3, <1>6 DEF Weights
<1> HIDE DEF w
<1>8. SumFunction(<<w>>) = w
  <2>1. SumFunction(<<w>>) = SumFunctionOnSet(<<w>>, {} \cup {1})
    <3>1. DOMAIN <<w>> = {} \cup {1}
      OBVIOUS
    <3> QED
      BY <3>1 DEF SumFunction
  <2>2. IsFiniteSet({}) /\ 1 \notin {} /\ \A y \in {} \cup {1} : <<w>>[y] \in Int
    BY <1>3, FS_EmptySet
  <2>3. SumFunctionOnSet(<<w>>, {} \cup {1}) = <<w>>[1] + SumFunctionOnSet(<<w>>, {})
    BY <2>2, SumAdd
  <2>4. SumFunctionOnSet(<<w>>, {}) = 0
    BY SumEmpty
  <2> QED
    BY <1>3, <2>1, <2>3, <2>4
<1>9. SumFunction(Weights(txs) \o <<w>>) = SumFunction(Weights(txs)) + SumFunction(<<w>>)
  <2>1. Weights(txs) \in Seq(Int) /\ <<w>> \in Seq(Int)
    BY <1>3, <1>6
  <2> QED
    BY <2>1, SumConcat
<1>10. builder'.weight = SumFunction(Weights(builder'.txs))
  BY <1>4, <1>5, <1>7, <1>8, <1>9
<1>11. builder'.weight <= MaxWeight
  BY <1>1, <1>3, <1>4, <1>5, CoinAssumption
<1> QED
  BY <1>10, <1>11 DEF WeightKept

\* The other steps drop the builder or leave it.
LEMMA WeightStep == IInv /\ WeightKept /\ [Next]_vars => WeightKept'
PROOF
<1> SUFFICES ASSUME IInv, WeightKept, [Next]_vars PROVE WeightKept'
  OBVIOUS
<1>1. CASE NewBuilder
  BY <1>1, NewWeight
<1>2. ASSUME NEW tx \in Mempool, AddTransaction(tx) PROVE WeightKept'
  BY <1>2, AddedWeight
<1>3. CASE BuildBlock
  BY <1>3 DEF BuildBlock, NoBuilder, WeightKept
<1>4. CASE BuildBlockThrows
  BY <1>4 DEF BuildBlockThrows, NoBuilder, WeightKept
<1>5. CASE CheckBlock
  BY <1>5 DEF CheckBlock, WeightKept
<1>6. CASE ConnectBlock
  BY <1>6 DEF ConnectBlock, WeightKept
<1>7. ASSUME NEW body \in ForeignBodies, ForeignBlock(body) PROVE WeightKept'
  BY <1>7 DEF ForeignBlock, WeightKept
<1>8. CASE DisconnectBlock
  BY <1>8 DEF DisconnectBlock, WeightKept
<1>9. CASE UNCHANGED vars
  BY <1>9 DEF vars, WeightKept
<1> QED
  BY <1>1, <1>2, <1>3, <1>4, <1>5, <1>6, <1>7, <1>8, <1>9 DEF Next

\* What a builder has taken never weighs more than a block may.
THEOREM WeightBounded == Spec => []WeightKept
PROOF
<1>1. Init => WeightKept
  BY DEF Init, NoBuilder, WeightKept
<1> QED
  BY <1>1, WeightStep, Invariant, PTL DEF Spec

\* The sums of what the builder has aggregated come to zero only where there is
\* nothing to add, as the random numbers that wallets draw make as good as certain.
NoTemplateAtInfinity == NoneAtInfinity(Aggregated(builder.txs))

\* Of transactions without conflict that AddTransaction took, BuildBlock builds a
\* block that ConnectBlock and CheckBlock accept, but for peg-outs to one script.
THEOREM TemplatesMade == Spec => [](NoTemplateAtInfinity => TemplatesConnect)
PROOF
<1>1. IInv /\ WeightKept => (NoTemplateAtInfinity => TemplatesConnect)
  <2> DEFINE txs == builder.txs
             tx == Aggregated(txs)
             body == tx.body
             b == BuildNextBlock(Tip, txs)
  <2> SUFFICES ASSUME IInv, WeightKept, NoTemplateAtInfinity, builder.open, NoConflict(txs)
               PROVE  /\ CanBuild(Tip, tx)
                      /\ Connects(Tip, b)
                      /\ Passes(b, PegIns(txs), PegOuts(txs)) <=> DistinctKeys(PegOuts(txs))
    BY DEF TemplatesConnect
  <2>1. Tip \in Place /\ SoundState(Tip.s) /\ TakenOn(txs, Tip.s)
    BY TipSound DEF IInv
  <2>2. SumFunction(Weights(txs)) <= MaxWeight
    BY DEF WeightKept
  <2>3. NoneAtInfinity(tx)
    BY DEF NoTemplateAtInfinity
  <2>4. /\ b.body = body /\ b.offset = Tip.offset + tx.kernel_offset
        /\ b.owner_offset = tx.owner_offset
    BY DEF BuildNextBlock, HeaderOffset
  <2> HIDE DEF txs
  <2>5. txs \in Seq(Transaction) /\ AllValid(txs)
    BY <2>1 DEF TakenOn, AllValid
  <2>6. /\ tx \in Transaction /\ tx.kernel_offset \in Int
        /\ ToSet(body.ins) \subseteq Unspent(Tip.s)
        /\ ToSet(body.outs) \cap Unspent(Tip.s) = {}
    BY <2>1, BuiltOn
  <2>7. Injective(body.ins) /\ Injective(Excesses(body.kernels))
    BY <2>5, NothingTwice
  <2>8. Validate(body)
    BY <2>2, <2>5, BodyPasses
  <2>9. Balances(tx)
    BY <2>5, AggregatedBalances
  <2>10. Apply(Tip.s, Effect(body)).hdr = b.hdr
    BY <2>1, HeaderFits
  <2>11. ValidatePegs(body, PegIns(txs), PegOuts(txs)) <=> DistinctKeys(PegOuts(txs))
    BY <2>5, <2>7, PegsPass
  <2> HIDE DEF b, tx
  <2>12. ValidateForTx(body, tx.kernel_offset) /\ OwnerSums(tx.owner_offset, body)
    BY <2>3, <2>6, <2>9, SumsPass
  <2>13. CanBuild(Tip, tx)
    BY <2>1, <2>6, <2>7, CoinsFound
  <2>14. ValidateForBlock(body, b.offset, Tip.offset)
    <3>1. Tip.offset \in Int
      BY <2>1 DEF Place
    <3>2. b.offset - Tip.offset = tx.kernel_offset
      BY <2>4, <2>6, <3>1
    <3> QED
      BY <2>12, <3>2 DEF ValidateForBlock
  <2>15. Connects(Tip, b)
    BY <2>4, <2>6, <2>10, <2>14 DEF Connects
  <2>16. Passes(b, PegIns(txs), PegOuts(txs)) <=> DistinctKeys(PegOuts(txs))
    BY <2>4, <2>8, <2>11, <2>12 DEF Passes
  <2> QED
    BY <2>13, <2>15, <2>16
<1> QED
  BY <1>1, Invariant, WeightBounded, PTL
=============================================================================
