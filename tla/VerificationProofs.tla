------------------------- MODULE VerificationProofs -------------------------
(***************************************************************************)
(* For any number of threads, calls and items, and caches of any size: a   *)
(* context that is written is read by nobody, what a call returns depends  *)
(* on what was asked alone, and only what verifies is in the cache.        *)
(***************************************************************************)
EXTENDS Verification, SequenceTheorems, FiniteSetTheorems, TLAPS

Items(s) == S!ToSet(s)

Answers == {"true", "false", "throws", NoAnswer}
OtherKinds == {"reads", "writes", "parses", "verifies"}
VerifyKinds == {"looks", "parses", "reads", "verifies", "adds"}
KindsOf(call) == IF call.op \in VerifyOps THEN VerifyKinds ELSE OtherKinds

\* An item is looked up, parsed and added by itself.
AccessOf(kinds) ==
    {a \in [kind : kinds, readers : Nat, items : Seq(Item)] :
        a.kind \in {"looks", "parses", "adds"} => \E x \in Item : a.items = <<x>>}

TypeInv ==
    /\ lock \in [readers : [Thread -> Nat],
                writer  : {{}} \cup {{t} : t \in Thread}]
    /\ cache \in Seq(Item)
    /\ thread \in [Thread -> [call : Call \cup {NoCall},
                              todo : Seq(AccessOf(VerifyKinds \cup OtherKinds)),
                              missing : Seq(Item)]]
    /\ answer \in [Thread -> Answers]
    /\ \A t \in Thread : Busy(t) =>
          /\ thread[t].todo \in Seq(AccessOf(KindsOf(thread[t].call)))
          /\ thread[t].call.context = context

\* The items of the accesses of one kind.
Of(kind, todo) ==
    {x \in Item : \E i \in DOMAIN todo : todo[i].kind = kind /\ x \in Items(todo[i].items)}

Looking(todo) == \E i \in DOMAIN todo : todo[i].kind = "looks"

\* What has been found in the cache, or verified, is followed by additions alone.
Ordered(todo) ==
    \A i, j \in DOMAIN todo :
        i < j /\ todo[i].kind \in {"verifies", "adds"} => todo[j].kind = "adds"

\* While items are looked up, nothing else is to be done but to parse the last
\* that was not found.
LooksFirst(todo) ==
    Looking(todo) =>
        /\ todo[1].kind \in {"looks", "parses"}
        /\ \A i \in DOMAIN todo : i > 1 => todo[i].kind = "looks"

\* The items that were not found and are not in an access yet.
Unseen(this) == IF Looking(this.todo) THEN Items(this.missing) ELSE {}

Unparsed(this) ==
    IF this.call.op = "Bulletproofs::BatchVerify" THEN {} ELSE Unseen(this)

\* What a verification in progress has yet to do: an item whose key does not
\* parse has still to be parsed, one that does not verify has still to be
\* verified, and what is added is verified before.
ChecksAll(this) ==
    LET asked == Items(this.call.items)
        todo  == this.todo
    IN  /\ Items(this.missing) \subseteq asked
        /\ \A kind \in {"looks", "parses", "verifies"} : Of(kind, todo) \subseteq asked
        /\ asked \ Parsed \subseteq Of("looks", todo) \cup Of("parses", todo) \cup Unparsed(this)
        /\ asked \ Valid \subseteq Of("looks", todo) \cup Of("verifies", todo) \cup Unseen(this)
        /\ Of("adds", todo) \subseteq Valid \cup Of("verifies", todo)
        /\ Ordered(todo)
        /\ LooksFirst(todo)

CallsCheck ==
    \A t \in Thread :
        Busy(t) /\ thread[t].call.op \in VerifyOps => ChecksAll(thread[t])

Inv == TypeInv /\ LocksFollowCalls /\ CallsCheck /\ OnlyVerified
-----------------------------------------------------------------------------
(* Sequences of accesses.                                                  *)

\* The items of a sequence are its elements.
LEMMA ItemsOf ==
    ASSUME NEW T, NEW s \in Seq(T)
    PROVE  /\ Items(s) \subseteq T
           /\ \A x : x \in Items(s) <=> \E i \in 1 .. Len(s) : s[i] = x
<1>1. DOMAIN s = 1 .. Len(s) /\ \A i \in 1 .. Len(s) : s[i] \in T
  BY LenProperties, ElementOfSeq
<1> QED  BY <1>1 DEF Items, S!ToSet

\* The items of two sequences joined, and of a sequence without its head.
LEMMA OfConcat ==
    ASSUME NEW K, NEW s \in Seq(AccessOf(K)), NEW u \in Seq(AccessOf(K)), NEW kind
    PROVE  Of(kind, s \o u) = Of(kind, s) \cup Of(kind, u)
<1> DEFINE su == s \o u
<1>1. /\ su \in Seq(AccessOf(K)) /\ Len(su) = Len(s) + Len(u)
      /\ \A i \in 1 .. Len(s) : su[i] = s[i]
      /\ \A i \in 1 .. Len(u) : su[Len(s) + i] = u[i]
      /\ Len(s) \in Nat /\ Len(u) \in Nat
  BY ConcatProperties, LenProperties
<1>2. DOMAIN su = 1 .. Len(su) /\ DOMAIN s = 1 .. Len(s) /\ DOMAIN u = 1 .. Len(u)
  BY <1>1, LenProperties
<1> HIDE DEF su
<1>3. ASSUME NEW x \in Of(kind, su) PROVE x \in Of(kind, s) \cup Of(kind, u)
  <2>1. PICK i \in 1 .. Len(su) : su[i].kind = kind /\ x \in Items(su[i].items)
    BY <1>2, <1>3 DEF Of
  <2>2. CASE i <= Len(s)
    <3>1. i \in 1 .. Len(s)
      BY <1>1, <2>2
    <3> QED  BY <1>1, <1>2, <1>3, <2>1, <3>1 DEF Of
  <2>3. CASE i > Len(s)
    <3>1. i - Len(s) \in 1 .. Len(u) /\ su[i] = u[i - Len(s)]
      BY <1>1, <2>3
    <3> QED  BY <1>2, <1>3, <2>1, <3>1 DEF Of
  <2> QED  BY <1>1, <2>2, <2>3
<1>4. ASSUME NEW x \in Of(kind, s) PROVE x \in Of(kind, su)
  <2>1. PICK i \in 1 .. Len(s) : s[i].kind = kind /\ x \in Items(s[i].items)
    BY <1>2, <1>4 DEF Of
  <2>2. i \in 1 .. Len(su) /\ su[i] = s[i]
    BY <1>1
  <2> QED  BY <1>2, <1>4, <2>1, <2>2 DEF Of
<1>5. ASSUME NEW x \in Of(kind, u) PROVE x \in Of(kind, su)
  <2>1. PICK i \in 1 .. Len(u) : u[i].kind = kind /\ x \in Items(u[i].items)
    BY <1>2, <1>5 DEF Of
  <2>2. Len(s) + i \in 1 .. Len(su) /\ su[Len(s) + i] = u[i]
    BY <1>1
  <2> QED  BY <1>2, <1>5, <2>1, <2>2 DEF Of
<1>6. Of(kind, su) = Of(kind, s) \cup Of(kind, u)
  BY <1>3, <1>4, <1>5
<1> QED  BY <1>6 DEF su

\* The items of one access.
LEMMA OfOne ==
    ASSUME NEW K, NEW a \in AccessOf(K), NEW kind
    PROVE  Of(kind, <<a>>) = IF a.kind = kind THEN Items(a.items) ELSE {}
<1>1. Items(a.items) \subseteq Item
  BY ItemsOf DEF AccessOf
<1> QED  BY <1>1 DEF Of

\* A sequence is its head and its tail.
LEMMA HeadTail ==
    ASSUME NEW T, NEW s \in Seq(T), s # <<>>
    PROVE  /\ Head(s) \in T /\ Head(s) = s[1] /\ Tail(s) \in Seq(T)
           /\ Len(s) \in Nat \ {0} /\ Len(Tail(s)) = Len(s) - 1
           /\ DOMAIN s = 1 .. Len(s) /\ DOMAIN Tail(s) = 1 .. Len(s) - 1
           /\ \A i \in 1 .. Len(s) - 1 : Tail(s)[i] = s[i + 1]
           /\ s = <<Head(s)>> \o Tail(s)
<1>1. Len(s) \in Nat \ {0}
  BY EmptySeq, LenProperties
<1>2. /\ Head(s) \in T /\ Tail(s) \in Seq(T) /\ Len(Tail(s)) = Len(s) - 1
      /\ \A i \in 1 .. Len(Tail(s)) : Tail(s)[i] = s[i + 1]
  BY HeadTailProperties
<1>3. DOMAIN s = 1 .. Len(s) /\ DOMAIN Tail(s) = 1 .. Len(s) - 1
  BY <1>2, LenProperties
<1>4. Head(s) = s[1]
  BY <1>1
<1>5. s = <<Head(s)>> \o Tail(s)
  <2> DEFINE h == <<Head(s)>>
             r == h \o Tail(s)
  <2>1. h \in Seq(T) /\ Len(h) = 1 /\ h[1] = s[1]
    BY <1>2, <1>4
  <2>2. r \in Seq(T) /\ Len(r) = Len(s)
    BY <1>1, <1>2, <2>1, ConcatProperties
  <2>3. ASSUME NEW i \in 1 .. Len(s) PROVE r[i] = s[i]
    <3>1. r[i] = IF i <= Len(h) THEN h[i] ELSE Tail(s)[i - Len(h)]
      BY <1>1, <1>2, <2>1, ConcatProperties
    <3>2. CASE i = 1
      BY <2>1, <3>1, <3>2
    <3>3. CASE i # 1
      <4>1. i - 1 \in 1 .. Len(Tail(s)) /\ i - 1 + 1 = i
        BY <1>1, <1>2, <3>3
      <4> QED  BY <1>2, <2>1, <3>1, <3>3, <4>1
    <3> QED  BY <3>2, <3>3
  <2> HIDE DEF r, h
  <2>4. s = r
    BY <2>2, <2>3, SeqEqual
  <2> QED  BY <2>4 DEF r, h
<1> QED  BY <1>1, <1>2, <1>3, <1>4, <1>5

\* The items of a list of accesses are those of its first and those of the
\* others.
LEMMA OfHeadTail ==
    ASSUME NEW K, NEW s \in Seq(AccessOf(K)), s # <<>>, NEW kind
    PROVE  Of(kind, s) = (IF Head(s).kind = kind THEN Items(Head(s).items) ELSE {})
                            \cup Of(kind, Tail(s))
<1>1. /\ Head(s) \in AccessOf(K) /\ Tail(s) \in Seq(AccessOf(K))
      /\ s = <<Head(s)>> \o Tail(s)
  BY HeadTail
<1> DEFINE h == <<Head(s)>>
           tail == Tail(s)
<1>2. h \in Seq(AccessOf(K)) /\ tail \in Seq(AccessOf(K)) /\ s = h \o tail
  BY <1>1
<1>3. Of(kind, h) = IF Head(s).kind = kind THEN Items(Head(s).items) ELSE {}
  BY <1>1, OfOne
<1> HIDE DEF h, tail
<1>4. Of(kind, h \o tail) = Of(kind, h) \cup Of(kind, tail)
  BY <1>2, OfConcat
<1> QED  BY <1>2, <1>3, <1>4 DEF tail
-----------------------------------------------------------------------------
(* The accesses of each function.                                          *)

\* An access that is not about one item.
LEMMA AccessTyped ==
    ASSUME NEW K, NEW kind \in K, NEW n \in Nat, NEW items \in Seq(Item),
           kind \notin {"looks", "parses", "adds"}
    PROVE  Access(kind, n, items) \in AccessOf(K)
BY DEF Access, AccessOf

\* One access for each item of a list.
LEMMA EachTyped ==
    ASSUME NEW items \in Seq(Item)
    PROVE  /\ Each(Looks, items) \in Seq(AccessOf({"looks"}))
           /\ Each(Adds, items) \in Seq(AccessOf({"adds"}))
           /\ Each(ToSecp256k1, items) \in Seq(AccessOf({"parses"}))
           /\ Len(Each(Looks, items)) = Len(items)
           /\ Of("looks", Each(Looks, items)) = Items(items)
           /\ Of("adds", Each(Adds, items)) = Items(items)
           /\ Of("parses", Each(ToSecp256k1, items)) = Items(items)
<1>1. Len(items) \in Nat /\ DOMAIN items = 1 .. Len(items)
      /\ \A i \in 1 .. Len(items) : items[i] \in Item /\ <<items[i]>> \in Seq(Item)
  BY LenProperties, ElementOfSeq
<1>2. \A x \in Item : Items(<<x>>) = {x}
  BY DEF Items, S!ToSet
<1>3. \A x : x \in Items(items) <=> \E i \in 1 .. Len(items) : items[i] = x
  BY ItemsOf
<1> DEFINE l == Each(Looks, items)
           a == Each(Adds, items)
           p == Each(ToSecp256k1, items)
<1>4. /\ l \in [1 .. Len(items) -> AccessOf({"looks"})]
      /\ a \in [1 .. Len(items) -> AccessOf({"adds"})]
      /\ p \in [1 .. Len(items) -> AccessOf({"parses"})]
  BY <1>1 DEF Each, Looks, Adds, ToSecp256k1, Access, AccessOf
<1>5. /\ l \in Seq(AccessOf({"looks"})) /\ a \in Seq(AccessOf({"adds"}))
      /\ p \in Seq(AccessOf({"parses"}))
      /\ Len(l) = Len(items)
  BY <1>1, <1>4, SeqDef
<1>6. \A i \in 1 .. Len(items) :
         /\ l[i].kind = "looks" /\ l[i].items = <<items[i]>>
         /\ a[i].kind = "adds" /\ a[i].items = <<items[i]>>
         /\ p[i].kind = "parses" /\ p[i].items = <<items[i]>>
  BY <1>1 DEF Each, Looks, Adds, ToSecp256k1, Access
<1>7. DOMAIN l = 1 .. Len(items) /\ DOMAIN a = 1 .. Len(items) /\ DOMAIN p = 1 .. Len(items)
  BY <1>1 DEF Each
<1> HIDE DEF l, a, p
<1>8. Items(items) \subseteq Item
  BY ItemsOf
<1>9. \A x \in Item, i \in 1 .. Len(items) : x \in Items(<<items[i]>>) <=> x = items[i]
  BY <1>1, <1>2
<1>10. ASSUME NEW s, NEW kind, DOMAIN s = 1 .. Len(items),
              \A i \in 1 .. Len(items) : s[i].kind = kind /\ s[i].items = <<items[i]>>
       PROVE  Of(kind, s) = Items(items)
  <2>1. ASSUME NEW x \in Item
        PROVE  x \in Of(kind, s) <=> \E i \in 1 .. Len(items) : x \in Items(<<items[i]>>)
    BY <1>10 DEF Of
  <2>2. ASSUME NEW x \in Item
        PROVE  x \in Of(kind, s) <=> x \in Items(items)
    BY <1>3, <1>9, <2>1
  <2>3. Of(kind, s) \subseteq Item
    BY DEF Of
  <2> QED  BY <1>8, <2>2, <2>3
<1>11. Of("looks", l) = Items(items) /\ Of("adds", a) = Items(items)
       /\ Of("parses", p) = Items(items)
  BY <1>6, <1>7, <1>10
<1> QED  BY <1>5, <1>11 DEF l, a, p

\* An access several times.
LEMMA RepeatTyped ==
    ASSUME NEW n \in Nat, NEW T, NEW x \in T
    PROVE  Repeat(n, x) \in Seq(T)
BY SeqDef DEF Repeat

\* Accesses of some kinds are accesses of more.
LEMMA Subkinds ==
    ASSUME NEW K, NEW L, K \subseteq L, NEW s \in Seq(AccessOf(K))
    PROVE  s \in Seq(AccessOf(L))
<1>1. AccessOf(K) \subseteq AccessOf(L)
  BY DEF AccessOf
<1> QED  BY <1>1, SeqMonotonic

\* Nothing is looked up, parsed, verified or added by accesses of other kinds.
LEMMA OfOther ==
    ASSUME NEW K, NEW s \in Seq(AccessOf(K)), NEW kind, kind \notin K
    PROVE  Of(kind, s) = {}
<1>1. DOMAIN s = 1 .. Len(s) /\ \A i \in 1 .. Len(s) : s[i] \in AccessOf(K)
  BY LenProperties, ElementOfSeq
<1> QED  BY <1>1 DEF Of, AccessOf

\* Nor do they look for anything.
LEMMA NotLooking ==
    ASSUME NEW K, NEW s \in Seq(AccessOf(K)), "looks" \notin K
    PROVE  ~Looking(s)
<1>1. DOMAIN s = 1 .. Len(s) /\ \A i \in 1 .. Len(s) : s[i] \in AccessOf(K)
  BY LenProperties, ElementOfSeq
<1> QED  BY <1>1 DEF Looking, AccessOf

\* The order is kept when nothing is verified or added before, or everything
\* is added after.
LEMMA OrderedConcat ==
    ASSUME NEW K, NEW L, NEW s \in Seq(AccessOf(K)), NEW u \in Seq(AccessOf(L)),
           Ordered(s), Ordered(u),
           K \cap {"verifies", "adds"} = {} \/ L \subseteq {"adds"}
    PROVE  Ordered(s \o u)
<1> DEFINE su == s \o u
<1>1. s \in Seq(AccessOf(K \cup L)) /\ u \in Seq(AccessOf(K \cup L))
  BY Subkinds
<1>2. /\ su \in Seq(AccessOf(K \cup L)) /\ Len(su) = Len(s) + Len(u)
      /\ Len(s) \in Nat /\ Len(u) \in Nat
      /\ \A i \in 1 .. Len(s) : su[i] = s[i]
      /\ \A i \in 1 .. Len(s) + Len(u) : i > Len(s) => su[i] = u[i - Len(s)]
  BY <1>1, ConcatProperties, LenProperties
<1> HIDE DEF su
<1>3. /\ DOMAIN su = 1 .. Len(s) + Len(u)
      /\ DOMAIN s = 1 .. Len(s) /\ DOMAIN u = 1 .. Len(u)
      /\ \A i \in 1 .. Len(s) : s[i].kind \in K
      /\ \A i \in 1 .. Len(u) : u[i].kind \in L
  <2>1. DOMAIN su = 1 .. Len(s) + Len(u)
    BY <1>2, LenProperties
  <2>2. DOMAIN s = 1 .. Len(s) /\ DOMAIN u = 1 .. Len(u)
    BY LenProperties
  <2>3. \A i \in 1 .. Len(s) : s[i] \in AccessOf(K)
    BY ElementOfSeq
  <2>4. \A i \in 1 .. Len(u) : u[i] \in AccessOf(L)
    BY ElementOfSeq
  <2> QED  BY <2>1, <2>2, <2>3, <2>4 DEF AccessOf
<1>4. ASSUME NEW i \in DOMAIN su, NEW j \in DOMAIN su, i < j,
             su[i].kind \in {"verifies", "adds"}
      PROVE  su[j].kind = "adds"
  <2>1. CASE j <= Len(s)
    <3>1. i \in 1 .. Len(s) /\ j \in 1 .. Len(s)
      BY <1>2, <1>3, <1>4, <2>1
    <3> QED  BY <1>2, <1>3, <1>4, <3>1 DEF Ordered
  <2>2. CASE i <= Len(s) /\ j > Len(s)
    <3>1. i \in 1 .. Len(s) /\ j - Len(s) \in 1 .. Len(u) /\ j \in 1 .. Len(s) + Len(u)
      BY <1>2, <1>3, <2>2
    <3>2. su[i].kind \in K /\ su[j].kind \in L
      BY <1>2, <1>3, <2>2, <3>1
    <3> QED  BY <1>4, <3>2
  <2>3. CASE i > Len(s)
    <3>1. /\ i - Len(s) \in 1 .. Len(u) /\ j - Len(s) \in 1 .. Len(u)
          /\ i - Len(s) < j - Len(s) /\ j > Len(s)
      BY <1>2, <1>3, <1>4, <2>3
    <3>2. su[i] = u[i - Len(s)] /\ su[j] = u[j - Len(s)]
      BY <1>2, <1>3, <2>3, <3>1
    <3> QED  BY <1>3, <1>4, <3>1, <3>2 DEF Ordered
  <2> QED  BY <1>2, <1>3, <2>1, <2>2, <2>3
<1> QED  BY <1>4 DEF su, Ordered

\* Accesses that verify and add nothing are in order, as are additions.
LEMMA OrderedWithout ==
    ASSUME NEW K, NEW s \in Seq(AccessOf(K)),
           K \cap {"verifies", "adds"} = {} \/ K \subseteq {"adds"}
    PROVE  Ordered(s)
<1>1. DOMAIN s = 1 .. Len(s) /\ \A i \in 1 .. Len(s) : s[i] \in AccessOf(K)
  BY LenProperties, ElementOfSeq
<1> QED  BY <1>1 DEF Ordered, AccessOf

\* The order is kept when the first access is made.
LEMMA OrderedTail ==
    ASSUME NEW T, NEW s \in Seq(T), s # <<>>, Ordered(s)
    PROVE  /\ Ordered(Tail(s))
           /\ Head(s).kind \in {"verifies", "adds"} =>
                 \A i \in DOMAIN Tail(s) : Tail(s)[i].kind = "adds"
<1>1. /\ Head(s) = s[1] /\ DOMAIN s = 1 .. Len(s) /\ DOMAIN Tail(s) = 1 .. Len(s) - 1
      /\ Len(s) \in Nat \ {0}
      /\ \A i \in 1 .. Len(s) - 1 : Tail(s)[i] = s[i + 1]
  BY HeadTail
<1>2. \A i \in 1 .. Len(s) - 1 : i + 1 \in 1 .. Len(s) /\ 1 < i + 1 /\ 1 \in 1 .. Len(s)
  BY <1>1
<1>3. \A i, j \in 1 .. Len(s) - 1 : i < j => i + 1 < j + 1
  BY <1>1
<1>4. Ordered(Tail(s))
  BY <1>1, <1>2, <1>3 DEF Ordered
<1>5. ASSUME Head(s).kind \in {"verifies", "adds"}, NEW i \in DOMAIN Tail(s)
      PROVE  Tail(s)[i].kind = "adds"
  BY <1>1, <1>2, <1>5 DEF Ordered
<1> QED  BY <1>4, <1>5

\* Accesses before a verification, the verification, and what is added.
LEMMA Shape ==
    ASSUME NEW before \in Seq(AccessOf({"parses", "reads"})),
           NEW v \in AccessOf({"verifies"}), NEW adds \in Seq(AccessOf({"adds"}))
    PROVE  /\ (before \o <<v>>) \o adds \in Seq(AccessOf(VerifyKinds \ {"looks"}))
           /\ Of("verifies", (before \o <<v>>) \o adds) = Items(v.items)
           /\ Of("parses", (before \o <<v>>) \o adds) = Of("parses", before)
           /\ Of("adds", (before \o <<v>>) \o adds) = Of("adds", adds)
           /\ Ordered((before \o <<v>>) \o adds)
<1> DEFINE K == VerifyKinds \ {"looks"}
           one == <<v>>
           bv == before \o one
<1>1. /\ {"parses", "reads"} \subseteq K /\ {"verifies"} \subseteq K /\ {"adds"} \subseteq K
      /\ {"parses", "reads", "verifies"} \subseteq K
  BY DEF VerifyKinds
<1>2. one \in Seq(AccessOf({"verifies"}))
  OBVIOUS
<1>3. /\ Ordered(before) /\ Ordered(adds)
  BY OrderedWithout
<1>4. Ordered(one)
  BY DEF Ordered
<1>5. \A kind : Of(kind, one) = IF kind = "verifies" THEN Items(v.items) ELSE {}
  BY OfOne DEF AccessOf
<1> HIDE DEF one
<1>6. /\ before \in Seq(AccessOf({"parses", "reads", "verifies"}))
      /\ one \in Seq(AccessOf({"parses", "reads", "verifies"}))
  BY <1>2, Subkinds
<1>7. bv \in Seq(AccessOf({"parses", "reads", "verifies"}))
  BY <1>6, ConcatProperties
<1>8. Ordered(bv)
  <2>1. {"parses", "reads"} \cap {"verifies", "adds"} = {}
    OBVIOUS
  <2> QED  BY <1>2, <1>3, <1>4, <2>1, OrderedConcat
<1>9. \A kind : Of(kind, bv) = Of(kind, before) \cup Of(kind, one)
  BY <1>6, OfConcat
<1> HIDE DEF bv
<1>10. bv \in Seq(AccessOf(K)) /\ adds \in Seq(AccessOf(K))
  BY <1>1, <1>7, Subkinds
<1>11. bv \o adds \in Seq(AccessOf(K))
  BY <1>10, ConcatProperties
<1>12. \A kind : Of(kind, bv \o adds) = Of(kind, bv) \cup Of(kind, adds)
  BY <1>10, OfConcat
<1>13. Ordered(bv \o adds)
  BY <1>3, <1>7, <1>8, OrderedConcat
<1>14. /\ Of("verifies", before) = {} /\ Of("adds", before) = {}
       /\ Of("verifies", adds) = {} /\ Of("parses", adds) = {}
  <2>1. \A kind : kind \notin {"parses", "reads"} => Of(kind, before) = {}
    BY OfOther
  <2>2. \A kind : kind \notin {"adds"} => Of(kind, adds) = {}
    BY OfOther
  <2> QED  BY <2>1, <2>2
<1>15. /\ bv \o adds \in Seq(AccessOf(K)) /\ Ordered(bv \o adds)
       /\ Of("verifies", bv \o adds) = Items(v.items)
       /\ Of("parses", bv \o adds) = Of("parses", before)
       /\ Of("adds", bv \o adds) = Of("adds", adds)
  BY <1>5, <1>9, <1>11, <1>12, <1>13, <1>14
<1> QED  BY <1>15 DEF bv, one

\* What a verification does when it knows what is missing from the cache.
LEMMA AfterLookupIs ==
    ASSUME NEW call \in Call, call.op \in VerifyOps, NEW missing \in Seq(Item)
    PROVE  LET all == AfterLookup(call, missing)
               bp  == call.op = "Bulletproofs::BatchVerify"
           IN  /\ all \in Seq(AccessOf(VerifyKinds \ {"looks"}))
               /\ Of("verifies", all) = Items(missing)
               /\ Of("parses", all) = IF bp THEN {} ELSE Items(missing)
               /\ Of("adds", all) \subseteq IF bp THEN Items(call.items) ELSE Items(missing)
               /\ missing = <<>> => Of("adds", all) = {}
               /\ Ordered(all)
<1> DEFINE all == AfterLookup(call, missing)
           parses == Each(ToSecp256k1, missing)
           adds == Each(Adds, missing)
           read == <<Reads(1)>>
<1>1. call.items \in Seq(Item)
  BY VerificationAssumption
<1>2. /\ parses \in Seq(AccessOf({"parses"})) /\ adds \in Seq(AccessOf({"adds"}))
      /\ Of("parses", parses) = Items(missing) /\ Of("adds", adds) = Items(missing)
      /\ Each(Adds, call.items) \in Seq(AccessOf({"adds"}))
      /\ Of("adds", Each(Adds, call.items)) = Items(call.items)
  BY <1>1, EachTyped
<1>3. /\ Reads(1) \in AccessOf({"reads"})
      /\ \A n \in Nat : /\ Verifies(n, missing) \in AccessOf({"verifies"})
                        /\ Verifies(n, missing).items = missing
  BY EmptySeq DEF Reads, Verifies, Access, AccessOf
<1>4. read \in Seq(AccessOf({"reads"}))
  BY <1>3
<1>5. /\ parses \in Seq(AccessOf({"parses", "reads"}))
      /\ read \in Seq(AccessOf({"parses", "reads"}))
  BY <1>2, <1>4, Subkinds
<1>6. Items(<<>>) = {}
  BY DEF Items, S!ToSet
<1>7. /\ <<>> \in Seq(AccessOf(VerifyKinds \ {"looks"})) /\ Ordered(<<>>)
      /\ \A kind : Of(kind, <<>>) = {}
  BY EmptySeq DEF Ordered, Of
<1>8. ASSUME NEW n \in Nat, NEW before \in Seq(AccessOf({"parses", "reads"})),
             NEW after \in Seq(AccessOf({"adds"})),
             all = (before \o <<Verifies(n, missing)>>) \o after
      PROVE  /\ all \in Seq(AccessOf(VerifyKinds \ {"looks"})) /\ Ordered(all)
             /\ Of("verifies", all) = Items(missing)
             /\ Of("parses", all) = Of("parses", before)
             /\ Of("adds", all) = Of("adds", after)
  <2> DEFINE v == Verifies(n, missing)
  <2>1. v \in AccessOf({"verifies"}) /\ v.items = missing
    BY <1>3
  <2>2. all = (before \o <<v>>) \o after
    BY <1>8
  <2> HIDE DEF all, v, parses, adds, read
  <2>3. /\ (before \o <<v>>) \o after \in Seq(AccessOf(VerifyKinds \ {"looks"}))
        /\ Of("verifies", (before \o <<v>>) \o after) = Items(v.items)
        /\ Of("parses", (before \o <<v>>) \o after) = Of("parses", before)
        /\ Of("adds", (before \o <<v>>) \o after) = Of("adds", after)
        /\ Ordered((before \o <<v>>) \o after)
    BY <2>1, Shape
  <2> QED  BY <2>1, <2>2, <2>3
<1>9. Of("parses", read) = {}
  <2> HIDE DEF read
  <2> QED  BY <1>4, OfOther
<1>10. CASE call.op # "Schnorr::BatchVerify" /\ missing = <<>>
  <2>1. all = <<>>
    BY <1>10 DEF AfterLookup, VerifyOps
  <2>2. Items(missing) = {}
    BY <1>6, <1>10
  <2> HIDE DEF all
  <2>3. /\ all \in Seq(AccessOf(VerifyKinds \ {"looks"})) /\ Ordered(all)
        /\ Of("verifies", all) = {} /\ Of("parses", all) = {} /\ Of("adds", all) = {}
    BY <1>7, <2>1
  <2> QED  BY <2>2, <2>3 DEF all
<1>11. CASE call.op = "Bulletproofs::BatchVerify" /\ missing # <<>>
  <2> DEFINE asked == Each(Adds, call.items)
  <2>1. all = <<Reads(1), Verifies(2, missing)>> \o asked
    BY <1>11 DEF AfterLookup
  <2>2. <<Reads(1), Verifies(2, missing)>> = read \o <<Verifies(2, missing)>>
    OBVIOUS
  <2>3. all = (read \o <<Verifies(2, missing)>>) \o asked
    BY <2>1, <2>2
  <2>4. asked \in Seq(AccessOf({"adds"})) /\ Of("adds", asked) = Items(call.items)
    BY <1>2
  <2> HIDE DEF all, read, parses, adds, asked
  <2>5. /\ all \in Seq(AccessOf(VerifyKinds \ {"looks"})) /\ Ordered(all)
        /\ Of("verifies", all) = Items(missing) /\ Of("parses", all) = {}
        /\ Of("adds", all) = Items(call.items)
    BY <1>5, <1>8, <1>9, <2>3, <2>4
  <2> QED  BY <1>11, <2>5 DEF all
<1>12. CASE call.op = "Schnorr::Verify" /\ missing # <<>>
  <2>1. all = (parses \o <<Verifies(1, missing)>>) \o adds
    BY <1>12 DEF AfterLookup
  <2> HIDE DEF all, read, parses, adds
  <2>2. /\ all \in Seq(AccessOf(VerifyKinds \ {"looks"})) /\ Ordered(all)
        /\ Of("verifies", all) = Items(missing) /\ Of("parses", all) = Items(missing)
        /\ Of("adds", all) = Items(missing)
    BY <1>2, <1>5, <1>8, <2>1
  <2> QED  BY <1>12, <2>2 DEF all
<1>13. CASE call.op = "Schnorr::BatchVerify"
  <2> DEFINE more == Repeat(Len(missing), Reads(1))
             one == <<Verifies(1, missing)>>
             pm == parses \o more
             before == pm \o read
  <2>1. all = (pm \o <<Reads(1), Verifies(1, missing)>>) \o adds
    BY <1>13 DEF AfterLookup
  <2>2. <<Reads(1), Verifies(1, missing)>> = read \o one
    OBVIOUS
  <2>3. more \in Seq(AccessOf({"reads"}))
    BY <1>3, LenProperties, RepeatTyped
  <2>4. one \in Seq(AccessOf({"verifies"}))
    BY <1>3
  <2> HIDE DEF all, read, parses, adds, more, one
  <2>5. more \in Seq(AccessOf({"parses", "reads"})) /\ Of("parses", more) = {}
    BY <2>3, Subkinds, OfOther
  <2>6. pm \in Seq(AccessOf({"parses", "reads"}))
    BY <1>5, <2>5, ConcatProperties
  <2>7. Of("parses", pm) = Of("parses", parses) \cup Of("parses", more)
    BY <1>5, <2>5, OfConcat
  <2> HIDE DEF pm
  <2>8. before \in Seq(AccessOf({"parses", "reads"}))
    BY <1>5, <2>6, ConcatProperties
  <2>9. Of("parses", before) = Of("parses", pm) \cup Of("parses", read)
    BY <1>5, <2>6, OfConcat
  <2>10. before \o one = pm \o (read \o one)
    <3> DEFINE K == {"parses", "reads", "verifies"}
    <3>1. {"parses", "reads"} \subseteq K /\ {"verifies"} \subseteq K
      OBVIOUS
    <3> HIDE DEF K
    <3>2. pm \in Seq(AccessOf(K)) /\ read \in Seq(AccessOf(K)) /\ one \in Seq(AccessOf(K))
      BY <1>5, <2>4, <2>6, <3>1, Subkinds
    <3> QED  BY <3>2, ConcatAssociative
  <2>11. all = (before \o one) \o adds
    BY <2>1, <2>2, <2>10
  <2> HIDE DEF before
  <2>12. all = (before \o <<Verifies(1, missing)>>) \o adds
    BY <2>11 DEF one
  <2>13. /\ all \in Seq(AccessOf(VerifyKinds \ {"looks"})) /\ Ordered(all)
         /\ Of("verifies", all) = Items(missing) /\ Of("parses", all) = Items(missing)
         /\ Of("adds", all) = Items(missing)
    BY <1>2, <1>8, <1>9, <2>5, <2>7, <2>8, <2>9, <2>12
  <2>14. missing = <<>> => Items(missing) = {}
    BY <1>6
  <2> QED  BY <1>13, <2>13, <2>14 DEF all
<1> QED  BY <1>10, <1>11, <1>12, <1>13 DEF VerifyOps

\* The accesses of a function that verifies nothing it would remember.
LEMMA OthersTyped ==
    ASSUME NEW call \in Call, call.op \notin VerifyOps
    PROVE  Accesses(call) \in Seq(AccessOf(OtherKinds))
<1> DEFINE A == AccessOf(OtherKinds)
           items == call.items
           parses == Each(ToSecp256k1, items)
           twice == Each(ToSecp256k1, items \o items)
           reads == Repeat(Len(items), Reads(1))
           two == Repeat(2, Reads(1))
<1>1. items \in Seq(Item) /\ items \o items \in Seq(Item) /\ Len(items) \in Nat
  BY VerificationAssumption, ConcatProperties, LenProperties
<1>2. /\ Reads(1) \in A /\ Randomized \in A /\ Verifies(1, items) \in A
      /\ Serialized = Reads(1)
  BY <1>1, EmptySeq, AccessTyped DEF Reads, Randomized, Verifies, OtherKinds, Serialized
<1>3. parses \in Seq(A) /\ twice \in Seq(A)
  <2>1. /\ parses \in Seq(AccessOf({"parses"})) /\ twice \in Seq(AccessOf({"parses"}))
        /\ {"parses"} \subseteq OtherKinds
    BY <1>1, EachTyped DEF OtherKinds
  <2> HIDE DEF parses, twice
  <2> QED  BY <2>1, Subkinds
<1>4. reads \in Seq(A) /\ two \in Seq(A)
  BY <1>1, <1>2, RepeatTyped
<1>5. \A s, u \in Seq(A) : s \o u \in Seq(A)
  BY ConcatProperties
<1> HIDE DEF A, parses, twice, reads, two
<1>6. /\ \A a \in A : <<a>> \in Seq(A)
      /\ \A a, b \in A : <<a, b>> \in Seq(A)
      /\ \A a, b, c \in A : <<a, b, c>> \in Seq(A)
      /\ <<>> \in Seq(A)
  OBVIOUS
<1> DEFINE one == <<Reads(1)>>
           sum == <<Reads(1), Serialized>>
           sign == <<Randomized, Serialized>>
           public == <<Reads(1), Reads(1), Serialized>>
           verify == <<Verifies(1, items)>>
           random == <<Randomized>>
<1>7. /\ one \in Seq(A) /\ sum \in Seq(A) /\ sign \in Seq(A) /\ public \in Seq(A)
      /\ verify \in Seq(A) /\ random \in Seq(A)
  BY <1>2, <1>6
<1> HIDE DEF one, sum, sign, public, verify, random
<1>8. Schnorr(call.op) \in Seq(A)
  <2>1. Schnorr(call.op) = IF call.op = "Schnorr::Sign" THEN sign ELSE public \o sign
    BY DEF Schnorr, CalculatePublicKey, public, sign
  <2> QED  BY <1>5, <1>7, <2>1
<1>9. Bulletproofs(call.op, items) \in Seq(A)
  <2>1. Bulletproofs(call.op, items) =
            IF call.op = "Bulletproofs::Generate" THEN random ELSE parses \o one
    BY DEF Bulletproofs, random, parses, one
  <2> QED  BY <1>3, <1>5, <1>7, <2>1
<1>10. MuSig(call.op, items) \in Seq(A)
  <2>1. MuSig(call.op, items) \in {one, parses \o sign, (one \o parses) \o verify,
                                   (parses \o two) \o one}
    BY DEF MuSig, parses, one, sign, two, verify
  <2>2. /\ parses \o sign \in Seq(A) /\ one \o parses \in Seq(A)
        /\ parses \o two \in Seq(A)
    BY <1>3, <1>4, <1>5, <1>7
  <2>3. (one \o parses) \o verify \in Seq(A) /\ (parses \o two) \o one \in Seq(A)
    BY <1>5, <1>7, <2>2
  <2> QED  BY <1>7, <2>1, <2>2, <2>3
<1>11. Crypto(call.op, items) \in Seq(A)
  <2>1. Crypto(call.op, items) \in {public, sum, <<>>, parses \o sum, one,
                                    (twice \o reads) \o sum}
    BY DEF Crypto, CalculatePublicKey, PedersenCommit, PedersenCommitSum, PedersenBlindSum,
           PublicKeySum, ToPublicKey, parses, one, sum, public, twice, reads
  <2>2. parses \o sum \in Seq(A) /\ twice \o reads \in Seq(A)
    BY <1>3, <1>4, <1>5, <1>7
  <2>3. (twice \o reads) \o sum \in Seq(A)
    BY <1>5, <1>7, <2>2
  <2> QED  BY <1>6, <1>7, <2>1, <2>2, <2>3
<1>12. Accesses(call) \in {Schnorr(call.op), Bulletproofs(call.op, items),
                           MuSig(call.op, items), Crypto(call.op, items)}
  BY DEF Accesses
<1> QED  BY <1>8, <1>9, <1>10, <1>11, <1>12 DEF A

\* The accesses with which a verification begins.
LEMMA BeginsRight ==
    ASSUME NEW call \in Call, call.op \in VerifyOps
    PROVE  LET this == [call |-> call, todo |-> Accesses(call), missing |-> <<>>]
           IN  this.todo \in Seq(AccessOf(VerifyKinds)) /\ ChecksAll(this)
<1> DEFINE this == [call |-> call, todo |-> Accesses(call), missing |-> <<>>]
           todo == Accesses(call)
           asked == Items(call.items)
<1>1. this.call = call /\ this.todo = todo /\ this.missing = <<>>
  OBVIOUS
<1>2. call.items \in Seq(Item) /\ Items(<<>>) = {}
  BY VerificationAssumption DEF Items, S!ToSet
<1>3. CASE call.items = <<>>
  <2>1. todo = AfterLookup(call, <<>>)
    BY <1>3 DEF Accesses
  <2>2. <<>> \in Seq(Item) /\ asked = {}
    BY <1>2, <1>3
  <2> HIDE DEF todo
  <2>3. /\ todo \in Seq(AccessOf(VerifyKinds \ {"looks"})) /\ Ordered(todo)
        /\ Of("verifies", todo) = {} /\ Of("parses", todo) = {} /\ Of("adds", todo) = {}
    BY <1>2, <2>1, <2>2, AfterLookupIs
  <2>4. Of("looks", todo) = {} /\ ~Looking(todo)
    BY <2>3, OfOther, NotLooking
  <2>5. todo \in Seq(AccessOf(VerifyKinds))
    BY <2>3, Subkinds
  <2> HIDE DEF this
  <2> QED  BY <1>1, <1>2, <2>2, <2>3, <2>4, <2>5 DEF ChecksAll, LooksFirst, this
<1>4. CASE call.items # <<>>
  <2>1. todo = Each(Looks, call.items)
    BY <1>4 DEF Accesses
  <2> HIDE DEF todo
  <2>2. todo \in Seq(AccessOf({"looks"})) /\ Of("looks", todo) = asked
    BY <1>2, <2>1, EachTyped
  <2>3. /\ Of("parses", todo) = {} /\ Of("verifies", todo) = {} /\ Of("adds", todo) = {}
    BY <2>2, OfOther
  <2>4. Ordered(todo)
    BY <2>2, OrderedWithout
  <2>5. \A i \in DOMAIN todo : todo[i].kind = "looks"
    <3>1. DOMAIN todo = 1 .. Len(todo) /\ \A i \in 1 .. Len(todo) : todo[i] \in AccessOf({"looks"})
      BY <2>2, LenProperties, ElementOfSeq
    <3> QED  BY <3>1 DEF AccessOf
  <2>6. LooksFirst(todo)
    <3>1. ASSUME Looking(todo) PROVE 1 \in DOMAIN todo
      BY <2>2, <3>1, LenProperties DEF Looking
    <3> QED  BY <2>5, <3>1 DEF LooksFirst
  <2>7. todo \in Seq(AccessOf(VerifyKinds))
    <3>1. {"looks"} \subseteq VerifyKinds
      BY DEF VerifyKinds
    <3> QED  BY <2>2, <3>1, Subkinds
  <2> HIDE DEF this
  <2> QED  BY <1>1, <1>2, <2>2, <2>3, <2>4, <2>6, <2>7 DEF ChecksAll, this
<1> QED  BY <1>3, <1>4
-----------------------------------------------------------------------------
(* The caches.                                                             *)

\* A cache keeps what it is given, and what it drops or moves is nothing else.
LEMMA Cached ==
    ASSUME NEW T, cache \in Seq(T)
    PROVE  \A x : /\ Touched(x) \in Seq(T)
                  /\ x \in T => Put(x) \in Seq(T)
<1>1. /\ Len(cache) \in Nat /\ DOMAIN cache = 1 .. Len(cache)
      /\ \A i \in 1 .. Len(cache) : cache[i] \in T
  BY LenProperties, ElementOfSeq
<1>2. \A m, n \in Int : m >= 1 /\ n <= Len(cache) => SubSeq(cache, m, n) \in Seq(T)
  <2> TAKE m, n \in Int
  <2> HAVE m >= 1 /\ n <= Len(cache)
  <2>1. \A i \in m .. n : cache[i] \in T
    BY <1>1
  <2> QED  BY <2>1, SubSeqProperties
<1>3. \A i \in 1 .. Len(cache) : S!RemoveAt(cache, i) \in Seq(T)
  <2> TAKE i \in 1 .. Len(cache)
  <2>1. SubSeq(cache, 1, i - 1) \in Seq(T) /\ SubSeq(cache, i + 1, Len(cache)) \in Seq(T)
    BY <1>1, <1>2
  <2> QED  BY <2>1, ConcatProperties DEF S!RemoveAt
<1>4. ASSUME NEW x PROVE Others(x) \in Seq(T)
  <2>1. CASE Entry(x) = {}
    BY <2>1 DEF Others
  <2>2. CASE Entry(x) # {}
    <3>1. (CHOOSE i \in Entry(x) : TRUE) \in 1 .. Len(cache)
      BY <1>1, <2>2 DEF Entry
    <3> QED  BY <1>3, <2>2, <3>1 DEF Others
  <2> QED  BY <2>1, <2>2
<1>5. ASSUME NEW x PROVE Touched(x) \in Seq(T)
  <2>1. CASE ~(context = "BP_CONTEXT" /\ Entry(x) # {})
    BY <2>1 DEF Touched
  <2>2. CASE context = "BP_CONTEXT" /\ Entry(x) # {}
    <3> DEFINE i == CHOOSE i \in Entry(x) : TRUE
               first == <<cache[i]>>
    <3>1. i \in 1 .. Len(cache)
      BY <1>1, <2>2 DEF Entry
    <3>2. first \in Seq(T)
      BY <1>1, <3>1
    <3>3. Touched(x) = first \o Others(x)
      BY <2>2 DEF Touched
    <3> HIDE DEF first
    <3> QED  BY <1>4, <3>2, <3>3, ConcatProperties
  <2> QED  BY <2>1, <2>2
<1>6. ASSUME NEW x \in T PROVE Put(x) \in Seq(T)
  <2> DEFINE items == <<x>> \o Others(x)
  <2>1. items \in Seq(T)
    BY <1>4, ConcatProperties
  <2>2. S!Front(items) \in Seq(T)
    <3> HIDE DEF items
    <3>1. Len(items) \in Nat /\ \A i \in 1 .. Len(items) - 1 : items[i] \in T
      BY <2>1, LenProperties, ElementOfSeq
    <3> QED  BY <3>1, SubSeqProperties DEF S!Front
  <2> QED  BY <2>1, <2>2 DEF Put
<1> QED  BY <1>5, <1>6

\* The sequences of items of a set are those with no other items.
LEMMA ItemsWithin ==
    ASSUME NEW T, NEW U, NEW s \in Seq(T), Items(s) \subseteq U
    PROVE  s \in Seq(U)
<1>1. Len(s) \in Nat /\ DOMAIN s = 1 .. Len(s) /\ s \in [1 .. Len(s) -> T]
  BY LenProperties
<1>2. \A i \in 1 .. Len(s) : s[i] \in U
  BY <1>1 DEF Items, S!ToSet
<1>3. s \in [1 .. Len(s) -> U]
  BY <1>1, <1>2
<1> QED  BY <1>1, <1>3, SeqDef

\* Who finds an item in a cache of verified items has one that verifies.
LEMMA FoundVerifies ==
    ASSUME TypeInv, OnlyVerified, NEW x, Contains(x)
    PROVE  x \in Valid
BY DEF OnlyVerified, Contains, Entry, Items, S!ToSet
-----------------------------------------------------------------------------
(* What a verification in progress has yet to do, after each access.       *)

\* The first access, and what there is besides.
LEMMA FirstAccess ==
    ASSUME NEW K, NEW todo \in Seq(AccessOf(K)), todo # <<>>
    PROVE  /\ Head(todo) \in AccessOf(K) /\ Tail(todo) \in Seq(AccessOf(K))
           /\ \A kind : Of(kind, todo) =
                  (IF Head(todo).kind = kind THEN Items(Head(todo).items) ELSE {})
                      \cup Of(kind, Tail(todo))
           /\ Looking(todo) <=> Head(todo).kind = "looks" \/ Looking(Tail(todo))
           /\ Head(todo).kind \in {"looks", "parses", "adds"} =>
                  /\ Head(todo).items[1] \in Item
                  /\ Items(Head(todo).items) = {Head(todo).items[1]}
<1>1. /\ Head(todo) \in AccessOf(K) /\ Head(todo) = todo[1] /\ Tail(todo) \in Seq(AccessOf(K))
      /\ Len(todo) \in Nat \ {0}
      /\ DOMAIN todo = 1 .. Len(todo) /\ DOMAIN Tail(todo) = 1 .. Len(todo) - 1
      /\ \A i \in 1 .. Len(todo) - 1 : Tail(todo)[i] = todo[i + 1]
  BY HeadTail
<1>2. Looking(todo) <=> Head(todo).kind = "looks" \/ Looking(Tail(todo))
  <2>1. ASSUME NEW i \in DOMAIN todo, todo[i].kind = "looks", Head(todo).kind # "looks"
        PROVE  Looking(Tail(todo))
    <3>1. i - 1 \in 1 .. Len(todo) - 1 /\ i - 1 + 1 = i
      BY <1>1, <2>1
    <3> QED  BY <1>1, <2>1, <3>1 DEF Looking
  <2>2. ASSUME NEW i \in DOMAIN Tail(todo), Tail(todo)[i].kind = "looks"
        PROVE  Looking(todo)
    <3>1. i + 1 \in DOMAIN todo
      BY <1>1
    <3> QED  BY <1>1, <2>2, <3>1 DEF Looking
  <2>3. 1 \in DOMAIN todo
    BY <1>1
  <2> QED  BY <1>1, <2>1, <2>2, <2>3 DEF Looking
<1>3. ASSUME Head(todo).kind \in {"looks", "parses", "adds"}
      PROVE  /\ Head(todo).items[1] \in Item
             /\ Items(Head(todo).items) = {Head(todo).items[1]}
  <2>1. PICK x \in Item : Head(todo).items = <<x>>
    BY <1>1, <1>3 DEF AccessOf
  <2>2. Items(<<x>>) = {x}
    BY DEF Items, S!ToSet
  <2> QED  BY <2>1, <2>2
<1> QED  BY <1>1, <1>2, <1>3, OfHeadTail

\* Nothing is left behind when the rest is done after an access that is no
\* look-up.
LEMMA GoesOnRight ==
    ASSUME NEW this, NEW that, that.call = this.call, that.missing = this.missing,
           this.todo \in Seq(AccessOf(VerifyKinds)), this.todo # <<>>,
           that.todo = Tail(this.todo), ChecksAll(this),
           Head(this.todo).kind # "looks",
           Head(this.todo).kind = "parses" => Head(this.todo).items[1] \in Parsed,
           Head(this.todo).kind = "verifies" => Items(Head(this.todo).items) \subseteq Valid
    PROVE  ChecksAll(that)
<1> DEFINE todo == this.todo
           now == Head(todo)
           rest == Tail(todo)
<1>1. /\ now \in AccessOf(VerifyKinds) /\ rest \in Seq(AccessOf(VerifyKinds))
      /\ \A kind : Of(kind, todo) =
             (IF now.kind = kind THEN Items(now.items) ELSE {}) \cup Of(kind, rest)
      /\ Looking(todo) <=> now.kind = "looks" \/ Looking(rest)
      /\ now.kind \in {"looks", "parses", "adds"} => Items(now.items) = {now.items[1]}
  BY FirstAccess
<1>2. /\ now = todo[1] /\ Len(todo) \in Nat \ {0}
      /\ DOMAIN todo = 1 .. Len(todo) /\ DOMAIN rest = 1 .. Len(todo) - 1
      /\ \A i \in 1 .. Len(todo) - 1 : rest[i] = todo[i + 1]
  BY HeadTail
<1>3. Ordered(rest)
  BY OrderedTail DEF ChecksAll
<1>4. LooksFirst(rest)
  <2>1. ASSUME Looking(rest), NEW i \in DOMAIN rest PROVE rest[i].kind = "looks"
    <3>1. i + 1 \in DOMAIN todo /\ i + 1 > 1 /\ rest[i] = todo[i + 1]
      BY <1>2, <2>1
    <3>2. Looking(todo)
      BY <1>1, <2>1
    <3> QED  BY <3>1, <3>2 DEF ChecksAll, LooksFirst
  <2>2. ASSUME Looking(rest) PROVE 1 \in DOMAIN rest
    BY <1>2, <2>2 DEF Looking
  <2> QED  BY <2>1, <2>2 DEF LooksFirst
<1>5. Unseen(that) = Unseen(this) /\ Unparsed(that) = Unparsed(this)
  BY <1>1 DEF Unseen, Unparsed
<1> HIDE DEF now, rest
<1>6. /\ now.kind # "looks"
      /\ now.kind = "parses" => now.items[1] \in Parsed
      /\ now.kind = "verifies" => Items(now.items) \subseteq Valid
  BY DEF now
<1>7. that.todo = rest /\ this.todo = todo
  BY DEF rest
<1> HIDE DEF todo
<1>8. Of("looks", rest) = Of("looks", todo)
  BY <1>1, <1>6
<1>9. Of("parses", todo) \subseteq Of("parses", rest) \cup Parsed
  BY <1>1, <1>6
<1>10. Of("verifies", todo) \subseteq Of("verifies", rest) \cup Valid
  BY <1>1, <1>6
<1>11. \A kind : Of(kind, rest) \subseteq Of(kind, todo)
  BY <1>1
<1> QED  BY <1>3, <1>4, <1>5, <1>7, <1>8, <1>9, <1>10, <1>11 DEF ChecksAll

\* While items are looked up, a first access that is a look-up is followed by
\* look-ups alone.
LEMMA OnlyLooks ==
    ASSUME NEW todo \in Seq(AccessOf(VerifyKinds)), todo # <<>>, LooksFirst(todo),
           Head(todo).kind = "looks"
    PROVE  /\ Tail(todo) \in Seq(AccessOf({"looks"}))
           /\ todo \in Seq(AccessOf({"looks"}))
<1>1. /\ Head(todo) = todo[1] /\ Len(todo) \in Nat \ {0} /\ DOMAIN todo = 1 .. Len(todo)
      /\ Tail(todo) \in Seq(AccessOf(VerifyKinds))
      /\ DOMAIN Tail(todo) = 1 .. Len(todo) - 1 /\ Len(Tail(todo)) = Len(todo) - 1
      /\ \A i \in 1 .. Len(todo) - 1 : Tail(todo)[i] = todo[i + 1]
      /\ \A i \in 1 .. Len(todo) : todo[i] \in AccessOf(VerifyKinds)
  BY HeadTail, ElementOfSeq
<1>2. \A i \in 1 .. Len(todo) : todo[i].kind = "looks"
  <2>1. 1 \in DOMAIN todo
    BY <1>1
  <2>2. Looking(todo)
    BY <1>1, <2>1 DEF Looking
  <2> QED  BY <1>1, <2>2 DEF LooksFirst
<1>3. \A a \in AccessOf(VerifyKinds) : a.kind = "looks" => a \in AccessOf({"looks"})
  BY DEF AccessOf
<1>4. \A i \in 1 .. Len(todo) : todo[i] \in AccessOf({"looks"})
  BY <1>1, <1>2, <1>3
<1>5. todo \in [1 .. Len(todo) -> AccessOf({"looks"})]
  <2>1. todo \in [1 .. Len(todo) -> AccessOf(VerifyKinds)]
    BY LenProperties
  <2> QED  BY <1>4, <2>1
<1>6. todo \in Seq(AccessOf({"looks"}))
  BY <1>1, <1>5, SeqDef
<1> QED  BY <1>6, HeadTail

\* The items of a sequence with one more.
LEMMA ItemsAppend ==
    ASSUME NEW T, NEW s \in Seq(T), NEW x \in T
    PROVE  Append(s, x) \in Seq(T) /\ Items(Append(s, x)) = Items(s) \cup {x}
<1> DEFINE sx == Append(s, x)
<1>1. /\ sx \in Seq(T) /\ Len(sx) = Len(s) + 1 /\ Len(s) \in Nat
      /\ \A i \in 1 .. Len(s) : sx[i] = s[i]
      /\ sx[Len(s) + 1] = x
  BY AppendProperties, LenProperties
<1> HIDE DEF sx
<1>2. /\ \A y : y \in Items(s) <=> \E i \in 1 .. Len(s) : s[i] = y
      /\ \A y : y \in Items(sx) <=> \E i \in 1 .. Len(s) + 1 : sx[i] = y
  <2>1. \A y : y \in Items(s) <=> \E i \in 1 .. Len(s) : s[i] = y
    BY ItemsOf
  <2>2. \A y : y \in Items(sx) <=> \E i \in 1 .. Len(sx) : sx[i] = y
    BY <1>1, ItemsOf
  <2> QED  BY <1>1, <2>1, <2>2
<1>3. ASSUME NEW y \in Items(sx) PROVE y \in Items(s) \cup {x}
  <2>1. PICK i \in 1 .. Len(s) + 1 : sx[i] = y
    BY <1>2, <1>3
  <2>2. i \in 1 .. Len(s) \/ i = Len(s) + 1
    BY <1>1
  <2> QED  BY <1>1, <1>2, <2>1, <2>2
<1>4. ASSUME NEW y \in Items(s) PROVE y \in Items(sx)
  <2>1. PICK i \in 1 .. Len(s) : s[i] = y
    BY <1>2, <1>4
  <2>2. i \in 1 .. Len(s) + 1
    BY <1>1
  <2> QED  BY <1>1, <1>2, <2>1, <2>2
<1>5. x \in Items(sx)
  <2>1. Len(s) + 1 \in 1 .. Len(s) + 1
    BY <1>1
  <2> QED  BY <1>1, <1>2, <2>1
<1>6. Items(sx) = Items(s) \cup {x}
  BY <1>3, <1>4, <1>5
<1> QED  BY <1>1, <1>6 DEF sx

\* A thread looks up an item, which is found or is one of the missing.
LooksUp(this, that, found, parse) ==
    /\ this.call \in Call /\ this.call.op \in VerifyOps /\ this.missing \in Seq(Item)
    /\ this.todo \in Seq(AccessOf(VerifyKinds)) /\ this.todo # <<>> /\ ChecksAll(this)
    /\ Head(this.todo).kind = "looks"
    /\ found => Head(this.todo).items[1] \in Valid
    /\ parse \in {<<>>, <<ToSecp256k1(Head(this.todo).items[1])>>}
    /\ ~found /\ this.call.op = "Bulletproofs::BatchVerify" => parse # <<>>
    /\ that.call = this.call
    /\ that.missing = IF found THEN this.missing
                      ELSE Append(this.missing, Head(this.todo).items[1])
    /\ that.todo = parse \o IF Len(this.todo) > 1 THEN Tail(this.todo)
                            ELSE AfterLookup(this.call, that.missing)

\* What is left after an item has been looked up: it is in the cache and
\* verifies, or it is among the missing, and is parsed by Bulletproofs.
LEMMA LooksRight ==
    ASSUME NEW this, NEW that, NEW found \in BOOLEAN, NEW parse,
           LooksUp(this, that, found, parse)
    PROVE  /\ that.todo \in Seq(AccessOf(VerifyKinds)) /\ that.missing \in Seq(Item)
           /\ ChecksAll(that)
<1> DEFINE todo == this.todo
           x == Head(todo).items[1]
           rest == Tail(todo)
           missing == that.missing
           asked == Items(this.call.items)
           bp == this.call.op = "Bulletproofs::BatchVerify"
<1>1. /\ rest \in Seq(AccessOf({"looks"})) /\ rest \in Seq(AccessOf(VerifyKinds))
      /\ x \in Item
      /\ Of("looks", todo) = {x} \cup Of("looks", rest)
  BY FirstAccess, OnlyLooks DEF ChecksAll, LooksUp
<1>2. Of("parses", todo) = {} /\ Of("verifies", todo) = {} /\ Looking(todo)
  <2>1. todo \in Seq(AccessOf({"looks"}))
    BY OnlyLooks DEF ChecksAll, LooksUp
  <2>2. Looking(todo)
    BY FirstAccess DEF LooksUp
  <2> HIDE DEF todo
  <2> QED  BY <2>1, <2>2, OfOther
<1>3. missing \in Seq(Item) /\ Items(missing) = Items(this.missing) \cup (IF found THEN {} ELSE {x})
  <2>1. CASE found
    BY <2>1 DEF LooksUp
  <2>2. CASE ~found
    <3>1. missing = Append(this.missing, x) /\ this.missing \in Seq(Item)
      BY <2>2 DEF LooksUp
    <3> HIDE DEF missing, x
    <3> QED  BY <1>1, <2>2, <3>1, ItemsAppend
  <2> QED  BY <2>1, <2>2
<1>4. /\ parse \in Seq(AccessOf({"parses"}))
      /\ Of("parses", parse) = IF parse = <<>> THEN {} ELSE {x}
  <2>1. parse = <<>> \/ parse = <<ToSecp256k1(x)>>
    BY DEF LooksUp
  <2>2. CASE parse = <<>>
    BY <2>2, EmptySeq DEF Of
  <2>3. CASE parse = <<ToSecp256k1(x)>>
    <3> DEFINE a == ToSecp256k1(x)
    <3>1. a \in AccessOf({"parses"}) /\ a.kind = "parses" /\ a.items = <<x>>
      BY <1>1 DEF ToSecp256k1, Access, AccessOf
    <3> HIDE DEF a
    <3>2. Items(<<x>>) = {x}
      BY DEF Items, S!ToSet
    <3>3. Of("parses", <<a>>) = Items(a.items)
      BY <3>1, OfOne
    <3>4. <<a>> \in Seq(AccessOf({"parses"})) /\ parse = <<a>> /\ parse # <<>>
      BY <2>3, <3>1 DEF a
    <3> QED  BY <3>1, <3>2, <3>3, <3>4
  <2> QED  BY <2>1, <2>2, <2>3
<1>5. /\ found => x \in Valid
      /\ ~found /\ bp => parse # <<>>
      /\ Valid \subseteq Parsed
  BY VerificationAssumption DEF LooksUp
<1>6. /\ Items(this.missing) \subseteq asked /\ x \in asked /\ Of("looks", rest) \subseteq asked
      /\ asked \ Parsed \subseteq {x} \cup Of("looks", rest)
                                    \cup (IF bp THEN {} ELSE Items(this.missing))
      /\ asked \ Valid \subseteq {x} \cup Of("looks", rest) \cup Items(this.missing)
  <2> HIDE DEF todo, rest, x
  <2>1. Of("looks", todo) \subseteq asked
    BY DEF ChecksAll, LooksUp, todo
  <2>2. Unseen(this) = Items(this.missing)
    BY <1>2 DEF Unseen, todo
  <2>3. Unparsed(this) = IF bp THEN {} ELSE Items(this.missing)
    BY <2>2 DEF Unparsed
  <2>4. /\ Items(this.missing) \subseteq asked
        /\ asked \ Parsed \subseteq Of("looks", todo) \cup Of("parses", todo) \cup Unparsed(this)
        /\ asked \ Valid \subseteq Of("looks", todo) \cup Of("verifies", todo) \cup Unseen(this)
    BY DEF ChecksAll, LooksUp, todo
  <2> HIDE DEF asked, bp
  <2> QED  BY <1>1, <1>2, <2>1, <2>2, <2>3, <2>4
<1>7. CASE Len(todo) > 1
  <2>1. that.todo = parse \o rest
    BY <1>7 DEF LooksUp
  <2> HIDE DEF todo, rest, x, missing, asked, bp
  <2>2. {"parses"} \subseteq VerifyKinds
    BY DEF VerifyKinds
  <2>3. parse \in Seq(AccessOf(VerifyKinds))
    BY <1>4, <2>2, Subkinds
  <2>4. that.todo \in Seq(AccessOf(VerifyKinds))
    BY <1>1, <2>1, <2>3, ConcatProperties
  <2>5. \A kind : Of(kind, that.todo) = Of(kind, parse) \cup Of(kind, rest)
    BY <1>1, <2>1, <2>3, OfConcat
  <2>6. /\ Of("looks", parse) = {} /\ Of("verifies", parse) = {} /\ Of("adds", parse) = {}
    BY <1>4, OfOther
  <2>7. /\ Of("parses", rest) = {} /\ Of("verifies", rest) = {} /\ Of("adds", rest) = {}
    BY <1>1, OfOther
  <2>8. Ordered(that.todo)
    <3>1. Ordered(parse)
      BY <1>4, OrderedWithout
    <3>2. Ordered(rest)
      BY <1>1, OrderedWithout
    <3> QED  BY <1>1, <1>4, <2>1, <3>1, <3>2, OrderedConcat
  <2>9. Looking(that.todo) /\ LooksFirst(that.todo)
    <3>1. /\ Len(rest) \in Nat \ {0} /\ DOMAIN rest = 1 .. Len(rest)
          /\ \A i \in 1 .. Len(rest) : rest[i] \in AccessOf({"looks"})
      <4>1. Len(rest) = Len(todo) - 1 /\ Len(todo) \in Nat
        BY HeadTail DEF rest, todo, LooksUp
      <4> QED  BY <1>1, <1>7, <4>1, LenProperties, ElementOfSeq
    <3>2. /\ Len(parse) \in {0, 1} /\ DOMAIN parse = 1 .. Len(parse)
          /\ \A i \in 1 .. Len(parse) : parse[i] \in AccessOf({"parses"})
      <4>1. parse = <<>> \/ parse = <<ToSecp256k1(Head(this.todo).items[1])>>
        BY DEF LooksUp
      <4>2. Len(parse) \in {0, 1}
        <5> DEFINE a == ToSecp256k1(Head(this.todo).items[1])
        <5> HIDE DEF a
        <5>1. parse = <<>> \/ parse = <<a>>
          BY <4>1 DEF a
        <5> QED  BY <5>1
      <4> QED  BY <1>4, <4>2, LenProperties, ElementOfSeq
    <3>3. /\ \A i \in 1 .. Len(parse) : parse[i].kind = "parses"
          /\ \A i \in 1 .. Len(rest) : rest[i].kind = "looks"
      BY <3>1, <3>2 DEF AccessOf
    <3>4. /\ Len(that.todo) = Len(parse) + Len(rest)
          /\ DOMAIN that.todo = 1 .. Len(parse) + Len(rest)
          /\ \A i \in 1 .. Len(parse) + Len(rest) :
                that.todo[i] = IF i <= Len(parse) THEN parse[i] ELSE rest[i - Len(parse)]
      BY <1>1, <2>1, <2>3, <2>4, ConcatProperties, LenProperties
    <3>5. \A i \in 1 .. Len(parse) + Len(rest) :
             /\ i > Len(parse) => that.todo[i].kind = "looks"
             /\ i <= Len(parse) => that.todo[i].kind = "parses"
      <4> TAKE i \in 1 .. Len(parse) + Len(rest)
      <4>1. CASE i > Len(parse)
        <5>1. i - Len(parse) \in 1 .. Len(rest)
          BY <3>1, <3>2, <4>1
        <5> QED  BY <3>2, <3>3, <3>4, <4>1, <5>1
      <4>2. CASE i <= Len(parse)
        <5>1. i \in 1 .. Len(parse)
          BY <3>2, <4>2
        <5> QED  BY <3>2, <3>3, <3>4, <4>2, <5>1
      <4> QED  BY <3>2, <4>1, <4>2
    <3>6. /\ Len(parse) + 1 \in 1 .. Len(parse) + Len(rest) /\ Len(parse) + 1 > Len(parse)
          /\ 1 \in 1 .. Len(parse) + Len(rest)
          /\ \A i \in 1 .. Len(parse) + Len(rest) : i > 1 => i > Len(parse)
      BY <3>1, <3>2
    <3>7. Looking(that.todo)
      BY <3>4, <3>5, <3>6 DEF Looking
    <3>8. that.todo[1].kind \in {"looks", "parses"}
      <4>1. 1 > Len(parse) \/ 1 <= Len(parse)
        BY <3>2
      <4> QED  BY <3>5, <3>6, <4>1
    <3>9. \A i \in DOMAIN that.todo : i > 1 => that.todo[i].kind = "looks"
      BY <3>4, <3>5, <3>6
    <3> QED  BY <3>7, <3>8, <3>9 DEF LooksFirst
  <2>10. /\ Of("looks", that.todo) = Of("looks", rest)
         /\ Of("parses", that.todo) = Of("parses", parse)
         /\ Of("verifies", that.todo) = {} /\ Of("adds", that.todo) = {}
    BY <2>5, <2>6, <2>7
  <2>11. Unseen(that) = Items(missing) /\ Unparsed(that) = IF bp THEN {} ELSE Items(missing)
    BY <2>9 DEF Unseen, Unparsed, missing, bp, LooksUp
  <2>12. Items(missing) \subseteq asked /\ Of("parses", parse) \subseteq asked
    BY <1>3, <1>4, <1>6
  <2>13. asked \ Parsed \subseteq Of("looks", rest) \cup Of("parses", parse)
                                    \cup (IF bp THEN {} ELSE Items(missing))
    BY <1>3, <1>4, <1>5, <1>6
  <2>14. asked \ Valid \subseteq Of("looks", rest) \cup Items(missing)
    BY <1>3, <1>5, <1>6
  <2>15. /\ asked = Items(that.call.items) /\ missing = that.missing
    BY DEF asked, missing, LooksUp
  <2>16. ChecksAll(that)
    BY <1>6, <2>8, <2>9, <2>10, <2>11, <2>12, <2>13, <2>14, <2>15 DEF ChecksAll
  <2> QED  BY <1>3, <2>4, <2>15, <2>16
<1>8. CASE ~(Len(todo) > 1)
  <2> DEFINE after == AfterLookup(this.call, missing)
  <2>1. that.todo = parse \o after
    BY <1>8 DEF LooksUp
  <2>2. Of("looks", rest) = {}
    <3>1. Len(todo) \in Nat \ {0} /\ Len(rest) = Len(todo) - 1 /\ DOMAIN rest = 1 .. Len(todo) - 1
      BY HeadTail DEF LooksUp
    <3>2. DOMAIN rest = {}
      BY <1>8, <3>1
    <3> QED  BY <3>2 DEF Of
  <2>3. /\ after \in Seq(AccessOf(VerifyKinds \ {"looks"}))
        /\ Of("verifies", after) = Items(missing)
        /\ Of("parses", after) = (IF bp THEN {} ELSE Items(missing))
        /\ Of("adds", after) \subseteq (IF bp THEN asked ELSE Items(missing))
        /\ Ordered(after)
    BY <1>3, AfterLookupIs DEF LooksUp
  <2> HIDE DEF todo, rest, x, missing, asked, bp, after
  <2>4. {"parses"} \subseteq VerifyKinds \ {"looks"} /\ VerifyKinds \ {"looks"} \subseteq VerifyKinds
    BY DEF VerifyKinds
  <2>5. parse \in Seq(AccessOf(VerifyKinds \ {"looks"}))
    BY <1>4, <2>4, Subkinds
  <2>6. that.todo \in Seq(AccessOf(VerifyKinds \ {"looks"}))
    BY <2>1, <2>3, <2>5, ConcatProperties
  <2>7. \A kind : Of(kind, that.todo) = Of(kind, parse) \cup Of(kind, after)
    BY <2>1, <2>3, <2>5, OfConcat
  <2>8. /\ Of("verifies", parse) = {} /\ Of("adds", parse) = {}
    BY <1>4, OfOther
  <2>9. Of("looks", that.todo) = {} /\ ~Looking(that.todo)
    BY <2>6, OfOther, NotLooking
  <2>10. Ordered(that.todo)
    <3>1. Ordered(parse)
      BY <1>4, OrderedWithout
    <3> QED  BY <1>4, <2>1, <2>3, <3>1, OrderedConcat
  <2>11. that.todo \in Seq(AccessOf(VerifyKinds))
    BY <2>4, <2>6, Subkinds
  <2>12. LooksFirst(that.todo) /\ Unseen(that) = {} /\ Unparsed(that) = {}
    BY <2>9 DEF LooksFirst, Unseen, Unparsed
  <2>13. Items(missing) \subseteq asked
    BY <1>3, <1>6
  <2>14. /\ Of("parses", that.todo) = Of("parses", parse) \cup (IF bp THEN {} ELSE Items(missing))
         /\ Of("verifies", that.todo) = Items(missing)
         /\ Of("adds", that.todo) = Of("adds", after)
    BY <2>3, <2>7, <2>8
  <2>15. Of("parses", that.todo) \subseteq asked
    BY <1>4, <1>6, <2>13, <2>14
  <2>16. asked \ Parsed \subseteq Of("parses", that.todo)
    BY <1>3, <1>4, <1>5, <1>6, <2>2, <2>14
  <2>17. asked \ Valid \subseteq Of("verifies", that.todo)
    BY <1>3, <1>5, <1>6, <2>2, <2>14
  <2>18. Of("adds", that.todo) \subseteq Valid \cup Of("verifies", that.todo)
    BY <2>3, <2>14, <2>17
  <2>19. asked = Items(that.call.items) /\ missing = that.missing
    BY DEF asked, missing, LooksUp
  <2>20. ChecksAll(that)
    BY <2>9, <2>10, <2>12, <2>13, <2>14, <2>15, <2>16, <2>17, <2>18, <2>19 DEF ChecksAll
  <2> QED  BY <1>3, <2>11, <2>19, <2>20
<1> QED  BY <1>7, <1>8
-----------------------------------------------------------------------------
(* The steps.                                                              *)

\* A thread as it may be, in the behaviour of a context.
ThreadRight(this) ==
    /\ this \in [call    : Call \cup {NoCall},
                 todo    : Seq(AccessOf(VerifyKinds \cup OtherKinds)),
                 missing : Seq(Item)]
    /\ this.call # NoCall =>
          /\ this.todo \in Seq(AccessOf(KindsOf(this.call)))
          /\ this.call.context = context
          /\ this.call.op \in VerifyOps => ChecksAll(this)

\* Every thread is as it may be.
LEMMA ThreadsRight ==
    ASSUME TypeInv, CallsCheck, NEW t \in Thread
    PROVE  ThreadRight(thread[t])
BY DEF TypeInv, CallsCheck, ThreadRight, Busy

\* So is one that is in no call.
LEMMA IdleRight == ThreadRight(Idle)
<1>1. <<>> \in Seq(AccessOf(VerifyKinds \cup OtherKinds)) /\ <<>> \in Seq(Item)
  BY EmptySeq
<1> QED  BY <1>1 DEF ThreadRight, Idle

\* A thread that is right after a step is so among the others, which do not
\* change.
LEMMA ThreadSteps ==
    ASSUME TypeInv, CallsCheck, NEW t \in Thread, NEW that, ThreadRight(that),
           thread' = [thread EXCEPT ![t] = that], context' = context
    PROVE  /\ thread' \in [Thread -> [call : Call \cup {NoCall},
                                      todo : Seq(AccessOf(VerifyKinds \cup OtherKinds)),
                                      missing : Seq(Item)]]
           /\ \A u \in Thread : Busy(u)' =>
                 /\ thread'[u].todo \in Seq(AccessOf(KindsOf(thread'[u].call)))
                 /\ thread'[u].call.context = context'
           /\ CallsCheck'
<1>1. /\ thread \in [Thread -> [call : Call \cup {NoCall},
                                todo : Seq(AccessOf(VerifyKinds \cup OtherKinds)),
                                missing : Seq(Item)]]
  BY DEF TypeInv
<1>2. /\ thread'[t] = that
      /\ \A u \in Thread : u # t => thread'[u] = thread[u]
  BY <1>1
<1>3. thread' \in [Thread -> [call : Call \cup {NoCall},
                              todo : Seq(AccessOf(VerifyKinds \cup OtherKinds)),
                              missing : Seq(Item)]]
  BY <1>1 DEF ThreadRight
<1>4. \A u \in Thread : ThreadRight(thread'[u])
  BY <1>2, ThreadsRight
<1>5. \A u \in Thread : Busy(u)' =>
         /\ thread'[u].todo \in Seq(AccessOf(KindsOf(thread'[u].call)))
         /\ thread'[u].call.context = context'
         /\ thread'[u].call.op \in VerifyOps => ChecksAll(thread'[u])
  BY <1>4 DEF ThreadRight, Busy
<1>6. CallsCheck'
  BY <1>5 DEF CallsCheck
<1> QED  BY <1>3, <1>5, <1>6

\* The temporaries of a thread die, whatever is next for it.
LEMMA Releases ==
    ASSUME TypeInv, LocksFollowCalls, NEW t \in Thread, NEW that,
           thread' = [thread EXCEPT ![t] = that], lock' = Release(lock, t)
    PROVE  /\ lock' \in [readers : [Thread -> Nat],
                         writer  : {{}} \cup {{u} : u \in Thread}]
           /\ LocksFollowCalls'
<1>1. /\ lock.readers \in [Thread -> Nat] /\ lock.writer \in {{}} \cup {{u} : u \in Thread}
      /\ lock'.readers = [lock.readers EXCEPT ![t] = 0] /\ lock'.writer = lock.writer \ {t}
  BY DEF TypeInv, Release
<1>2. lock'.writer = IF t \in lock.writer THEN {} ELSE lock.writer
  BY <1>1
<1>3. lock' \in [readers : [Thread -> Nat], writer : {{}} \cup {{u} : u \in Thread}]
  BY <1>1, <1>2 DEF Release
<1>4. /\ lock'.readers[t] = 0 /\ t \notin lock'.writer
      /\ \A u \in Thread : u # t => /\ thread'[u] = thread[u]
                                    /\ lock'.readers[u] = lock.readers[u]
                                    /\ u \in lock'.writer => u \in lock.writer
  BY <1>1 DEF TypeInv
<1>5. ASSUME NEW u \in Thread
      PROVE  /\ lock'.readers[u] > 0 =>
                   /\ Does(u, {"reads", "parses", "verifies"})'
                   /\ lock'.readers[u] <= Head(thread'[u].todo).readers
             /\ u \in lock'.writer => Does(u, {"writes"})'
  <2>1. CASE u = t
    BY <1>4, <2>1
  <2>2. CASE u # t
    BY <1>4, <2>2 DEF LocksFollowCalls, Does, Busy
  <2> QED  BY <2>1, <2>2
<1>6. ASSUME lock'.writer # {}
      PROVE  Cardinality(lock'.writer) = 1 /\ \A u \in Thread : lock'.readers[u] = 0
  <2>1. lock'.writer = lock.writer /\ lock.writer # {}
    BY <1>2, <1>6
  <2> QED  BY <1>4, <2>1 DEF LocksFollowCalls
<1> QED  BY <1>3, <1>5, <1>6 DEF LocksFollowCalls

\* Who is in no expression has nothing to release.
LEMMA NothingHeld ==
    ASSUME TypeInv, LocksFollowCalls, NEW t \in Thread,
           ~Does(t, {"reads", "parses", "verifies", "writes"})
    PROVE  lock = Release(lock, t)
<1>1. ~Does(t, {"reads", "parses", "verifies"}) /\ ~Does(t, {"writes"})
  BY DEF Does
<1>2. /\ lock \in [readers : [Thread -> Nat], writer : {{}} \cup {{u} : u \in Thread}]
      /\ lock.readers[t] = 0 /\ t \notin lock.writer
  BY <1>1 DEF TypeInv, LocksFollowCalls
<1>3. lock.readers = [lock.readers EXCEPT ![t] = 0] /\ lock.writer = lock.writer \ {t}
  BY <1>2
<1> QED  BY <1>2, <1>3 DEF Release

\* The invariant holds before the first call.
LEMMA Initially == Init => Inv
<1> SUFFICES ASSUME Init PROVE Inv
  OBVIOUS
<1>1. \A t \in Thread : thread[t] = Idle /\ ~Busy(t)
  BY DEF Init, Idle, Busy
<1>2. Idle \in [call    : Call \cup {NoCall},
                todo    : Seq(AccessOf(VerifyKinds \cup OtherKinds)),
                missing : Seq(Item)]
  BY IdleRight DEF ThreadRight
<1>3. TypeInv
  BY <1>1, <1>2, EmptySeq DEF Init, TypeInv, Unlocked, Answers
<1>4. LocksFollowCalls
  BY DEF Init, LocksFollowCalls, Unlocked
<1>5. CallsCheck /\ OnlyVerified
  BY <1>1 DEF Init, CallsCheck, OnlyVerified, Items, S!ToSet
<1> QED  BY <1>3, <1>4, <1>5 DEF Inv

\* What a step of a thread has to see to.
LEMMA StepsRight ==
    ASSUME Inv, NEW t \in Thread, NEW that, ThreadRight(that),
           thread' = [thread EXCEPT ![t] = that], lock' = Release(lock, t),
           context' = context, cache' \in Seq(Valid), answer' \in [Thread -> Answers]
    PROVE  Inv'
<1>1. /\ lock' \in [readers : [Thread -> Nat], writer : {{}} \cup {{u} : u \in Thread}]
      /\ LocksFollowCalls'
  BY Releases DEF Inv
<1>2. /\ thread' \in [Thread -> [call : Call \cup {NoCall},
                                 todo : Seq(AccessOf(VerifyKinds \cup OtherKinds)),
                                 missing : Seq(Item)]]
      /\ \A u \in Thread : Busy(u)' =>
            /\ thread'[u].todo \in Seq(AccessOf(KindsOf(thread'[u].call)))
            /\ thread'[u].call.context = context'
      /\ CallsCheck'
  BY ThreadSteps DEF Inv
<1>3. cache' \in Seq(Item) /\ OnlyVerified'
  <2>1. Valid \subseteq Item
    BY VerificationAssumption
  <2> QED  BY <2>1, ItemsOf, SeqMonotonic DEF OnlyVerified, Items
<1>4. TypeInv'
  BY <1>1, <1>2, <1>3 DEF TypeInv
<1> QED  BY <1>1, <1>2, <1>3, <1>4 DEF Inv

\* A cache is a sequence of items that verify.
LEMMA CacheVerified == ASSUME Inv PROVE cache \in Seq(Valid)
BY ItemsWithin DEF Inv, TypeInv, OnlyVerified, Items

\* What a call has yet to do is of the kinds of its function.
LEMMA Kinds ==
    ASSUME Inv, NEW t \in Thread, Busy(t)
    PROVE  /\ thread[t].call \in Call /\ thread[t].missing \in Seq(Item)
           /\ thread[t].todo \in Seq(AccessOf(KindsOf(thread[t].call)))
           /\ thread[t].call.context = context
           /\ thread[t].call.op \in VerifyOps => ChecksAll(thread[t])
           /\ KindsOf(thread[t].call) \subseteq VerifyKinds \cup OtherKinds
BY DEF Inv, TypeInv, CallsCheck, Busy, KindsOf

\* A call begins with accesses that check all it is asked.
LEMMA BeginKeeps == ASSUME Inv, NEW t \in Thread, Begin(t) PROVE Inv'
<1>1. PICK call \in {c \in Call : c.context = context} :
         thread' = [thread EXCEPT ![t] =
                       [call |-> call, todo |-> Accesses(call), missing |-> <<>>]]
  BY DEF Begin
<1> DEFINE that == [call |-> call, todo |-> Accesses(call), missing |-> <<>>]
<1>2. /\ Accesses(call) \in Seq(AccessOf(KindsOf(call)))
      /\ call.op \in VerifyOps => ChecksAll(that)
  <2>1. CASE call.op \in VerifyOps
    BY <2>1, BeginsRight DEF KindsOf
  <2>2. CASE call.op \notin VerifyOps
    BY <2>2, OthersTyped DEF KindsOf
  <2> QED  BY <2>1, <2>2
<1>3. ThreadRight(that)
  <2>1. KindsOf(call) \subseteq VerifyKinds \cup OtherKinds
    BY DEF KindsOf
  <2>2. Accesses(call) \in Seq(AccessOf(VerifyKinds \cup OtherKinds))
    BY <1>2, <2>1, Subkinds
  <2>3. <<>> \in Seq(Item)
    BY EmptySeq
  <2> QED  BY <1>2, <2>2, <2>3 DEF ThreadRight
<1>4. lock' = Release(lock, t)
  <2>1. ~Does(t, {"reads", "parses", "verifies", "writes"})
    BY DEF Begin, Does
  <2> QED  BY <2>1, NothingHeld DEF Inv, Begin
<1>5. /\ context' = context /\ cache' = cache
      /\ answer' \in [Thread -> Answers]
  BY DEF Begin, Inv, TypeInv, Answers
<1> HIDE DEF that
<1>6. thread' = [thread EXCEPT ![t] = that]
  BY <1>1 DEF that
<1> QED  BY <1>3, <1>4, <1>5, <1>6, CacheVerified, StepsRight

\* An item is looked up, and what is left is right.
LEMMA LookKeeps == ASSUME Inv, NEW t \in Thread, Look(t) PROVE Inv'
<1> DEFINE this == thread[t]
           x == Head(this.todo).items[1]
           found == Contains(x)
           missing == IF Contains(x) THEN this.missing ELSE Append(this.missing, x)
           parse == IF ~Contains(x) /\ context = "BP_CONTEXT" THEN <<ToSecp256k1(x)>>
                    ELSE <<>>
           rest == IF Len(this.todo) > 1 THEN Tail(this.todo)
                   ELSE AfterLookup(this.call, missing)
           that == [this EXCEPT !.missing = missing, !.todo = parse \o rest]
<1>1. Busy(t) /\ this.todo # <<>> /\ Head(this.todo).kind = "looks"
  BY DEF Look, Does
<1>2. /\ this.call \in Call /\ this.missing \in Seq(Item)
      /\ this.todo \in Seq(AccessOf(KindsOf(this.call)))
      /\ this.call.context = context
      /\ this.call.op \in VerifyOps => ChecksAll(this)
  BY <1>1, Kinds
<1>3. this.call.op \in VerifyOps
  <2>1. Head(this.todo) \in AccessOf(KindsOf(this.call))
    BY <1>1, <1>2, HeadTail
  <2> QED  BY <1>1, <2>1 DEF KindsOf, OtherKinds, AccessOf
<1>4. this.todo \in Seq(AccessOf(VerifyKinds)) /\ ChecksAll(this)
  BY <1>2, <1>3 DEF KindsOf
<1>5. that.call = this.call /\ that.missing = missing /\ that.todo = parse \o rest
      /\ thread' = [thread EXCEPT ![t] = that]
  BY DEF Look, Inv, TypeInv
<1>6. found \in BOOLEAN /\ found => x \in Valid
  BY FoundVerifies DEF Inv, Contains
<1>7. ~found /\ this.call.op = "Bulletproofs::BatchVerify" => parse # <<>>
  <2>1. this.call.op = "Bulletproofs::BatchVerify" => context = "BP_CONTEXT"
    BY <1>2, VerificationAssumption
  <2> QED  BY <2>1
<1>8. LooksUp(this, that, TRUE, parse) \/ LooksUp(this, that, FALSE, parse)
  <2>1. CASE found
    BY <1>1, <1>2, <1>3, <1>4, <1>5, <1>6, <2>1 DEF LooksUp
  <2>2. CASE ~found
    BY <1>1, <1>2, <1>3, <1>4, <1>5, <1>7, <2>2 DEF LooksUp
  <2> QED  BY <2>1, <2>2
<1>9. /\ that.todo \in Seq(AccessOf(VerifyKinds)) /\ that.missing \in Seq(Item)
      /\ ChecksAll(that)
  <2> HIDE DEF that, this, found, parse, missing, rest, x
  <2> QED  BY <1>8, LooksRight
<1>10. ThreadRight(that)
  <2>1. that.todo \in Seq(AccessOf(VerifyKinds \cup OtherKinds))
    <3> HIDE DEF that
    <3> QED  BY <1>9, Subkinds
  <2>2. that \in [call    : Call \cup {NoCall},
                 todo    : Seq(AccessOf(VerifyKinds \cup OtherKinds)),
                 missing : Seq(Item)]
    <3> DEFINE done == parse \o rest
    <3>1. this \in [call    : Call \cup {NoCall},
                    todo    : Seq(AccessOf(VerifyKinds \cup OtherKinds)),
                    missing : Seq(Item)]
      BY DEF Inv, TypeInv
    <3>2. missing = that.missing /\ done = that.todo
      BY <1>5
    <3>3. that = [this EXCEPT !.missing = missing, !.todo = done]
      OBVIOUS
    <3> HIDE DEF that, missing, done, this
    <3>4. missing \in Seq(Item) /\ done \in Seq(AccessOf(VerifyKinds \cup OtherKinds))
      BY <1>9, <2>1, <3>2
    <3> QED  BY <3>1, <3>3, <3>4
  <2>3. KindsOf(that.call) = VerifyKinds
    BY <1>3, <1>5 DEF KindsOf
  <2> HIDE DEF that, this
  <2> QED  BY <1>2, <1>5, <1>9, <2>1, <2>2, <2>3 DEF ThreadRight
<1>11. lock' = Release(lock, t)
  <2>1. ~Does(t, {"reads", "parses", "verifies", "writes"})
    BY DEF Look, Does
  <2> QED  BY <2>1, NothingHeld DEF Inv, Look
<1>12. /\ context' = context /\ cache' = Touched(x)
       /\ answer' \in [Thread -> Answers]
  BY DEF Look, Inv, TypeInv
<1>13. cache' \in Seq(Valid)
  BY <1>12, CacheVerified, Cached
<1> HIDE DEF that
<1> QED  BY <1>5, <1>10, <1>11, <1>12, <1>13, StepsRight

\* A reader or writer more: its thread is at an expression that has it.
LEMMA AcquireKeeps == ASSUME Inv, NEW t \in Thread, Acquire(t) PROVE Inv'
<1>1. /\ UNCHANGED <<context, cache, thread, answer>>
      /\ lock \in [readers : [Thread -> Nat], writer : {{}} \cup {{u} : u \in Thread}]
  BY DEF Acquire, Inv, TypeInv
<1>2. CASE /\ Does(t, {"reads", "parses", "verifies"})
           /\ lock.readers[t] < Head(thread[t].todo).readers
           /\ CanRead(lock, Waiting)
           /\ lock' = Read(lock, t)
  <2>1. Head(thread[t].todo).readers \in Nat
    <3>1. thread[t].todo # <<>> /\ thread[t].todo \in Seq(AccessOf(VerifyKinds \cup OtherKinds))
      BY <1>2 DEF Does, Inv, TypeInv
    <3>2. Head(thread[t].todo) \in AccessOf(VerifyKinds \cup OtherKinds)
      BY <3>1, HeadTail
    <3> QED  BY <3>2 DEF AccessOf
  <2>2. /\ lock'.readers = [lock.readers EXCEPT ![t] = @ + 1] /\ lock'.writer = {}
        /\ lock.writer = {}
    BY <1>1, <1>2 DEF Read, CanRead
  <2>3. lock' \in [readers : [Thread -> Nat], writer : {{}} \cup {{u} : u \in Thread}]
    BY <1>1, <1>2, <2>2 DEF Read
  <2>4. /\ lock'.readers[t] = lock.readers[t] + 1 /\ lock.readers[t] \in Nat
        /\ \A u \in Thread : u # t => lock'.readers[u] = lock.readers[u]
    BY <1>1, <2>2
  <2>5. \A u \in Thread : \A kinds : Does(u, kinds)' <=> Does(u, kinds)
    BY <1>1 DEF Does, Busy
  <2>6. ASSUME NEW u \in Thread, lock'.readers[u] > 0
        PROVE  /\ Does(u, {"reads", "parses", "verifies"})
               /\ lock'.readers[u] <= Head(thread[u].todo).readers
    <3>1. CASE u = t
      BY <1>2, <2>1, <2>4, <3>1
    <3>2. CASE u # t
      BY <2>4, <2>6, <3>2 DEF Inv, LocksFollowCalls
    <3> QED  BY <3>1, <3>2
  <2>7. LocksFollowCalls'
    BY <1>1, <2>2, <2>5, <2>6 DEF LocksFollowCalls
  <2> QED  BY <1>1, <2>3, <2>7 DEF Inv, TypeInv, CallsCheck, OnlyVerified, Busy
<1>3. CASE t \in Waiting /\ CanWrite(lock) /\ lock' = Write(lock, t)
  <2>1. /\ lock'.readers = lock.readers /\ lock'.writer = {t}
        /\ \A u \in Thread : lock.readers[u] = 0
        /\ Does(t, {"writes"})
    BY <1>1, <1>3 DEF Write, CanWrite, Waiting
  <2>2. lock' \in [readers : [Thread -> Nat], writer : {{}} \cup {{u} : u \in Thread}]
    BY <1>1, <1>3, <2>1 DEF Write
  <2>3. \A u \in Thread : \A kinds : Does(u, kinds)' <=> Does(u, kinds)
    BY <1>1 DEF Does, Busy
  <2>4. Cardinality(lock'.writer) = 1
    BY <2>1, FS_Singleton
  <2>5. LocksFollowCalls'
    BY <2>1, <2>3, <2>4 DEF LocksFollowCalls
  <2> QED  BY <1>1, <2>2, <2>5 DEF Inv, TypeInv, CallsCheck, OnlyVerified, Busy
<1> QED  BY <1>2, <1>3 DEF Acquire

\* What is next for a thread that goes on.
LEMMA GoingOn ==
    ASSUME Inv, NEW t \in Thread, Busy(t), thread[t].todo # <<>>, GoesOn(t),
           Head(thread[t].todo).kind # "looks",
           thread[t].call.op \in VerifyOps =>
               /\ Head(thread[t].todo).kind = "parses" =>
                     Head(thread[t].todo).items[1] \in Parsed
               /\ Head(thread[t].todo).kind = "verifies" =>
                     Items(Head(thread[t].todo).items) \subseteq Valid
    PROVE  \E that : ThreadRight(that) /\ thread' = [thread EXCEPT ![t] = that]
<1> DEFINE this == thread[t]
           rest == Tail(this.todo)
           that == [this EXCEPT !.todo = rest]
<1>1. /\ this.call \in Call /\ this.missing \in Seq(Item)
      /\ this.todo \in Seq(AccessOf(KindsOf(this.call)))
      /\ this.call.context = context
      /\ this.call.op \in VerifyOps => ChecksAll(this)
      /\ KindsOf(this.call) \subseteq VerifyKinds \cup OtherKinds
  BY Kinds
<1>2. rest \in Seq(AccessOf(KindsOf(this.call)))
  BY <1>1, HeadTail
<1>3. rest \in Seq(AccessOf(VerifyKinds \cup OtherKinds))
  <2> HIDE DEF rest, this
  <2> QED  BY <1>1, <1>2, Subkinds
<1>4. this \in [call    : Call \cup {NoCall},
                todo    : Seq(AccessOf(VerifyKinds \cup OtherKinds)),
                missing : Seq(Item)]
  BY DEF Inv, TypeInv
<1>5. /\ that \in [call    : Call \cup {NoCall},
                   todo    : Seq(AccessOf(VerifyKinds \cup OtherKinds)),
                   missing : Seq(Item)]
      /\ that.call = this.call /\ that.missing = this.missing /\ that.todo = rest
  <2> HIDE DEF rest, this
  <2> QED  BY <1>3, <1>4
<1>6. ASSUME this.call.op \in VerifyOps PROVE ChecksAll(that)
  <2>1. ChecksAll(this) /\ this.todo \in Seq(AccessOf(VerifyKinds)) /\ this.todo # <<>>
    BY <1>1, <1>6 DEF KindsOf
  <2>2. /\ Head(this.todo).kind # "looks"
        /\ Head(this.todo).kind = "parses" => Head(this.todo).items[1] \in Parsed
        /\ Head(this.todo).kind = "verifies" => Items(Head(this.todo).items) \subseteq Valid
    BY <1>6
  <2>3. that.todo = Tail(this.todo)
    BY <1>5
  <2> HIDE DEF this, that, rest
  <2> QED  BY <1>5, <2>1, <2>2, <2>3, GoesOnRight
<1>7. ThreadRight(that)
  <2> HIDE DEF that, this, rest
  <2> QED  BY <1>1, <1>2, <1>5, <1>6 DEF ThreadRight
<1>8. thread' = [thread EXCEPT ![t] = that]
  BY DEF GoesOn
<1> QED  BY <1>7, <1>8

\* An expression ends, by an exception or with all that was to be checked.
LEMMA UseKeeps == ASSUME Inv, NEW t \in Thread, Use(t) PROVE Inv'
<1> DEFINE now == Head(thread[t].todo)
<1>1. /\ Busy(t) /\ thread[t].todo # <<>>
      /\ now.kind \in {"reads", "parses", "verifies", "writes"}
      /\ lock' = Release(lock, t) /\ context' = context /\ cache' = cache
  BY DEF Use, Does
<1>2. \/ \E result \in {"throws", "false"} : Ends(t, result)
      \/ /\ GoesOn(t) /\ UNCHANGED answer
         /\ now.kind = "parses" => now.items[1] \in Parsed
         /\ now.kind = "verifies" => Items(now.items) \subseteq Valid
  BY DEF Use, Items
<1>3. ASSUME NEW result \in {"throws", "false"}, Ends(t, result) PROVE Inv'
  <2>1. /\ thread' = [thread EXCEPT ![t] = Idle]
        /\ answer' \in [Thread -> Answers]
    BY <1>3 DEF Ends, Inv, TypeInv, Answers
  <2> QED  BY <1>1, <2>1, IdleRight, CacheVerified, StepsRight
<1>4. ASSUME GoesOn(t), UNCHANGED answer,
             now.kind = "parses" => now.items[1] \in Parsed,
             now.kind = "verifies" => Items(now.items) \subseteq Valid
      PROVE  Inv'
  <2>1. PICK that : ThreadRight(that) /\ thread' = [thread EXCEPT ![t] = that]
    BY <1>1, <1>4, GoingOn
  <2>2. answer' \in [Thread -> Answers]
    BY <1>4 DEF Inv, TypeInv
  <2> QED  BY <1>1, <2>1, <2>2, CacheVerified, StepsRight
<1> QED  BY <1>2, <1>3, <1>4

\* What is added has been verified.
LEMMA AddsValid ==
    ASSUME Inv, NEW t \in Thread, Does(t, {"adds"})
    PROVE  Head(thread[t].todo).items[1] \in Valid
<1> DEFINE this == thread[t]
           todo == this.todo
           now == Head(todo)
           rest == Tail(todo)
<1>1. Busy(t) /\ todo # <<>> /\ now.kind = "adds"
  BY DEF Does
<1>2. todo \in Seq(AccessOf(KindsOf(this.call)))
      /\ (this.call.op \in VerifyOps => ChecksAll(this))
  BY <1>1, Kinds
<1>3. now \in AccessOf(KindsOf(this.call))
  BY <1>1, <1>2, HeadTail
<1>4. this.call.op \in VerifyOps
  BY <1>1, <1>3 DEF KindsOf, OtherKinds, AccessOf
<1>5. todo \in Seq(AccessOf(VerifyKinds)) /\ ChecksAll(this)
  BY <1>2, <1>4 DEF KindsOf
<1>6. /\ Of("adds", todo) = Items(now.items) \cup Of("adds", rest)
      /\ Of("verifies", todo) = Of("verifies", rest)
      /\ Items(now.items) = {now.items[1]}
  <2>1. /\ \A kind : Of(kind, todo) =
               (IF now.kind = kind THEN Items(now.items) ELSE {}) \cup Of(kind, rest)
        /\ now.kind \in {"looks", "parses", "adds"} => Items(now.items) = {now.items[1]}
    BY <1>1, <1>5, FirstAccess
  <2> HIDE DEF now, rest, todo
  <2> QED  BY <1>1, <2>1
<1>7. Of("verifies", rest) = {}
  <2>1. \A i \in DOMAIN rest : rest[i].kind = "adds"
    BY <1>1, <1>5, OrderedTail DEF ChecksAll
  <2> QED  BY <2>1 DEF Of
<1>8. Of("adds", todo) \subseteq Valid \cup Of("verifies", todo)
  BY <1>5 DEF ChecksAll
<1> HIDE DEF now, rest, todo
<1>9. now.items[1] \in Valid
  BY <1>6, <1>7, <1>8
<1> QED  BY <1>9 DEF now, todo

\* An item is added that was verified.
LEMMA AddKeeps == ASSUME Inv, NEW t \in Thread, Add(t) PROVE Inv'
<1> DEFINE x == Head(thread[t].todo).items[1]
<1>1. /\ Does(t, {"adds"}) /\ Busy(t) /\ thread[t].todo # <<>>
      /\ Head(thread[t].todo).kind = "adds"
      /\ GoesOn(t) /\ cache' = Put(x) /\ UNCHANGED <<context, lock, answer>>
  BY DEF Add, Does
<1>2. cache' \in Seq(Valid)
  <2>1. x \in Valid
    BY <1>1, AddsValid
  <2> QED  BY <1>1, <2>1, CacheVerified, Cached
<1>3. lock' = Release(lock, t)
  <2>1. ~Does(t, {"reads", "parses", "verifies", "writes"})
    BY <1>1 DEF Does
  <2> QED  BY <1>1, <2>1, NothingHeld DEF Inv
<1>4. PICK that : ThreadRight(that) /\ thread' = [thread EXCEPT ![t] = that]
  BY <1>1, GoingOn
<1>5. answer' \in [Thread -> Answers]
  BY <1>1 DEF Inv, TypeInv
<1> QED  BY <1>1, <1>2, <1>3, <1>4, <1>5, StepsRight

\* A call ends.
LEMMA ReturnKeeps == ASSUME Inv, NEW t \in Thread, Return(t) PROVE Inv'
<1>1. /\ thread' = [thread EXCEPT ![t] = Idle] /\ answer' \in [Thread -> Answers]
      /\ UNCHANGED <<context, cache, lock>>
  BY DEF Return, Ends, Inv, TypeInv, Answers
<1>2. lock' = Release(lock, t)
  <2>1. ~Does(t, {"reads", "parses", "verifies", "writes"})
    BY DEF Return, Does
  <2> QED  BY <1>1, <2>1, NothingHeld DEF Inv
<1> QED  BY <1>1, <1>2, IdleRight, CacheVerified, StepsRight

\* Every step keeps the invariant.
LEMMA NextKeeps == Inv /\ [Next]_vars => Inv'
<1> SUFFICES ASSUME Inv, [Next]_vars PROVE Inv'
  OBVIOUS
<1>1. CASE UNCHANGED vars
  BY <1>1 DEF vars, Inv, TypeInv, LocksFollowCalls, CallsCheck, OnlyVerified, Busy, Does
<1>2. ASSUME NEW t \in Thread, Begin(t) \/ Step(t) PROVE Inv'
  BY <1>2, BeginKeeps, LookKeeps, AcquireKeeps, UseKeeps, AddKeeps, ReturnKeeps DEF Step
<1> QED  BY <1>1, <1>2 DEF Next
-----------------------------------------------------------------------------
(* The theorems.                                                           *)

\* Types, locks, what calls have yet to check, and what is in the cache, in all
\* behaviours of any number of threads.
THEOREM Invariance == Spec => []Inv
<1>1. Init => Inv
  BY Initially
<1>2. Inv /\ [Next]_vars => Inv'
  BY NextKeeps
<1> QED  BY <1>1, <1>2, PTL DEF Spec

\* For any number of threads and calls: a thread has the readers and writers of
\* the expression it is in and no others, exceptions included, and a context
\* that is written has one writer and no readers.
THEOREM LocksHeld == Spec => []LocksFollowCalls
<1>1. Inv => LocksFollowCalls
  BY DEF Inv
<1> QED  BY <1>1, Invariance, PTL

\* For caches of any size: whatever threads look up, add and drop, only what
\* verifies is ever in a cache.
THEOREM OnlyVerifiedCached == Spec => []OnlyVerified
<1>1. Inv => OnlyVerified
  BY DEF Inv
<1> QED  BY <1>1, Invariance, PTL
-----------------------------------------------------------------------------
(* The answers.                                                            *)

\* An item whose key does not parse, or that does not verify, is met by the
\* verification that is asked for it.
LEMMA UseAnswers ==
    ASSUME Inv, NEW t \in Thread, Use(t)
    PROVE  \/ \E result \in RightAnswers(thread[t].call) : Ends(t, result)
           \/ GoesOn(t) /\ UNCHANGED answer
<1> DEFINE this == thread[t]
           todo == this.todo
           now == Head(todo)
           rest == Tail(todo)
           asked == Items(this.call.items)
<1>1. /\ Busy(t) /\ todo # <<>> /\ now.kind \in {"reads", "parses", "verifies", "writes"}
      /\ \/ now.kind = "parses" /\ now.items[1] \notin Parsed /\ Ends(t, "throws")
         \/ now.kind = "verifies" /\ ~(Items(now.items) \subseteq Valid) /\ Ends(t, "false")
         \/ this.call.op \notin VerifyOps /\ Ends(t, "throws")
         \/ GoesOn(t) /\ UNCHANGED answer
  BY DEF Use, Does, Items
<1>2. CASE this.call.op \notin VerifyOps
  <2>1. RightAnswers(this.call) = {"true", "false", "throws"}
    BY <1>2 DEF RightAnswers
  <2> QED  BY <1>1, <2>1
<1>3. CASE this.call.op \in VerifyOps
  <2>1. todo \in Seq(AccessOf(VerifyKinds)) /\ ChecksAll(this)
    BY <1>1, <1>3, Kinds DEF KindsOf
  <2>2. /\ \A kind : Of(kind, todo) =
               (IF now.kind = kind THEN Items(now.items) ELSE {}) \cup Of(kind, rest)
        /\ now.kind \in {"looks", "parses", "adds"} => Items(now.items) = {now.items[1]}
        /\ Looking(todo) <=> now.kind = "looks" \/ Looking(rest)
    BY <1>1, <2>1, FirstAccess
  <2>3. /\ Of("parses", todo) \subseteq asked /\ Of("verifies", todo) \subseteq asked
        /\ asked \ Parsed \subseteq Of("looks", todo) \cup Of("parses", todo) \cup Unparsed(this)
    BY <2>1 DEF ChecksAll
  <2>4. CASE now.kind = "parses" /\ now.items[1] \notin Parsed /\ Ends(t, "throws")
    <3>1. now.items[1] \in asked
      <4> HIDE DEF asked, now, todo, rest
      <4> QED  BY <2>2, <2>3, <2>4
    <3>2. ~(asked \subseteq Parsed)
      BY <2>4, <3>1
    <3>3. ~(asked \subseteq Valid)
      BY <3>2, VerificationAssumption
    <3>4. RightAnswers(this.call) = {"throws"}
      BY <1>3, <3>2, <3>3 DEF RightAnswers, Items
    <3> QED  BY <2>4, <3>4
  <2>5. CASE now.kind = "verifies" /\ ~(Items(now.items) \subseteq Valid) /\ Ends(t, "false")
    <3>1. \A i \in DOMAIN rest : rest[i].kind = "adds"
      BY <1>1, <2>1, <2>5, OrderedTail DEF ChecksAll
    <3>2. Of("looks", rest) = {} /\ Of("parses", rest) = {} /\ ~Looking(rest)
      BY <3>1 DEF Of, Looking
    <3>3. ~Looking(todo)
      BY <2>2, <2>5, <3>2
    <3>4. Unparsed(this) = {}
      BY <3>3 DEF Unparsed, Unseen
    <3>5. asked \subseteq Parsed /\ ~(asked \subseteq Valid)
      <4> HIDE DEF asked, now, todo, rest
      <4> QED  BY <2>2, <2>3, <2>5, <3>2, <3>4
    <3>6. RightAnswers(this.call) = {"false"}
      BY <1>3, <3>5 DEF RightAnswers, Items
    <3> QED  BY <2>5, <3>6
  <2> QED  BY <1>1, <1>3, <2>4, <2>5
<1> QED  BY <1>2, <1>3

\* A verification that has nothing left to do has checked all items.
LEMMA ReturnAnswers ==
    ASSUME Inv, NEW t \in Thread, Return(t)
    PROVE  "true" \in RightAnswers(thread[t].call)
<1> DEFINE this == thread[t]
           asked == Items(this.call.items)
<1>1. Busy(t) /\ this.todo = <<>>
  BY DEF Return
<1>2. CASE this.call.op \notin VerifyOps
  BY <1>2 DEF RightAnswers
<1>3. CASE this.call.op \in VerifyOps
  <2>1. ChecksAll(this)
    BY <1>1, <1>3, Kinds
  <2>2. ~Looking(this.todo) /\ \A kind : Of(kind, this.todo) = {}
    BY <1>1 DEF Looking, Of
  <2>3. Unseen(this) = {} /\ Unparsed(this) = {}
    BY <2>2 DEF Unseen, Unparsed
  <2>4. asked \subseteq Parsed /\ asked \subseteq Valid
    BY <2>1, <2>2, <2>3 DEF ChecksAll
  <2> QED  BY <1>3, <2>4 DEF RightAnswers, Items
<1> QED  BY <1>2, <1>3
-----------------------------------------------------------------------------
(* The functions implement Verifier.                                       *)

Asked == [t \in Thread |-> thread[t].call]

\* At first nobody has asked.
LEMMA InitImplements == Init => Stateless!Init
BY DEF Init, Stateless!Init, Idle

\* A call that ends with a right answer is an answer of Verifier.
LEMMA EndImplements ==
    ASSUME Inv, NEW t \in Thread, Busy(t), NEW result \in RightAnswers(thread[t].call),
           Ends(t, result)
    PROVE  Stateless!Next
<1>1. Asked' = [Asked EXCEPT ![t] = NoCall]
  BY DEF Inv, TypeInv, Ends, Asked, Idle
<1>2. Asked[t] = thread[t].call
  BY DEF Asked
<1>3. Stateless!Answer(t)
  BY <1>1, <1>2 DEF Stateless!Answer, Ends, Busy, Asked
<1> QED  BY <1>3 DEF Stateless!Next

\* Every step is one of Verifier, or none that it sees.
LEMMA NextImplements ==
    ASSUME Inv, [Next]_vars
    PROVE  Stateless!Next \/ (Asked' = Asked /\ answer' = answer)
<1>1. CASE UNCHANGED vars
  BY <1>1 DEF vars, Asked
<1>2. ASSUME NEW t \in Thread, Begin(t)
      PROVE  Stateless!Next
  <2>1. PICK call \in Call :
           thread' = [thread EXCEPT ![t] =
                         [call |-> call, todo |-> Accesses(call), missing |-> <<>>]]
    BY <1>2 DEF Begin
  <2>2. Asked' = [Asked EXCEPT ![t] = call]
    BY <2>1 DEF Inv, TypeInv, Asked
  <2>3. Stateless!Ask(t)
    BY <1>2, <2>2 DEF Stateless!Ask, Begin, Busy, Asked
  <2> QED  BY <2>3 DEF Stateless!Next
<1>3. ASSUME NEW t \in Thread, Look(t) \/ Acquire(t) \/ Add(t)
      PROVE  Asked' = Asked /\ answer' = answer
  <2>1. CASE Look(t)
    <3>1. /\ \E todo, missing : thread' = [thread EXCEPT ![t].missing = missing, ![t].todo = todo]
          /\ answer' = answer
      BY <2>1 DEF Look
    <3>2. PICK todo, missing :
             thread' = [thread EXCEPT ![t].missing = missing, ![t].todo = todo]
      BY <3>1
    <3> QED  BY <3>1, <3>2 DEF Asked, Inv, TypeInv
  <2>2. CASE Acquire(t)
    BY <2>2 DEF Acquire, Asked
  <2>3. CASE Add(t)
    BY <2>3 DEF Add, GoesOn, Asked, Inv, TypeInv
  <2> QED  BY <1>3, <2>1, <2>2, <2>3
<1>4. ASSUME NEW t \in Thread, Use(t)
      PROVE  Stateless!Next \/ (Asked' = Asked /\ answer' = answer)
  <2>1. Busy(t)
    BY <1>4 DEF Use, Does
  <2>2. CASE \E result \in RightAnswers(thread[t].call) : Ends(t, result)
    BY <2>1, <2>2, EndImplements
  <2>3. CASE GoesOn(t) /\ UNCHANGED answer
    BY <2>3 DEF GoesOn, Asked, Inv, TypeInv
  <2> QED  BY <1>4, <2>2, <2>3, UseAnswers
<1>5. ASSUME NEW t \in Thread, Return(t)
      PROVE  Stateless!Next
  <2>1. Busy(t) /\ Ends(t, "true")
    BY <1>5 DEF Return
  <2> QED  BY <1>5, <2>1, ReturnAnswers, EndImplements
<1> QED  BY <1>1, <1>2, <1>3, <1>4, <1>5 DEF Next, Step

\* What a call returns depends on what it was asked alone: a verification
\* returns true if every item verifies, throws if a key does not parse, and
\* returns false otherwise, whatever the cache holds when it looks, whatever
\* other threads add or drop before it has verified, for any number of threads.
THEOREM Implementation == Spec => ImplementsVerifier
<1>1. Init => Stateless!Init
  BY InitImplements
<1>2. Inv /\ [Next]_vars => [Stateless!Next]_<<[t \in Thread |-> thread[t].call], answer>>
  BY NextImplements DEF Asked
<1> QED  BY <1>1, <1>2, Invariance, PTL DEF Spec, ImplementsVerifier, Stateless!Spec
=============================================================================
