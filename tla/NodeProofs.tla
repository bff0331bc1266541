------------------------------ MODULE NodeProofs ------------------------------
(***************************************************************************)
(* Theorems about module Node, for any commitments, kernels and bounds:    *)
(* what holds whatever the files hold, and that caches and database        *)
(* implement the stack of states of ExtBlockChain.                         *)
(***************************************************************************)
EXTENDS Node, CoinsViewProofs

-----------------------------------------------------------------------------
(* Types.                                                                  *)

\* The actions that a block leaves in a new cache for commitment c.
BlockUpdate(v, b, c) ==
    LET u == IF c \in b.ins THEN SpendAction(NoUpdate) ELSE NoUpdate
    IN  IF c \in Outs(b) THEN AddAction(u, Len(v.outs) + Position(b, c) - 1) ELSE u

\* What ApplyBlock leaves in a new cache, part by part.
LEMMA ApplyBlockFields ==
    ASSUME NEW v \in ViewType, NEW b \in Body, NEW hdr
    PROVE  ApplyBlock(NewCache(v), v, b, hdr) =
               [hdr     |-> hdr,
                upd     |-> [c \in Commitment |-> BlockUpdate(v, b, c)],
                leafset |-> LeafSetAdd(
                    LeafSetRemove(LeafSetCache(v.leafset),
                                  {Top(v.coins[c]) : c \in b.ins}),
                    Len(v.outs), Len(b.outs)),
                kern    |-> [first |-> Len(v.kern), leaves |-> b.kernels],
                outs    |-> [first |-> Len(v.outs), leaves |-> b.outs]]
<1> DEFINE n == NewCache(v)
           k == ApplyBlock(n, v, b, hdr)
<1>1. ViewOf(n, v) = v
  BY NewCacheView
<1>2. /\ n.kern = [first |-> Len(v.kern), leaves |-> <<>>]
      /\ n.outs = [first |-> Len(v.outs), leaves |-> <<>>]
      /\ n.leafset = LeafSetCache(v.leafset)
      /\ \A c \in Commitment : n.upd[c] = NoUpdate
  BY DEF NewCache, MMRCache
<1>3. /\ b.outs \in Seq(Commitment) /\ b.kernels \in Seq(Kernel)
      /\ v.outs \in Seq(Commitment)
  BY BodyType DEF ViewType
<1>4. NumLeaves(n.outs) = Len(v.outs)
  BY <1>2, <1>3 DEF NumLeaves
<1>5. <<>> \o b.outs = b.outs /\ <<>> \o b.kernels = b.kernels
  BY <1>3, ConcatProperties
<1> HIDE DEF n
<1>6. k.upd = [c \in Commitment |-> BlockUpdate(v, b, c)]
  BY <1>2, <1>4 DEF ApplyBlock, BlockUpdate, n
<1>7. k.leafset = LeafSetAdd(
          LeafSetRemove(n.leafset, {Top(v.coins[c]) : c \in b.ins}),
          Len(v.outs), Len(b.outs))
  BY <1>1, <1>4 DEF ApplyBlock, n
<1>8. k.kern = MMRAdd(n.kern, b.kernels) /\ k.outs = MMRAdd(n.outs, b.outs)
  BY DEF ApplyBlock, n
<1>9. /\ k.hdr = hdr
      /\ k = [hdr |-> k.hdr, upd |-> k.upd, leafset |-> k.leafset,
              kern |-> k.kern, outs |-> k.outs]
  BY DEF ApplyBlock
<1>10. /\ k.kern = [first |-> Len(v.kern), leaves |-> b.kernels]
       /\ k.outs = [first |-> Len(v.outs), leaves |-> b.outs]
  BY <1>2, <1>5, <1>8 DEF MMRAdd
<1> HIDE DEF k
<1> QED  BY <1>2, <1>6, <1>7, <1>9, <1>10 DEF k, n

\* The top of a stack, and what is under it.
LEMMA TopType ==
    ASSUME NEW S, NEW x \in Seq(S), x # <<>>
    PROVE  Top(x) \in S /\ ButLast(x) \in Seq(S)
BY DEF Top, ButLast

\* The place of a commitment among the outputs of a block.
LEMMA PositionType ==
    ASSUME NEW b \in Body, NEW c \in Outs(b)
    PROVE  /\ Position(b, c) \in DOMAIN b.outs
           /\ Position(b, c) \in Nat /\ Position(b, c) >= 1
           /\ b.outs[Position(b, c)] = c
<1>1. \E i \in DOMAIN b.outs : b.outs[i] = c
  BY DEF Outs
<1>2. Position(b, c) \in DOMAIN b.outs /\ b.outs[Position(b, c)] = c
  BY <1>1 DEF Position
<1>3. b.outs \in Seq(Commitment)
  BY BodyType
<1> QED  BY <1>2, <1>3

\* What a block does to the coins of a commitment is an update.
LEMMA BlockUpdateType ==
    ASSUME NEW v \in ViewType, NEW b \in Body, NEW c \in Commitment
    PROVE  BlockUpdate(v, b, c) \in UpdateType
<1>1. NoUpdate \in UpdateType /\ SpendAction(NoUpdate) \in UpdateType
  BY DEF NoUpdate, SpendAction, UpdateType
<1> DEFINE u == IF c \in b.ins THEN SpendAction(NoUpdate) ELSE NoUpdate
<1>2. u \in UpdateType
  BY <1>1
<1>3. CASE c \in Outs(b)
  <2> DEFINE l == Len(v.outs) + Position(b, c) - 1
  <2>1. l \in Nat
    <3>1. v.outs \in Seq(Commitment)
      BY DEF ViewType
    <3> QED  BY <1>3, <3>1, PositionType
  <2>2. u.pops \in Nat /\ Append(u.pushes, l) \in Seq(Nat)
    <3> HIDE DEF u, l
    <3> QED  BY <1>2, <2>1, UpdateFields
  <2>3. AddAction(u, l) \in UpdateType
    <3> HIDE DEF u, l
    <3> QED  BY <2>1, <2>2 DEF AddAction, UpdateType
  <2> QED  BY <1>3, <2>3 DEF BlockUpdate
<1>4. CASE c \notin Outs(b)
  BY <1>2, <1>4 DEF BlockUpdate
<1> QED  BY <1>3, <1>4

\* A block that can be applied leaves a well-typed cache and undo.
LEMMA ApplyBlockType ==
    ASSUME NEW v \in ViewType, NEW b \in Body, NEW hdr \in Header,
           \A c \in b.ins : v.coins[c] # <<>>,
           NEW k, k = ApplyBlock(NewCache(v), v, b, hdr)
    PROVE  /\ k \in CacheType
           /\ FitsMMRs(k, v)
           /\ BlockUndo(v, b) \in UndoType
<1>1. /\ b.outs \in Seq(Commitment) /\ b.kernels \in Seq(Kernel)
      /\ b.ins \subseteq Commitment /\ Outs(b) \subseteq Commitment
  BY BodyType DEF Outs
<1>2. /\ v.kern \in Seq(Kernel) /\ v.outs \in Seq(Commitment)
      /\ v.leafset \in [bits : SUBSET Nat, next : Nat]
      /\ v.coins \in [Commitment -> Seq(Nat)]
      /\ v.hdr \in Header \cup {NoHeader}
  BY DEF ViewType
<1>3. \A c \in b.ins : Top(v.coins[c]) \in Nat
  BY <1>1, <1>2, TopType
<1>0. k = [hdr     |-> hdr,
           upd     |-> [c \in Commitment |-> BlockUpdate(v, b, c)],
           leafset |-> LeafSetAdd(
               LeafSetRemove(LeafSetCache(v.leafset),
                             {Top(v.coins[c]) : c \in b.ins}),
               Len(v.outs), Len(b.outs)),
           kern    |-> [first |-> Len(v.kern), leaves |-> b.kernels],
           outs    |-> [first |-> Len(v.outs), leaves |-> b.outs]]
  BY ApplyBlockFields
<1>4. k.upd \in [Commitment -> UpdateType]
  BY <1>0, BlockUpdateType
<1>5. k.leafset \in [on : SUBSET Nat, off : SUBSET Nat, next : Nat]
  <2> DEFINE spent == {Top(v.coins[c]) : c \in b.ins}
             l == LeafSetRemove(LeafSetCache(v.leafset), spent)
             n == Len(v.outs)
             m == Len(b.outs)
  <2>1. spent \subseteq Nat
    BY <1>3
  <2>2. l \in [on : SUBSET Nat, off : SUBSET Nat, next : Nat]
    <3> HIDE DEF spent
    <3> QED  BY <1>2, <2>1 DEF LeafSetRemove, LeafSetCache
  <2>3. n \in Nat /\ m \in Nat
    BY <1>1, <1>2
  <2>4. k.leafset = LeafSetAdd(l, n, m)
    BY <1>0
  <2> HIDE DEF l, n, m
  <2>5. n .. n + m - 1 \subseteq Nat
    BY <2>3
  <2> QED  BY <2>2, <2>3, <2>4, <2>5 DEF LeafSetAdd
<1>6. /\ k.kern = [first |-> Len(v.kern), leaves |-> b.kernels]
      /\ k.outs = [first |-> Len(v.outs), leaves |-> b.outs]
      /\ k.hdr = hdr
      /\ k = [hdr |-> k.hdr, upd |-> k.upd, leafset |-> k.leafset,
              kern |-> k.kern, outs |-> k.outs]
  BY <1>0
<1>7. k \in CacheType
  BY <1>1, <1>2, <1>4, <1>5, <1>6 DEF CacheType
<1>8. FitsMMRs(k, v)
  BY <1>2, <1>6 DEF FitsMMRs
<1>9. BlockUndo(v, b) \in UndoType
  BY <1>1, <1>2, <1>3 DEF BlockUndo, UndoType
<1> QED  BY <1>7, <1>8, <1>9

\* The actions that an undo leaves in a new cache for commitment c.
UndoUpdate(u, c) ==
    LET w == IF c \in u.added THEN SpendAction(NoUpdate) ELSE NoUpdate
    IN  IF u.spent[c] # NoCoin THEN AddAction(w, u.spent[c]) ELSE w

\* What UndoBlock leaves in a new cache, part by part.
LEMMA UndoBlockFields ==
    ASSUME NEW v, NEW u
    PROVE  UndoBlock(NewCache(v), u) =
               [hdr     |-> u.prev,
                upd     |-> [c \in Commitment |-> UndoUpdate(u, c)],
                leafset |-> LeafSetRewind(LeafSetCache(v.leafset), u.prev.numTXOs,
                                {u.spent[c] : c \in Commitment} \ {NoCoin}),
                kern    |-> MMRRewind(MMRCache(v.kern), u.prev.numKernels),
                outs    |-> MMRRewind(MMRCache(v.outs), u.prev.numTXOs)]
<1> DEFINE k == UndoBlock(NewCache(v), u)
<1>1. /\ NewCache(v).kern = MMRCache(v.kern)
      /\ NewCache(v).outs = MMRCache(v.outs)
      /\ NewCache(v).leafset = LeafSetCache(v.leafset)
      /\ \A c \in Commitment : NewCache(v).upd[c] = NoUpdate
  BY DEF NewCache
<1>2. k.upd = [c \in Commitment |-> UndoUpdate(u, c)]
  BY <1>1 DEF UndoBlock, UndoUpdate
<1> QED  BY <1>1, <1>2 DEF UndoBlock

\* The rewind of a new MMR cache.
LEMMA RewindNew ==
    ASSUME NEW S, NEW base \in Seq(S), NEW n \in Nat
    PROVE  /\ MMRRewind(MMRCache(base), n) \in [first : Nat, leaves : Seq(S)]
           /\ MMRRewind(MMRCache(base), n).first <= Len(base)
<1>1. MMRCache(base) = [first |-> Len(base), leaves |-> <<>>]
  BY DEF MMRCache
<1>2. CASE n <= Len(base)
  BY <1>1, <1>2 DEF MMRRewind
<1>3. CASE ~(n <= Len(base))
  <2>1. ~(n < NumLeaves(MMRCache(base)))
    BY <1>1, <1>3 DEF NumLeaves
  <2> QED  BY <1>1, <1>3, <2>1 DEF MMRRewind
<1> QED  BY <1>2, <1>3

\* Rewinding a leafset gives a leafset.
LEMMA LeafSetRewindType ==
    ASSUME NEW l \in [on : SUBSET Nat, off : SUBSET Nat, next : Nat],
           NEW n \in Nat, NEW back \in SUBSET Nat
    PROVE  LeafSetRewind(l, n, back) \in [on : SUBSET Nat, off : SUBSET Nat, next : Nat]
<1> DEFINE past == n .. l.next - 1
<1>1. past \subseteq Nat
  OBVIOUS
<1>2. l.on \subseteq Nat /\ l.off \subseteq Nat
  OBVIOUS
<1>3. LeafSetRewind(l, n, back) =
          [on |-> (l.on \cup back) \ past, off |-> (l.off \ back) \cup past, next |-> n]
  BY DEF LeafSetRewind
<1> HIDE DEF past
<1>4. (l.on \cup back) \ past \in SUBSET Nat /\ (l.off \ back) \cup past \in SUBSET Nat
  BY <1>1, <1>2
<1> QED  BY <1>3, <1>4

\* What UndoBlock leaves is a cache that fits the MMRs of its view.
LEMMA UndoBlockType ==
    ASSUME NEW v \in ViewType, NEW u \in UndoType, u.prev # NoHeader,
           NEW k, k = UndoBlock(NewCache(v), u)
    PROVE  k \in CacheType /\ FitsMMRs(k, v)
<1>0. k = [hdr     |-> u.prev,
           upd     |-> [c \in Commitment |-> UndoUpdate(u, c)],
           leafset |-> LeafSetRewind(LeafSetCache(v.leafset), u.prev.numTXOs,
                           {u.spent[c] : c \in Commitment} \ {NoCoin}),
           kern    |-> MMRRewind(MMRCache(v.kern), u.prev.numKernels),
           outs    |-> MMRRewind(MMRCache(v.outs), u.prev.numTXOs)]
  BY UndoBlockFields
<1>1. /\ u.prev \in Header
      /\ u.prev.numTXOs \in Nat /\ u.prev.numKernels \in Nat
      /\ u.spent \in [Commitment -> Nat \cup {NoCoin}]
  BY DEF UndoType, Header
<1>2. /\ v.kern \in Seq(Kernel) /\ v.outs \in Seq(Commitment)
      /\ v.leafset \in [bits : SUBSET Nat, next : Nat]
  BY DEF ViewType
<1>3. ASSUME NEW c \in Commitment PROVE UndoUpdate(u, c) \in UpdateType
  <2> DEFINE w == IF c \in u.added THEN SpendAction(NoUpdate) ELSE NoUpdate
  <2>1. w \in UpdateType
    BY DEF NoUpdate, SpendAction, UpdateType
  <2> HIDE DEF w
  <2>2. CASE u.spent[c] # NoCoin
    <3>1. u.spent[c] \in Nat
      BY <1>1, <2>2
    <3>2. AddAction(w, u.spent[c]) \in UpdateType
      BY <2>1, <3>1, UpdateFields DEF AddAction, UpdateType
    <3> QED  BY <2>2, <3>2 DEF UndoUpdate, w
  <2>3. CASE u.spent[c] = NoCoin
    BY <2>1, <2>3 DEF UndoUpdate, w
  <2> QED  BY <2>2, <2>3
<1>4. k.upd \in [Commitment -> UpdateType]
  BY <1>0, <1>3
<1>5. k.leafset \in [on : SUBSET Nat, off : SUBSET Nat, next : Nat]
  <2> DEFINE back == {u.spent[c] : c \in Commitment} \ {NoCoin}
             n == u.prev.numTXOs
             l == LeafSetCache(v.leafset)
  <2>1. back \subseteq Nat
    BY <1>1
  <2>2. l \in [on : SUBSET Nat, off : SUBSET Nat, next : Nat]
    BY <1>2 DEF LeafSetCache
  <2>3. k.leafset = LeafSetRewind(l, n, back)
    BY <1>0
  <2>4. n \in Nat
    BY <1>1
  <2> HIDE DEF back, n, l
  <2> QED  BY <2>1, <2>2, <2>3, <2>4, LeafSetRewindType
<1>6. /\ k.kern \in [first : Nat, leaves : Seq(Kernel)] /\ k.kern.first <= Len(v.kern)
      /\ k.outs \in [first : Nat, leaves : Seq(Commitment)]
      /\ k.outs.first <= Len(v.outs)
  <2>1. /\ k.kern = MMRRewind(MMRCache(v.kern), u.prev.numKernels)
        /\ k.outs = MMRRewind(MMRCache(v.outs), u.prev.numTXOs)
    BY <1>0
  <2>2. /\ MMRRewind(MMRCache(v.kern), u.prev.numKernels)
               \in [first : Nat, leaves : Seq(Kernel)]
        /\ MMRRewind(MMRCache(v.kern), u.prev.numKernels).first <= Len(v.kern)
    BY <1>1, <1>2, RewindNew
  <2>3. /\ MMRRewind(MMRCache(v.outs), u.prev.numTXOs)
               \in [first : Nat, leaves : Seq(Commitment)]
        /\ MMRRewind(MMRCache(v.outs), u.prev.numTXOs).first <= Len(v.outs)
    BY <1>1, <1>2, RewindNew
  <2> QED  BY <2>1, <2>2, <2>3
<1>7. k \in CacheType
  <2>1. /\ k.hdr = u.prev
        /\ k = [hdr |-> k.hdr, upd |-> k.upd, leafset |-> k.leafset,
                kern |-> k.kern, outs |-> k.outs]
    BY <1>0
  <2> QED  BY <1>1, <1>4, <1>5, <1>6, <2>1 DEF CacheType
<1> QED  BY <1>6, <1>7 DEF FitsMMRs
\* The flush into the database keeps the types.
LEMMA FlushDBType ==
    ASSUME NEW d \in DBType, NEW k \in CacheType, FitsMMRs(k, DBView(d))
    PROVE  /\ FlushToDB(d, k) \in DBType
           /\ Flushed(k) \in CacheType
           /\ FitsMMRs(Flushed(k), DBView(FlushToDB(d, k)))
<1> DEFINE e == FlushToDB(d, k)
<1>1. /\ k.kern \in [first : Nat, leaves : Seq(Kernel)]
      /\ k.outs \in [first : Nat, leaves : Seq(Commitment)]
      /\ d.kern \in Seq(Kernel) /\ d.outs \in Seq(Commitment)
      /\ k.kern.first <= Len(d.kern) /\ k.outs.first <= Len(d.outs)
  BY DBViewOfType DEF CacheType, DBType, FitsMMRs
<1>2. /\ e.hdr = k.hdr
      /\ e.coins = WriteUpdates(d.coins, k.upd)
      /\ e.leafset = LeafSetWrite(d.leafset, k.leafset)
      /\ e.kern = HashFileWrite(d.kern, k.kern)
      /\ e.outs = HashFileWrite(d.outs, k.outs)
      /\ e = [hdr |-> e.hdr, coins |-> e.coins, leafset |-> e.leafset,
              kern |-> e.kern, outs |-> e.outs]
  BY DEF FlushToDB
<1> HIDE DEF e
<1>3. e.kern \in Seq(Kernel) /\ Len(e.kern) = NumLeaves(k.kern)
  BY <1>1, <1>2, HashFileLength
<1>4. e.outs \in Seq(Commitment) /\ Len(e.outs) = NumLeaves(k.outs)
  BY <1>1, <1>2, HashFileLength
<1>5. e.coins \in [Commitment -> Nat \cup {NoCoin}]
  <2> SUFFICES ASSUME NEW c \in Commitment
               PROVE  (IF k.upd[c].last = NoAction THEN d.coins[c] ELSE k.upd[c].last)
                          \in Nat \cup {NoCoin}
    BY <1>2 DEF WriteUpdates
  <2>1. k.upd[c] \in UpdateType /\ d.coins[c] \in Nat \cup {NoCoin}
    BY DEF CacheType, DBType
  <2>2. k.upd[c].last \in Nat \cup {NoAction, NoCoin}
    BY <2>1, UpdateFields
  <2> QED  BY <2>1, <2>2
<1>6. e.leafset \in [bits : SUBSET Nat, next : Nat]
  <2>1. /\ k.leafset \in [on : SUBSET Nat, off : SUBSET Nat, next : Nat]
        /\ d.leafset \in [bits : SUBSET Nat, next : Nat]
    BY DEF CacheType, DBType
  <2> QED  BY <1>2, <2>1 DEF LeafSetWrite
<1>7. e \in DBType
  <2>1. e.hdr \in Header \cup {NoHeader}
    BY <1>2 DEF CacheType
  <2> QED  BY <1>2, <1>3, <1>4, <1>5, <1>6, <2>1 DEF DBType
<1> DEFINE f == Flushed(k)
<1>8. NumLeaves(k.kern) \in Nat /\ NumLeaves(k.outs) \in Nat
  BY <1>1 DEF NumLeaves
<1>9. /\ f.kern.first = NumLeaves(k.kern)
      /\ f.outs.first = NumLeaves(k.outs)
  BY DEF Flushed
<1>10. f \in CacheType
  <2>1. NoUpdate \in UpdateType
    BY DEF NoUpdate, UpdateType
  <2>2. /\ k.hdr \in Header \cup {NoHeader}
        /\ k.leafset.next \in Nat
    BY DEF CacheType
  <2>3. /\ [c \in Commitment |-> NoUpdate] \in [Commitment -> UpdateType]
        /\ [on |-> {}, off |-> {}, next |-> k.leafset.next]
               \in [on : SUBSET Nat, off : SUBSET Nat, next : Nat]
        /\ [first |-> NumLeaves(k.kern), leaves |-> <<>>]
               \in [first : Nat, leaves : Seq(Kernel)]
        /\ [first |-> NumLeaves(k.outs), leaves |-> <<>>]
               \in [first : Nat, leaves : Seq(Commitment)]
    BY <1>8, <2>1, <2>2
  <2> QED  BY <2>2, <2>3 DEF Flushed, CacheType
<1>11. FitsMMRs(f, DBView(e))
  <2>1. DBView(e).kern = e.kern /\ DBView(e).outs = e.outs
    BY <1>7, DBViewOfType
  <2> QED  BY <1>3, <1>4, <1>8, <1>9, <2>1 DEF FitsMMRs
<1> QED  BY <1>7, <1>10, <1>11 DEF e

\* The types, and that the cache's MMRs rest on leaves of the files.
TypeInv == TypeOK /\ FitsMMRs(cache, DBView(db))

\* The database and the tip show views.
LEMMA TipViewType ==
    ASSUME TypeInv
    PROVE  DBView(db) \in ViewType /\ TipView \in ViewType
BY DBViewOfType, ViewOfType DEF TypeInv, TypeOK, TipView

\* The ledger is never empty, and its top is a state.
LEMMA LedgerTop ==
    ASSUME TypeInv
    PROVE  /\ ledger # <<>> /\ Len(ledger) \in 1 .. Len(ledger)
           /\ Top(ledger) = ledger[Len(ledger)]
           /\ Top(ledger) \in StateType
BY DEF TypeInv, TypeOK, Top

\* The types are right at first,
LEMMA InitTypeInv == Init => TypeInv
<1> SUFFICES ASSUME Init PROVE TypeInv
  OBVIOUS
<1>1. EmptyDB \in DBType
  <2>1. [c \in Commitment |-> NoCoin] \in [Commitment -> Nat \cup {NoCoin}]
    OBVIOUS
  <2> QED  BY <2>1 DEF EmptyDB, DBType
<1>2. DBView(EmptyDB) \in ViewType
  BY <1>1, DBViewOfType
<1>3. cache \in CacheType /\ FitsMMRs(cache, DBView(db))
  BY <1>2, NewCacheView DEF Init, Fits
<1>4. undos \in Seq(UndoType) /\ ledger \in Seq(StateType) /\ Len(ledger) = Len(undos) + 1
  BY GenesisSound DEF Init
<1> QED  BY <1>1, <1>3, <1>4 DEF Init, TypeInv, TypeOK

\* after a block is connected,
LEMMA ConnectTypeInv ==
    ASSUME TypeInv, NEW b \in Offered, ConnectBlock(b)
    PROVE  TypeInv'
<1> DEFINE v == TipView
           next == Apply(Top(ledger), b)
           k == ApplyBlock(NewCache(v), v, b, next.hdr)
<1>1. b \in Body
  BY DEF Offered
<1>2. v \in ViewType /\ DBView(db) \in ViewType /\ Top(ledger) \in StateType
  BY TipViewType, LedgerTop
<1>3. next \in StateType /\ next.hdr \in Header
  BY <1>1, <1>2, ApplyType
<1>4. \A c \in b.ins : v.coins[c] # <<>>
  BY DEF ConnectBlock, Connects, CanSpend
<1>5. k \in CacheType /\ FitsMMRs(k, v) /\ BlockUndo(v, b) \in UndoType
  <2> HIDE DEF next, v
  <2> QED  BY <1>1, <1>2, <1>3, <1>4, ApplyBlockType
<1>6. /\ cache' = FlushToCache(cache, k)
      /\ undos' = Append(undos, BlockUndo(v, b))
      /\ ledger' = Append(ledger, next)
      /\ db' = db
  BY DEF ConnectBlock
<1>7. /\ cache \in CacheType /\ FitsMMRs(cache, DBView(db)) /\ v = ViewOf(cache, DBView(db))
  BY DEF TypeInv, TypeOK, TipView
<1> HIDE DEF k, v, next
<1>8. cache' \in CacheType /\ FitsMMRs(cache', DBView(db))
  BY <1>2, <1>5, <1>6, <1>7, FlushType
<1>9. /\ undos' \in Seq(UndoType) /\ ledger' \in Seq(StateType)
      /\ Len(ledger') = Len(undos') + 1
  BY <1>3, <1>5, <1>6 DEF TypeInv, TypeOK
<1> QED  BY <1>6, <1>8, <1>9 DEF TypeInv, TypeOK

\* A stack without its top.
LEMMA ButLastType ==
    ASSUME NEW S, NEW x \in Seq(S), Len(x) > 0
    PROVE  /\ ButLast(x) \in Seq(S)
           /\ Len(ButLast(x)) = Len(x) - 1
           /\ \A i \in 1 .. Len(x) - 1 : ButLast(x)[i] = x[i]
           /\ Top(x) = x[Len(x)] /\ Top(x) \in S
<1> DEFINE n == Len(x) - 1
<1>1. n \in Nat /\ n <= Len(x)
  OBVIOUS
<1>2. ButLast(x) = SubSeq(x, 1, n)
  BY DEF ButLast
<1> HIDE DEF n
<1>3. /\ SubSeq(x, 1, n) \in Seq(S) /\ Len(SubSeq(x, 1, n)) = n
      /\ \A i \in 1 .. n : SubSeq(x, 1, n)[i] = x[i]
  BY <1>1
<1>4. Top(x) = x[Len(x)] /\ x[Len(x)] \in S
  BY DEF Top
<1> QED  BY <1>2, <1>3, <1>4 DEF n

\* after a block is disconnected,
LEMMA DisconnectTypeInv ==
    ASSUME TypeInv, DisconnectBlock
    PROVE  TypeInv'
<1> DEFINE v == TipView
           u == Top(undos)
           k == UndoBlock(NewCache(v), u)
<1>1. v \in ViewType /\ DBView(db) \in ViewType
  BY TipViewType
<1>2. /\ undos \in Seq(UndoType) /\ ledger \in Seq(StateType)
      /\ Len(ledger) = Len(undos) + 1 /\ Len(undos) > 0
  BY EnvironmentAssumption DEF TypeInv, TypeOK, DisconnectBlock
<1>3. u \in UndoType
  BY <1>2, ButLastType
<1>4. undos' = ButLast(undos) /\ ledger' = ButLast(ledger) /\ db' = db
  BY DEF DisconnectBlock
<1>5. /\ undos' \in Seq(UndoType) /\ ledger' \in Seq(StateType)
      /\ Len(ledger') = Len(undos') + 1
  BY <1>2, <1>4, ButLastType
<1>6. /\ cache \in CacheType /\ FitsMMRs(cache, DBView(db)) /\ v = ViewOf(cache, DBView(db))
  BY DEF TypeInv, TypeOK, TipView
<1>7. cache' \in CacheType /\ FitsMMRs(cache', DBView(db))
  <2>1. CASE u.prev = NoHeader /\ UNCHANGED cache
    BY <1>6, <2>1
  <2>2. CASE u.prev # NoHeader /\ cache' = FlushToCache(cache, k)
    <3>1. k \in CacheType /\ FitsMMRs(k, v)
      <4> HIDE DEF v, u
      <4> QED  BY <1>1, <1>3, <2>2, UndoBlockType
    <3> HIDE DEF k, v
    <3> QED  BY <1>1, <1>6, <2>2, <3>1, FlushType
  <2> QED  BY <2>1, <2>2 DEF DisconnectBlock
<1> QED  BY <1>4, <1>5, <1>7 DEF TypeInv, TypeOK

\* and so after every step.
LEMMA NextTypeInv == TypeInv /\ [Next]_vars => TypeInv'
<1> SUFFICES ASSUME TypeInv, [Next]_vars PROVE TypeInv'
  OBVIOUS
<1>1. CASE \E b \in Offered : ConnectBlock(b)
  BY <1>1, ConnectTypeInv
<1>2. CASE DisconnectBlock
  BY <1>2, DisconnectTypeInv
<1>3. CASE FlushCache
  <2>1. /\ db' = FlushToDB(db, cache) /\ cache' = Flushed(cache)
        /\ undos' = undos /\ ledger' = ledger
    BY <1>3 DEF FlushCache
  <2>2. db \in DBType /\ cache \in CacheType /\ FitsMMRs(cache, DBView(db))
    BY DEF TypeInv, TypeOK
  <2>3. db' \in DBType /\ cache' \in CacheType /\ FitsMMRs(cache', DBView(db'))
    BY <2>1, <2>2, FlushDBType
  <2> QED  BY <2>1, <2>3 DEF TypeInv, TypeOK
<1>4. CASE FlushCacheThrows
  <2>1. /\ db' = [db EXCEPT !.hdr = cache.hdr]
        /\ cache' = cache /\ undos' = undos /\ ledger' = ledger
    BY <1>4 DEF FlushCacheThrows
  <2>2. db' \in DBType
    BY <2>1 DEF TypeInv, TypeOK, DBType, CacheType
  <2>3. DBView(db').kern = DBView(db).kern /\ DBView(db').outs = DBView(db).outs
    BY <2>1 DEF DBView, TypeInv, TypeOK, DBType
  <2> QED  BY <2>1, <2>2, <2>3 DEF TypeInv, TypeOK, FitsMMRs
<1>5. CASE UNCHANGED vars
  BY <1>5 DEF vars, TypeInv, TypeOK
<1> QED  BY <1>1, <1>2, <1>3, <1>4, <1>5 DEF Next

\* Every variable keeps its type, whatever blocks come: with re-created
\* outputs, after a flush that corrupts the files and after one that throws.
THEOREM TypesCorrect == Spec => []TypeOK
<1>1. TypeInv => TypeOK
  BY DEF TypeInv
<1> QED  BY <1>1, InitTypeInv, NextTypeInv, PTL DEF Spec
-----------------------------------------------------------------------------
(* Coins.                                                                  *)

\* The coins of commitment c in state s, as a view answers them.
CoinsOf(s, c) == IF c \in Unspent(s) THEN <<Newest(s, c)[2]>> ELSE <<>>

\* With sound coins, a commitment has one coin if it is unspent and none
\* otherwise.
LEMMA CoinsOfIs ==
    ASSUME NEW s \in StateType, CoinsSound(s), NEW c \in Commitment
    PROVE  /\ \A l : <<c, l>> \in s.utxos => CoinsOf(s, c) = <<l>>
           /\ CoinsOf(s, c) = <<>> \/ \E l \in Nat : CoinsOf(s, c) = <<l>> /\ <<c, l>> \in s.utxos
           /\ c \in Unspent(s) <=> CoinsOf(s, c) # <<>>
<1>1. \A u \in s.utxos : u \in Commitment \X Nat
  BY DEF StateType
<1>2. ASSUME c \in Unspent(s)
      PROVE  \E l \in Nat : CoinsOf(s, c) = <<l>> /\ <<c, l>> \in s.utxos
  <2>1. Newest(s, c) \in s.utxos /\ Newest(s, c)[1] = c
    BY <1>2, NewestIsCoin
  <2>2. Newest(s, c)[2] \in Nat /\ Newest(s, c) = <<c, Newest(s, c)[2]>>
    BY <1>1, <2>1
  <2> QED  BY <1>2, <2>1, <2>2 DEF CoinsOf
<1>3. c \notin Unspent(s) => CoinsOf(s, c) = <<>>
  BY DEF CoinsOf
<1>4. ASSUME NEW l, <<c, l>> \in s.utxos PROVE CoinsOf(s, c) = <<l>>
  <2>1. c \in Unspent(s)
    <3>1. <<c, l>>[1] = c
      OBVIOUS
    <3> QED  BY <1>4, <3>1 DEF Unspent
  <2>2. PICK m \in Nat : CoinsOf(s, c) = <<m>> /\ <<c, m>> \in s.utxos
    BY <1>2, <2>1
  <2>3. <<c, l>>[1] = c /\ <<c, m>>[1] = c
    OBVIOUS
  <2>4. <<c, l>> = <<c, m>>
    BY <1>4, <2>2, <2>3 DEF CoinsSound
  <2>5. l = m
    BY <2>4
  <2> QED  BY <2>2, <2>5
<1>5. c \in Unspent(s) => CoinsOf(s, c) # <<>>
  <2>1. \A l : <<l>> # <<>>
    OBVIOUS
  <2> QED  BY <1>2, <2>1
<1> QED  BY <1>2, <1>3, <1>4, <1>5

\* What a block does to the coins of one commitment.
LEMMA ApplyCoins ==
    ASSUME NEW s \in StateType, CoinsSound(s), NEW b \in Body, Extends(s, b),
           NEW c \in Commitment
    PROVE  CoinsOf(Apply(s, b), c) =
               IF c \in Outs(b) THEN <<Len(s.txos) + Position(b, c) - 1>>
               ELSE IF c \in b.ins THEN <<>> ELSE CoinsOf(s, c)
<1> DEFINE t == Apply(s, b)
<1>1. t \in StateType /\ CoinsSound(t)
  BY ApplyType, ApplySound
<1>2. t.utxos = (s.utxos \ {Newest(s, d) : d \in b.ins}) \cup Mined(b, Len(s.txos))
  BY ApplyFields
<1> HIDE DEF t
<1>3. \A u \in Mined(b, Len(s.txos)) : u[1] \in Outs(b)
  BY DEF Mined, Outs
<1>4. b.ins \subseteq Unspent(s)
  BY DEF Extends
<1>5. CASE c \in Outs(b)
  <2> DEFINE i == Position(b, c)
  <2>1. i \in DOMAIN b.outs /\ b.outs[i] = c
    BY <1>5, PositionType
  <2>2. <<b.outs[i], Len(s.txos) + i - 1>> \in Mined(b, Len(s.txos))
    <3> HIDE DEF i
    <3> QED  BY <2>1 DEF Mined
  <2>3. <<c, Len(s.txos) + i - 1>> \in t.utxos
    BY <1>2, <2>1, <2>2
  <2>4. CoinsOf(t, c) = <<Len(s.txos) + i - 1>>
    <3> HIDE DEF i
    <3> QED  BY <1>1, <2>3, CoinsOfIs
  <2> QED  BY <1>5, <2>4 DEF t
<1>6. CASE c \notin Outs(b) /\ c \in b.ins
  <2>1. c \notin Unspent(t)
    <3> SUFFICES ASSUME NEW u \in t.utxos, u[1] = c PROVE FALSE
      BY DEF Unspent
    <3>1. u \in s.utxos /\ u # Newest(s, c)
      BY <1>2, <1>3, <1>6
    <3>2. Newest(s, c) \in s.utxos /\ Newest(s, c)[1] = c
      BY <1>4, <1>6, NewestIsCoin
    <3> QED  BY <3>1, <3>2 DEF CoinsSound
  <2> QED  BY <1>6, <2>1 DEF CoinsOf, t
<1>7. CASE c \notin Outs(b) /\ c \notin b.ins
  <2>1. CASE c \in Unspent(s)
    <3> DEFINE u == Newest(s, c)
    <3>1. u \in s.utxos /\ u[1] = c
      BY <2>1, NewestIsCoin
    <3>2. \A d \in b.ins : Newest(s, d)[1] = d
      BY <1>4, NewestIsCoin
    <3>3. u \in t.utxos
      <4> HIDE DEF u
      <4> QED  BY <1>2, <1>7, <3>1, <3>2
    <3>4. u = <<c, u[2]>>
      <4> HIDE DEF u
      <4> QED  BY <3>1 DEF StateType
    <3>5. CoinsOf(t, c) = <<u[2]>>
      <4> HIDE DEF u
      <4>1. <<c, u[2]>> \in t.utxos
        BY <3>3, <3>4
      <4> QED  BY <1>1, <4>1, CoinsOfIs
    <3> QED  BY <1>7, <2>1, <3>5 DEF CoinsOf, t
  <2>2. CASE c \notin Unspent(s)
    <3>1. c \notin Unspent(t)
      <4> SUFFICES ASSUME NEW u \in t.utxos, u[1] = c PROVE FALSE
        BY DEF Unspent
      <4>1. u \in s.utxos
        BY <1>2, <1>3, <1>7
      <4> QED  BY <2>2, <4>1 DEF Unspent
    <3> QED  BY <1>7, <2>2, <3>1 DEF CoinsOf, t
  <2> QED  BY <2>1, <2>2
<1> QED  BY <1>5, <1>6, <1>7

\* View v shows the header, the coins and the leafset of state s.
Represents(v, s) ==
    /\ v.hdr = s.hdr
    /\ \A c \in Commitment : v.coins[c] = CoinsOf(s, c)
    /\ v.leafset = [bits |-> s.leafset, next |-> Len(s.txos)]
    /\ Len(v.outs) = Len(s.txos)

\* A view of a sound state is consistent.
LEMMA RepresentsConsistent ==
    ASSUME NEW s \in StateType, CoinsSound(s), NEW v, Represents(v, s)
    PROVE  Consistent(v)
<1>1. /\ v.leafset.bits = {u[2] : u \in s.utxos}
      /\ v.leafset.next = Len(s.txos)
      /\ \A c \in Commitment : v.coins[c] = CoinsOf(s, c)
  BY DEF Represents, CoinsSound
<1>2. s.txos \in Seq(Commitment) /\ \A u \in s.utxos : u \in Commitment \X Nat
  BY DEF StateType
<1>3. \A u \in s.utxos : u[2] < Len(s.txos) /\ s.txos[u[2] + 1] = u[1]
  BY DEF CoinsSound
<1>4. v.leafset.bits \subseteq 0 .. v.leafset.next - 1
  BY <1>1, <1>2, <1>3
<1>5. ASSUME NEW c \in Commitment
      PROVE  /\ Len(v.coins[c]) <= 1
             /\ v.coins[c] # <<>> => v.coins[c][1] \in v.leafset.bits
  <2>1. CASE CoinsOf(s, c) = <<>>
    BY <1>1, <2>1
  <2>2. CASE CoinsOf(s, c) # <<>>
    <3>1. PICK l \in Nat : CoinsOf(s, c) = <<l>> /\ <<c, l>> \in s.utxos
      BY <2>2, CoinsOfIs
    <3>2. <<c, l>>[2] = l
      OBVIOUS
    <3>3. l \in v.leafset.bits
      BY <1>1, <3>1, <3>2
    <3> QED  BY <1>1, <3>1, <3>3
  <2> QED  BY <2>1, <2>2
<1>6. ASSUME NEW l \in v.leafset.bits
      PROVE  \E c \in Commitment : v.coins[c] = <<l>>
  <2>1. PICK u \in s.utxos : u[2] = l
    BY <1>1
  <2>2. u[1] \in Commitment /\ u = <<u[1], l>>
    BY <1>2, <2>1
  <2>3. CoinsOf(s, u[1]) = <<l>>
    BY <2>1, <2>2, CoinsOfIs
  <2> QED  BY <1>1, <2>2, <2>3
<1>7. ASSUME NEW c \in Commitment, NEW d \in Commitment,
             v.coins[c] # <<>>, v.coins[c] = v.coins[d]
      PROVE  c = d
  <2>1. PICK l \in Nat : CoinsOf(s, c) = <<l>> /\ <<c, l>> \in s.utxos
    BY <1>1, <1>7, CoinsOfIs
  <2>2. PICK m \in Nat : CoinsOf(s, d) = <<m>> /\ <<d, m>> \in s.utxos
    BY <1>1, <1>7, CoinsOfIs
  <2>3. l = m
    BY <1>1, <1>7, <2>1, <2>2
  <2>4. /\ <<c, l>>[1] = c /\ <<c, l>>[2] = l
        /\ <<d, l>>[1] = d /\ <<d, l>>[2] = l
    OBVIOUS
  <2>5. s.txos[l + 1] = c
    BY <1>3, <2>1, <2>4
  <2>6. s.txos[l + 1] = d
    BY <1>3, <2>2, <2>3, <2>4
  <2> QED  BY <2>5, <2>6
<1> QED  BY <1>4, <1>5, <1>6, <1>7 DEF Consistent
-----------------------------------------------------------------------------
(* Blocks and undos.                                                       *)

\* The undo u leads from state t back to state s.
UndoOK(u, s, t) ==
    /\ u.prev = s.hdr
    /\ \A c \in Commitment :
          /\ u.spent[c] # NoCoin =>
                /\ c \notin u.added
                /\ CoinsOf(t, c) = <<>> /\ CoinsOf(s, c) = <<u.spent[c]>>
          /\ u.spent[c] = NoCoin /\ c \in u.added =>
                CoinsOf(t, c) # <<>> /\ CoinsOf(s, c) = <<>>
          /\ u.spent[c] = NoCoin /\ c \notin u.added =>
                CoinsOf(t, c) = CoinsOf(s, c)

\* The header of s commits to s.
Committed(s) == s.hdr = HeaderOf(s.txos, s.kernels, s.leafset)

\* What a header that commits to its state says of it.
LEMMA CommittedFields ==
    ASSUME NEW s \in StateType, Committed(s)
    PROVE  /\ s.hdr \in Header /\ s.hdr # NoHeader
           /\ s.hdr.numTXOs = Len(s.txos) /\ s.hdr.numKernels = Len(s.kernels)
           /\ s.hdr.output_root = s.txos /\ s.hdr.kernel_root = s.kernels
           /\ s.hdr.leafset_root[2] = s.leafset
<1>1. s.txos \in Seq(Commitment) /\ s.kernels \in Seq(Kernel) /\ s.leafset \in SUBSET Nat
  BY DEF StateType
<1>2. s.hdr \in Header /\ s.hdr # NoHeader
  BY <1>1, HeaderOfType DEF Committed
<1>3. \A x, y : <<x, y>>[2] = y
  OBVIOUS
<1> QED  BY <1>2, <1>3 DEF Committed, HeaderOf

\* A view that passes the check of a state's header has the state's leaves.
LEMMA ValidatedView ==
    ASSUME NEW s \in StateType, Committed(s), NEW v, ValidateMMRs(v, s.hdr)
    PROVE  v.outs = s.txos /\ v.kern = s.kernels /\ v.leafset.bits = s.leafset
<1>1. /\ v.outs = s.hdr.output_root /\ v.kern = s.hdr.kernel_root
      /\ s.hdr.leafset_root =
            <<(v.leafset.next + ByteBits - 1) \div ByteBits, v.leafset.bits>>
  BY DEF ValidateMMRs
<1>2. \A x, y : <<x, y>>[2] = y
  OBVIOUS
<1>3. s.hdr.leafset_root[2] = v.leafset.bits
  BY <1>1, <1>2
<1> QED  BY <1>1, <1>3, CommittedFields

\* Apply makes the header that commits to the state it makes.
LEMMA ApplyCommitted ==
    ASSUME NEW s, NEW b
    PROVE  Committed(Apply(s, b))
BY ApplyFields DEF Committed

\* A block applied in a new cache over a view of s gives a view of the state
\* after the block, and an undo that leads back.
LEMMA ConnectView ==
    ASSUME NEW s \in StateType, CoinsSound(s), NEW v \in ViewType, Represents(v, s),
           NEW b \in Body, Extends(s, b),
           NEW t, t = Apply(s, b),
           NEW k, k = ApplyBlock(NewCache(v), v, b, t.hdr),
           k \in CacheType, FitsMMRs(k, v),
           ValidateMMRs(ViewOf(k, v), t.hdr)
    PROVE  /\ Fits(k, v)
           /\ Represents(ViewOf(k, v), t)
           /\ ViewOf(k, v).outs = t.txos /\ ViewOf(k, v).kern = t.kernels
           /\ UndoOK(BlockUndo(v, b), s, t)
<1> DEFINE n == Len(v.outs)
           m == Len(b.outs)
<1>1. /\ k.hdr = t.hdr
      /\ \A c \in Commitment : k.upd[c] = BlockUpdate(v, b, c)
      /\ k.leafset = LeafSetAdd(
             LeafSetRemove(LeafSetCache(v.leafset), {Top(v.coins[c]) : c \in b.ins}),
             n, m)
  <2>1. k = [hdr     |-> t.hdr,
             upd     |-> [c \in Commitment |-> BlockUpdate(v, b, c)],
             leafset |-> LeafSetAdd(
                 LeafSetRemove(LeafSetCache(v.leafset),
                               {Top(v.coins[c]) : c \in b.ins}),
                 Len(v.outs), Len(b.outs)),
             kern    |-> [first |-> Len(v.kern), leaves |-> b.kernels],
             outs    |-> [first |-> Len(v.outs), leaves |-> b.outs]]
    BY ApplyBlockFields
  <2> QED  BY <2>1
<1>2. t \in StateType /\ CoinsSound(t) /\ Committed(t)
  BY ApplyType, ApplySound, ApplyCommitted
<1>3. /\ ViewOf(k, v).outs = t.txos /\ ViewOf(k, v).kern = t.kernels
      /\ ViewOf(k, v).leafset.bits = t.leafset
  BY <1>2, ValidatedView
<1>4. /\ b.outs \in Seq(Commitment) /\ s.txos \in Seq(Commitment)
      /\ t.txos = s.txos \o b.outs
      /\ b.ins \subseteq Commitment
  <2>1. s.txos \in Seq(Commitment)
    BY DEF StateType
  <2>2. t.txos = s.txos \o b.outs
    BY ApplyFields
  <2> QED  BY <2>1, <2>2, BodyType
<1>5. n \in Nat /\ m \in Nat /\ n = Len(s.txos) /\ Len(t.txos) = n + m
  BY <1>4, ConcatProperties DEF Represents
<1>6. ASSUME NEW c \in Commitment
      PROVE  /\ c \in b.ins => CoinsOf(s, c) # <<>> /\ c \notin Outs(b)
             /\ c \in Outs(b) => CoinsOf(s, c) = <<>>
             /\ v.coins[c] = CoinsOf(s, c)
             /\ CoinsOf(s, c) = <<>> \/ \E l \in Nat : CoinsOf(s, c) = <<l>>
  <2>1. /\ c \in b.ins => c \in Unspent(s)
        /\ c \in Outs(b) => c \notin Unspent(s)
    BY DEF Extends
  <2> QED  BY <2>1, CoinsOfIs DEF Represents
<1>7. ASSUME NEW c \in Commitment
      PROVE  /\ UpdateOK(v.coins[c], k.upd[c])
             /\ Replay(v.coins[c], k.upd[c]) = CoinsOf(t, c)
  <2>1. CoinsOf(t, c) = IF c \in Outs(b) THEN <<n + Position(b, c) - 1>>
                        ELSE IF c \in b.ins THEN <<>> ELSE CoinsOf(s, c)
    BY <1>5, ApplyCoins
  <2>2. CASE c \in Outs(b)
    <3> DEFINE l == n + Position(b, c) - 1
    <3>1. l \in Nat
      BY <1>5, <2>2, PositionType
    <3>2. k.upd[c] = AddAction(NoUpdate, l)
      BY <1>1, <1>6, <2>2 DEF BlockUpdate
    <3>3. v.coins[c] = <<>>
      BY <1>6, <2>2
    <3>4. CoinsOf(t, c) = <<l>>
      BY <2>1, <2>2
    <3> HIDE DEF l
    <3> QED  BY <3>1, <3>2, <3>3, <3>4, AddOK
  <2>3. CASE c \notin Outs(b) /\ c \in b.ins
    <3>1. PICK l \in Nat : v.coins[c] = <<l>>
      BY <1>6, <2>3
    <3>2. k.upd[c] = SpendAction(NoUpdate)
      BY <1>1, <2>3 DEF BlockUpdate
    <3>3. CoinsOf(t, c) = <<>>
      BY <2>1, <2>3
    <3> QED  BY <3>1, <3>2, <3>3, SpendOK
  <2>4. CASE c \notin Outs(b) /\ c \notin b.ins
    <3>1. k.upd[c] = NoUpdate
      BY <1>1, <2>4 DEF BlockUpdate
    <3>2. v.coins[c] \in Seq(Nat)
      BY DEF ViewType
    <3>3. CoinsOf(t, c) = v.coins[c]
      BY <1>6, <2>1, <2>4
    <3> QED  BY <3>1, <3>2, <3>3, NoUpdateOK
  <2> QED  BY <2>2, <2>3, <2>4
<1>8. Fits(k, v)
  BY <1>7 DEF Fits
<1>9. Represents(ViewOf(k, v), t)
  <2>1. ViewOf(k, v).hdr = t.hdr
    BY <1>1 DEF ViewOf
  <2>2. \A c \in Commitment : ViewOf(k, v).coins[c] = CoinsOf(t, c)
    BY <1>7 DEF ViewOf
  <2>3. ViewOf(k, v).leafset = [bits |-> t.leafset, next |-> Len(t.txos)]
    <3>1. v.leafset.next = n
      BY <1>5 DEF Represents
    <3>2. k.leafset.next = n + m
      <4> HIDE DEF n, m
      <4> QED  BY <1>1, <1>5, <3>1 DEF LeafSetAdd, LeafSetRemove, LeafSetCache
    <3>3. ViewOf(k, v).leafset = [bits |-> ViewOf(k, v).leafset.bits, next |-> k.leafset.next]
      BY DEF ViewOf, LeafSetView
    <3> QED  BY <1>3, <1>5, <3>2, <3>3
  <2> QED  BY <1>3, <2>1, <2>2, <2>3 DEF Represents
<1>10. UndoOK(BlockUndo(v, b), s, t)
  <2> DEFINE u == BlockUndo(v, b)
  <2>1. u.prev = s.hdr /\ u.added = Outs(b)
    BY DEF BlockUndo, Represents
  <2>2. ASSUME NEW c \in Commitment
        PROVE  u.spent[c] = IF c \in b.ins THEN Top(v.coins[c]) ELSE NoCoin
    BY DEF BlockUndo
  <2> HIDE DEF u
  <2>3. ASSUME NEW c \in Commitment
        PROVE  /\ u.spent[c] # NoCoin =>
                     /\ c \notin u.added
                     /\ CoinsOf(t, c) = <<>> /\ CoinsOf(s, c) = <<u.spent[c]>>
               /\ u.spent[c] = NoCoin /\ c \in u.added =>
                     CoinsOf(t, c) # <<>> /\ CoinsOf(s, c) = <<>>
               /\ u.spent[c] = NoCoin /\ c \notin u.added =>
                     CoinsOf(t, c) = CoinsOf(s, c)
    <3>1. CoinsOf(t, c) = IF c \in Outs(b) THEN <<n + Position(b, c) - 1>>
                          ELSE IF c \in b.ins THEN <<>> ELSE CoinsOf(s, c)
      BY <1>5, ApplyCoins
    <3>2. CASE c \in b.ins
      <4>1. PICK l \in Nat : v.coins[c] = <<l>>
        BY <1>6, <3>2
      <4>2. Top(<<l>>) = l
        BY DEF Top
      <4>3. u.spent[c] = l /\ u.spent[c] # NoCoin
        BY <2>2, <3>2, <4>1, <4>2 DEF NoCoin
      <4> QED  BY <1>6, <2>1, <3>1, <3>2, <4>1, <4>3
    <3>3. CASE c \notin b.ins
      <4>1. u.spent[c] = NoCoin
        BY <2>2, <3>3
      <4> QED  BY <1>6, <2>1, <3>1, <3>3, <4>1
    <3> QED  BY <3>2, <3>3
  <2> QED  BY <2>1, <2>3 DEF UndoOK, u
<1> QED  BY <1>3, <1>8, <1>9, <1>10

\* An undo that leads from t to s, in a new cache over a view of t, gives a
\* view of s.
LEMMA UndoView ==
    ASSUME NEW s \in StateType, CoinsSound(s), Committed(s),
           NEW t \in StateType, CoinsSound(t),
           NEW v \in ViewType, Represents(v, t),
           NEW u \in UndoType, UndoOK(u, s, t),
           NEW k, k = UndoBlock(NewCache(v), u),
           k \in CacheType, FitsMMRs(k, v),
           ValidateMMRs(ViewOf(k, v), u.prev)
    PROVE  /\ Fits(k, v)
           /\ Represents(ViewOf(k, v), s)
           /\ ViewOf(k, v).outs = s.txos /\ ViewOf(k, v).kern = s.kernels
<1>1. /\ k.hdr = u.prev
      /\ \A c \in Commitment : k.upd[c] = UndoUpdate(u, c)
      /\ k.leafset.next = u.prev.numTXOs
  <2>1. k = [hdr     |-> u.prev,
             upd     |-> [c \in Commitment |-> UndoUpdate(u, c)],
             leafset |-> LeafSetRewind(LeafSetCache(v.leafset), u.prev.numTXOs,
                             {u.spent[c] : c \in Commitment} \ {NoCoin}),
             kern    |-> MMRRewind(MMRCache(v.kern), u.prev.numKernels),
             outs    |-> MMRRewind(MMRCache(v.outs), u.prev.numTXOs)]
    BY UndoBlockFields
  <2> QED  BY <2>1 DEF LeafSetRewind
<1>2. u.prev = s.hdr
  BY DEF UndoOK
<1>3. /\ ViewOf(k, v).outs = s.txos /\ ViewOf(k, v).kern = s.kernels
      /\ ViewOf(k, v).leafset.bits = s.leafset
  BY <1>2, ValidatedView
<1>4. ASSUME NEW c \in Commitment
      PROVE  /\ UpdateOK(v.coins[c], k.upd[c])
             /\ Replay(v.coins[c], k.upd[c]) = CoinsOf(s, c)
  <2>1. /\ v.coins[c] = CoinsOf(t, c) /\ v.coins[c] \in Seq(Nat)
        /\ u.spent[c] \in Nat \cup {NoCoin}
    BY DEF Represents, ViewType, UndoType
  <2>2. CASE u.spent[c] # NoCoin
    <3>1. /\ c \notin u.added /\ v.coins[c] = <<>>
          /\ CoinsOf(s, c) = <<u.spent[c]>>
      BY <2>1, <2>2 DEF UndoOK
    <3>2. k.upd[c] = AddAction(NoUpdate, u.spent[c])
      BY <1>1, <2>2, <3>1 DEF UndoUpdate
    <3>3. u.spent[c] \in Nat
      BY <2>1, <2>2
    <3> QED  BY <3>1, <3>2, <3>3, AddOK
  <2>3. CASE u.spent[c] = NoCoin /\ c \in u.added
    <3>1. v.coins[c] # <<>> /\ CoinsOf(s, c) = <<>>
      BY <2>1, <2>3 DEF UndoOK
    <3>2. PICK l \in Nat : v.coins[c] = <<l>>
      BY <2>1, <3>1, CoinsOfIs
    <3>3. k.upd[c] = SpendAction(NoUpdate)
      BY <1>1, <2>3 DEF UndoUpdate
    <3> QED  BY <3>1, <3>2, <3>3, SpendOK
  <2>4. CASE u.spent[c] = NoCoin /\ c \notin u.added
    <3>1. v.coins[c] = CoinsOf(s, c)
      BY <2>1, <2>4 DEF UndoOK
    <3>2. k.upd[c] = NoUpdate
      BY <1>1, <2>4 DEF UndoUpdate
    <3> QED  BY <2>1, <3>1, <3>2, NoUpdateOK
  <2> QED  BY <2>2, <2>3, <2>4
<1>5. Fits(k, v)
  BY <1>4 DEF Fits
<1>6. Represents(ViewOf(k, v), s)
  <2>1. ViewOf(k, v).hdr = s.hdr
    BY <1>1, <1>2 DEF ViewOf
  <2>2. \A c \in Commitment : ViewOf(k, v).coins[c] = CoinsOf(s, c)
    BY <1>4 DEF ViewOf
  <2>3. ViewOf(k, v).leafset = [bits |-> ViewOf(k, v).leafset.bits, next |-> k.leafset.next]
    BY DEF ViewOf, LeafSetView
  <2>4. k.leafset.next = Len(s.txos)
    BY <1>1, <1>2, CommittedFields
  <2> QED  BY <1>3, <2>1, <2>2, <2>3, <2>4 DEF Represents
<1> QED  BY <1>3, <1>5, <1>6
-----------------------------------------------------------------------------
(* The coins of the node's view and of the database.                       *)

\* The network's chain: every state is sound, and a header above the genesis
\* commits to its state.
LedgerSound ==
    \A i \in 1 .. Len(ledger) :
        CoinsSound(ledger[i]) /\ (i > 1 => Committed(ledger[i]))

\* Every undo leads one state down.
UndosLead == \A i \in 1 .. Len(undos) : UndoOK(undos[i], ledger[i], ledger[i + 1])

\* The node's view shows the tip, the database some state the chain was in.
ViewsSound ==
    /\ Fits(cache, DBView(db))
    /\ Represents(TipView, Top(ledger))
    /\ \E s \in StateType : CoinsSound(s) /\ Represents(DBView(db), s)

CoinsInv == TypeInv /\ LedgerSound /\ UndosLead /\ ViewsSound

\* What the coins need of the network: no output re-created while it is
\* unspent, and the first block stays.
Network == UniqueOutputs /\ KeepBlocks >= 1

\* The empty database represents the genesis state.
LEMMA GenesisView ==
    /\ EmptyDB \in DBType /\ DBView(EmptyDB) \in ViewType
    /\ Represents(DBView(EmptyDB), Genesis)
<1>1. EmptyDB \in DBType
  <2>1. [c \in Commitment |-> NoCoin] \in [Commitment -> Nat \cup {NoCoin}]
    OBVIOUS
  <2> QED  BY <2>1 DEF EmptyDB, DBType
<1>2. \A c \in Commitment : CoinsOf(Genesis, c) = <<>>
  BY DEF CoinsOf, Genesis, State, Unspent
<1>3. DBView(EmptyDB) =
          [hdr |-> NoHeader, coins |-> [c \in Commitment |-> <<>>],
           leafset |-> [bits |-> {}, next |-> 0], kern |-> <<>>, outs |-> <<>>]
  BY DEF DBView, EmptyDB
<1>4. Genesis.hdr = NoHeader /\ Genesis.leafset = {} /\ Genesis.txos = <<>>
  BY DEF Genesis, State
<1>5. Represents(DBView(EmptyDB), Genesis)
  BY <1>2, <1>3, <1>4 DEF Represents
<1> QED  BY <1>1, <1>5, DBViewOfType

\* The coins are right at first,
LEMMA InitCoinsInv == Init => CoinsInv
<1> SUFFICES ASSUME Init PROVE CoinsInv
  OBVIOUS
<1>1. TypeInv
  BY InitTypeInv
<1>2. /\ db = EmptyDB /\ cache = NewCache(DBView(EmptyDB))
      /\ undos = <<>> /\ ledger = <<Genesis>>
  BY DEF Init
<1>3. Genesis \in StateType /\ CoinsSound(Genesis)
  BY GenesisSound
<1>4. LedgerSound /\ UndosLead
  BY <1>2, <1>3 DEF LedgerSound, UndosLead
<1>5. Fits(cache, DBView(db)) /\ TipView = DBView(EmptyDB)
  BY <1>2, GenesisView, NewCacheView DEF TipView
<1>6. Top(ledger) = Genesis
  BY <1>2 DEF Top
<1>7. ViewsSound
  BY <1>2, <1>3, <1>5, <1>6, GenesisView DEF ViewsSound
<1> QED  BY <1>1, <1>4, <1>7 DEF CoinsInv

\* The state of the temporary cache at the end of ConnectBlock.
LEMMA ConnectFacts ==
    ASSUME CoinsInv, Network, NEW b \in Offered, ConnectBlock(b),
           NEW v, v = TipView, NEW t, t = Apply(Top(ledger), b),
           NEW k, k = ApplyBlock(NewCache(v), v, b, t.hdr)
    PROVE  /\ k \in CacheType /\ v \in ViewType /\ DBView(db) \in ViewType
           /\ Fits(cache, DBView(db)) /\ v = ViewOf(cache, DBView(db))
           /\ cache \in CacheType
           /\ Fits(k, v)
           /\ Represents(ViewOf(k, v), t)
           /\ ViewOf(k, v).outs = t.txos /\ ViewOf(k, v).kern = t.kernels
           /\ UndoOK(BlockUndo(v, b), Top(ledger), t)
           /\ t \in StateType /\ CoinsSound(t) /\ Committed(t)
           /\ Extends(Top(ledger), b) /\ b \in Body
<1>1. TypeInv /\ LedgerSound /\ ViewsSound
  BY DEF CoinsInv
<1>2. b \in Body /\ Extends(Top(ledger), b)
  BY DEF Offered, Network
<1>3. v \in ViewType /\ DBView(db) \in ViewType /\ Top(ledger) \in StateType
  BY <1>1, TipViewType, LedgerTop
<1>4. CoinsSound(Top(ledger))
  BY <1>1, LedgerTop DEF LedgerSound
<1>5. t \in StateType /\ t.hdr \in Header /\ CoinsSound(t) /\ Committed(t)
  BY <1>2, <1>3, <1>4, ApplyType, ApplySound, ApplyCommitted
<1>6. /\ \A c \in b.ins : v.coins[c] # <<>>
      /\ ValidateMMRs(ViewOf(k, v), t.hdr)
  BY DEF ConnectBlock, Connects, CanSpend
<1>7. k \in CacheType /\ FitsMMRs(k, v)
  BY <1>2, <1>3, <1>5, <1>6, ApplyBlockType
<1>8. Represents(v, Top(ledger)) /\ Fits(cache, DBView(db))
  BY <1>1 DEF ViewsSound
<1>9. /\ Fits(k, v)
      /\ Represents(ViewOf(k, v), t)
      /\ ViewOf(k, v).outs = t.txos /\ ViewOf(k, v).kern = t.kernels
      /\ UndoOK(BlockUndo(v, b), Top(ledger), t)
  BY <1>2, <1>3, <1>4, <1>5, <1>6, <1>7, <1>8, ConnectView
<1>10. v = ViewOf(cache, DBView(db)) /\ cache \in CacheType
  BY <1>1 DEF TipView, TypeInv, TypeOK
<1> QED  BY <1>2, <1>3, <1>5, <1>7, <1>8, <1>9, <1>10

\* What Append does to a list.
LEMMA AppendType ==
    ASSUME NEW S, NEW x \in Seq(S), NEW e \in S
    PROVE  /\ Append(x, e) \in Seq(S) /\ Len(Append(x, e)) = Len(x) + 1
           /\ \A i \in 1 .. Len(x) : Append(x, e)[i] = x[i]
           /\ Append(x, e)[Len(x) + 1] = e
           /\ Top(Append(x, e)) = e
           /\ ButLast(Append(x, e)) = x
<1> DEFINE y == Append(x, e)
<1>1. /\ y \in Seq(S) /\ Len(y) = Len(x) + 1
      /\ \A i \in 1 .. Len(x) : y[i] = x[i]
      /\ y[Len(x) + 1] = e
  OBVIOUS
<1> HIDE DEF y
<1>2. Top(y) = e
  BY <1>1 DEF Top
<1>3. ButLast(y) = SubSeq(y, 1, Len(x))
  BY <1>1 DEF ButLast
<1>4. SubSeq(y, 1, Len(x)) = x
  BY <1>1
<1> QED  BY <1>1, <1>2, <1>3, <1>4 DEF y

\* after a block is connected,
LEMMA ConnectCoinsInv ==
    ASSUME CoinsInv, Network, NEW b \in Offered, ConnectBlock(b)
    PROVE  CoinsInv'
<1> DEFINE v == TipView
           t == Apply(Top(ledger), b)
           k == ApplyBlock(NewCache(v), v, b, t.hdr)
<1>1. /\ k \in CacheType /\ v \in ViewType /\ DBView(db) \in ViewType
      /\ Fits(cache, DBView(db)) /\ v = ViewOf(cache, DBView(db))
      /\ cache \in CacheType
      /\ Fits(k, v) /\ Represents(ViewOf(k, v), t)
      /\ UndoOK(BlockUndo(v, b), Top(ledger), t)
      /\ t \in StateType /\ CoinsSound(t) /\ Committed(t)
  BY ConnectFacts
<1>2. /\ cache' = FlushToCache(cache, k)
      /\ undos' = Append(undos, BlockUndo(v, b))
      /\ ledger' = Append(ledger, t)
      /\ db' = db
  BY DEF ConnectBlock
<1>3. TypeInv /\ LedgerSound /\ UndosLead /\ ViewsSound
  BY DEF CoinsInv
<1>4. TypeInv'
  BY <1>3, ConnectTypeInv
<1> DEFINE u == BlockUndo(v, b)
<1>5. UndoOK(u, Top(ledger), t) /\ undos' = Append(undos, u)
  BY <1>1, <1>2
<1> HIDE DEF v, t, k, u
<1>6. /\ undos \in Seq(UndoType) /\ ledger \in Seq(StateType)
      /\ Len(ledger) = Len(undos) + 1
  BY <1>3 DEF TypeInv, TypeOK
<1>7. /\ Len(ledger') = Len(ledger) + 1 /\ ledger'[Len(ledger) + 1] = t
      /\ \A i \in 1 .. Len(ledger) : ledger'[i] = ledger[i]
      /\ Top(ledger') = t
  BY <1>1, <1>2, <1>6, AppendType
<1>8. LedgerSound'
  BY <1>1, <1>3, <1>6, <1>7 DEF LedgerSound
<1>9. UndosLead'
  <2>1. /\ Len(undos') = Len(undos) + 1 /\ undos'[Len(undos) + 1] = u
        /\ \A i \in 1 .. Len(undos) : undos'[i] = undos[i]
    <3>1. undos' = Append(undos, u)
      BY <1>5
    <3> QED  BY <1>6, <3>1
  <2>2. Top(ledger) = ledger[Len(undos) + 1]
    BY <1>6 DEF Top
  <2>3. UndoOK(undos'[Len(undos) + 1], ledger'[Len(undos) + 1], ledger'[Len(undos) + 2])
    BY <1>5, <1>6, <1>7, <2>1, <2>2
  <2>4. \A i \in 1 .. Len(undos) : UndoOK(undos'[i], ledger'[i], ledger'[i + 1])
    BY <1>3, <1>6, <1>7, <2>1 DEF UndosLead
  <2>5. \A i \in 1 .. Len(undos') : i \in 1 .. Len(undos) \/ i = Len(undos) + 1
    BY <1>6, <2>1
  <2> QED  BY <1>6, <2>3, <2>4, <2>5 DEF UndosLead
<1>10. ViewsSound'
  <2>1. /\ Fits(cache', DBView(db))
        /\ ViewOf(cache', DBView(db)) = ViewOf(k, v)
    BY <1>1, <1>2, FlushView
  <2>2. TipView' = ViewOf(k, v)
    BY <1>2, <2>1 DEF TipView
  <2> QED  BY <1>1, <1>2, <1>3, <1>7, <2>1, <2>2 DEF ViewsSound
<1> QED  BY <1>4, <1>8, <1>9, <1>10 DEF CoinsInv

\* The state of the temporary cache at the end of DisconnectBlock.
LEMMA DisconnectFacts ==
    ASSUME CoinsInv, Network, DisconnectBlock,
           NEW v, v = TipView, NEW u, u = Top(undos),
           NEW s, s = Top(ButLast(ledger)),
           NEW k, k = UndoBlock(NewCache(v), u)
    PROVE  /\ cache' = FlushToCache(cache, k)
           /\ k \in CacheType /\ v \in ViewType /\ DBView(db) \in ViewType
           /\ Fits(cache, DBView(db)) /\ v = ViewOf(cache, DBView(db))
           /\ cache \in CacheType
           /\ Fits(k, v)
           /\ Represents(ViewOf(k, v), s)
           /\ ViewOf(k, v).outs = s.txos /\ ViewOf(k, v).kern = s.kernels
           /\ Len(ledger) >= 3
<1> DEFINE n == Len(undos)
<1>1. TypeInv /\ LedgerSound /\ UndosLead /\ ViewsSound
  BY DEF CoinsInv
<1>2. /\ undos \in Seq(UndoType) /\ ledger \in Seq(StateType)
      /\ Len(ledger) = n + 1 /\ n \in Nat /\ n >= 2
  BY <1>1, EnvironmentAssumption DEF TypeInv, TypeOK, DisconnectBlock, Network
<1>3. u = undos[n] /\ u \in UndoType /\ Top(ledger) = ledger[n + 1]
  BY <1>2 DEF Top
<1>4. s = ledger[n] /\ s \in StateType
  <2>1. /\ Len(ButLast(ledger)) = n /\ ButLast(ledger)[n] = ledger[n]
        /\ ledger[n] \in StateType
    <3> HIDE DEF n
    <3>1. Len(ledger) > 0 /\ n \in 1 .. Len(ledger) - 1
      BY <1>2
    <3> QED  BY <1>2, <3>1, ButLastType
  <2> QED  BY <2>1 DEF Top
<1> HIDE DEF n
<1>5. CoinsSound(s) /\ Committed(s) /\ CoinsSound(ledger[n + 1])
  BY <1>1, <1>2, <1>4 DEF LedgerSound
<1>6. UndoOK(u, s, ledger[n + 1])
  BY <1>1, <1>2, <1>3, <1>4 DEF UndosLead, n
<1>7. u.prev = s.hdr /\ u.prev \in Header /\ u.prev # NoHeader
  BY <1>4, <1>5, <1>6, CommittedFields DEF UndoOK
<1>8. v \in ViewType /\ DBView(db) \in ViewType /\ ledger[n + 1] \in StateType
  BY <1>1, <1>2, TipViewType
<1>9. k \in CacheType /\ FitsMMRs(k, v)
  BY <1>3, <1>7, <1>8, UndoBlockType
<1>10. cache' = FlushToCache(cache, k) /\ ValidateMMRs(ViewOf(k, v), u.prev)
  BY <1>7 DEF DisconnectBlock, Disconnects
<1>11. Represents(v, ledger[n + 1]) /\ Fits(cache, DBView(db))
  BY <1>1, <1>3 DEF ViewsSound
<1>12. /\ Fits(k, v)
       /\ Represents(ViewOf(k, v), s)
       /\ ViewOf(k, v).outs = s.txos /\ ViewOf(k, v).kern = s.kernels
  <2> DEFINE t == ledger[n + 1]
  <2>1. t \in StateType /\ CoinsSound(t) /\ Represents(v, t) /\ UndoOK(u, s, t)
    BY <1>5, <1>6, <1>8, <1>11
  <2> HIDE DEF t
  <2> QED  BY <1>3, <1>4, <1>5, <1>8, <1>9, <1>10, <2>1, UndoView
<1>13. v = ViewOf(cache, DBView(db)) /\ cache \in CacheType
  BY <1>1 DEF TipView, TypeInv, TypeOK
<1> QED  BY <1>2, <1>8, <1>9, <1>10, <1>11, <1>12, <1>13

\* after a block is disconnected,
LEMMA DisconnectCoinsInv ==
    ASSUME CoinsInv, Network, DisconnectBlock
    PROVE  CoinsInv'
<1> DEFINE v == TipView
           u == Top(undos)
           s == Top(ButLast(ledger))
           k == UndoBlock(NewCache(v), u)
<1>1. /\ cache' = FlushToCache(cache, k)
      /\ k \in CacheType /\ v \in ViewType /\ DBView(db) \in ViewType
      /\ Fits(cache, DBView(db)) /\ v = ViewOf(cache, DBView(db))
      /\ cache \in CacheType
      /\ Fits(k, v) /\ Represents(ViewOf(k, v), s)
      /\ Len(ledger) >= 3
  BY DisconnectFacts
<1>2. db' = db /\ undos' = ButLast(undos) /\ ledger' = ButLast(ledger)
  BY DEF DisconnectBlock
<1> HIDE DEF v, u, k
<1>3. TypeInv /\ LedgerSound /\ UndosLead /\ ViewsSound
  BY DEF CoinsInv
<1>4. TypeInv'
  BY <1>3, DisconnectTypeInv
<1>5. /\ undos \in Seq(UndoType) /\ ledger \in Seq(StateType)
      /\ Len(ledger) = Len(undos) + 1
  BY <1>3 DEF TypeInv, TypeOK
<1>6. /\ Len(ledger') = Len(ledger) - 1
      /\ \A i \in 1 .. Len(ledger) - 1 : ledger'[i] = ledger[i]
  BY <1>1, <1>2, <1>5, ButLastType
<1>7. /\ Len(undos') = Len(undos) - 1
      /\ \A i \in 1 .. Len(undos) - 1 : undos'[i] = undos[i]
  BY <1>1, <1>2, <1>5, ButLastType
<1>8. LedgerSound'
  BY <1>1, <1>3, <1>5, <1>6 DEF LedgerSound
<1>9. UndosLead'
  BY <1>1, <1>3, <1>5, <1>6, <1>7 DEF UndosLead
<1>10. ViewsSound'
  <2>1. /\ Fits(cache', DBView(db))
        /\ ViewOf(cache', DBView(db)) = ViewOf(k, v)
    BY <1>1, FlushView
  <2>2. TipView' = ViewOf(k, v)
    BY <1>2, <2>1 DEF TipView
  <2>3. Top(ledger') = s
    BY <1>2
  <2> QED  BY <1>1, <1>2, <1>3, <2>1, <2>2, <2>3 DEF ViewsSound
<1> QED  BY <1>4, <1>8, <1>9, <1>10 DEF CoinsInv

\* A flush into the database gets through and keeps the view's coins.
LEMMA FlushFacts ==
    ASSUME CoinsInv
    PROVE  /\ ~WriteBatchThrows(db, cache)
           /\ FlushCache =>
                 /\ DBView(db').hdr = TipView.hdr
                 /\ DBView(db').coins = TipView.coins
                 /\ DBView(db').leafset = TipView.leafset
                 /\ Len(DBView(db').outs) = Len(TipView.outs)
                 /\ Extending(cache.kern, db.kern) => DBView(db').kern = TipView.kern
                 /\ Extending(cache.outs, db.outs) => DBView(db').outs = TipView.outs
                 /\ Fits(cache', DBView(db'))
                 /\ TipView' = DBView(db')
<1> DEFINE v == TipView
           e == FlushToDB(db, cache)
<1>1. /\ db \in DBType /\ cache \in CacheType /\ DBView(db) \in ViewType
      /\ Fits(cache, DBView(db)) /\ FitsMMRs(cache, DBView(db))
      /\ v = ViewOf(cache, DBView(db))
      /\ Represents(v, Top(ledger)) /\ Top(ledger) \in StateType
      /\ CoinsSound(Top(ledger))
  BY TipViewType, LedgerTop
     DEF CoinsInv, TypeInv, TypeOK, ViewsSound, LedgerSound, TipView
<1>2. v.leafset.bits \subseteq 0 .. v.leafset.next - 1
  BY <1>1, RepresentsConsistent DEF Consistent
<1>3. /\ ~WriteBatchThrows(db, cache)
      /\ e \in DBType
      /\ DBView(e).hdr = v.hdr /\ DBView(e).coins = v.coins
      /\ DBView(e).leafset = v.leafset
      /\ Len(DBView(e).kern) = NumLeaves(cache.kern)
      /\ Len(DBView(e).outs) = NumLeaves(cache.outs)
      /\ Extending(cache.kern, db.kern) => DBView(e).kern = v.kern
      /\ Extending(cache.outs, db.outs) => DBView(e).outs = v.outs
  <2> HIDE DEF v
  <2> QED  BY <1>1, <1>2, FlushDB DEF Extending
<1>4. Len(v.outs) = NumLeaves(cache.outs)
  BY <1>1, ViewOfType
<1>5. v.hdr = cache.hdr /\ v.leafset.next = cache.leafset.next
  BY <1>1 DEF ViewOf, LeafSetView
<1>6. DBView(e) \in ViewType
  BY <1>3, DBViewOfType
<1> HIDE DEF e
<1>7. /\ Fits(Flushed(cache), DBView(e))
      /\ ViewOf(Flushed(cache), DBView(e)) = DBView(e)
  <2> DEFINE w == DBView(e)
  <2>1. /\ w \in ViewType /\ w.hdr = cache.hdr
        /\ w.leafset.next = cache.leafset.next
        /\ Len(w.kern) = NumLeaves(cache.kern) /\ Len(w.outs) = NumLeaves(cache.outs)
    BY <1>3, <1>5, <1>6
  <2> HIDE DEF w
  <2>2. Fits(Flushed(cache), w) /\ ViewOf(Flushed(cache), w) = w
    BY <1>1, <2>1, FlushedView
  <2> QED  BY <2>2 DEF w
<1>8. FlushCache => db' = e /\ cache' = Flushed(cache)
  BY DEF FlushCache, e
<1>9. FlushCache => TipView' = DBView(db')
  BY <1>7, <1>8 DEF TipView
<1> QED  BY <1>3, <1>4, <1>7, <1>8, <1>9

\* after a flush,
LEMMA FlushCoinsInv ==
    ASSUME CoinsInv, FlushCache
    PROVE  CoinsInv'
<1> DEFINE v == TipView
           s == Top(ledger)
<1>1. /\ DBView(db').hdr = v.hdr
      /\ DBView(db').coins = v.coins
      /\ DBView(db').leafset = v.leafset
      /\ Len(DBView(db').outs) = Len(v.outs)
      /\ Fits(cache', DBView(db'))
      /\ TipView' = DBView(db')
  BY FlushFacts
<1>2. TypeInv /\ LedgerSound /\ UndosLead /\ ViewsSound
  BY DEF CoinsInv
<1>3. undos' = undos /\ ledger' = ledger
  BY DEF FlushCache
<1>4. TypeInv'
  <2>1. Next
    BY DEF Next
  <2> QED  BY <1>2, <2>1, NextTypeInv
<1>5. s \in StateType /\ CoinsSound(s) /\ Represents(v, s)
  BY <1>2, LedgerTop DEF LedgerSound, ViewsSound
<1> HIDE DEF v, s
<1>6. Represents(DBView(db'), s)
  BY <1>1, <1>5 DEF Represents
<1>7. ViewsSound'
  BY <1>1, <1>3, <1>5, <1>6 DEF ViewsSound, s
<1>8. LedgerSound' /\ UndosLead'
  BY <1>2, <1>3 DEF LedgerSound, UndosLead
<1> QED  BY <1>4, <1>7, <1>8 DEF CoinsInv

\* and so after every step,
LEMMA NextCoinsInv == CoinsInv /\ Network /\ [Next]_vars => CoinsInv'
<1> SUFFICES ASSUME CoinsInv, Network, [Next]_vars PROVE CoinsInv'
  OBVIOUS
<1>1. CASE \E b \in Offered : ConnectBlock(b)
  BY <1>1, ConnectCoinsInv
<1>2. CASE DisconnectBlock
  BY <1>2, DisconnectCoinsInv
<1>3. CASE FlushCache
  BY <1>3, FlushCoinsInv
<1>4. CASE FlushCacheThrows
  BY <1>4, FlushFacts DEF FlushCacheThrows
<1>5. CASE UNCHANGED vars
  BY <1>5 DEF vars, CoinsInv, TypeInv, TypeOK, LedgerSound, UndosLead, ViewsSound, TipView
<1> QED  BY <1>1, <1>2, <1>3, <1>4, <1>5 DEF Next

\* in every state.
LEMMA CoinsInvariance == Network => (Spec => []CoinsInv)
<1>1. SUFFICES ASSUME Network PROVE Spec => []CoinsInv
  OBVIOUS
<1>2. CoinsInv /\ [Next]_vars => CoinsInv'
  BY <1>1, NextCoinsInv
<1> QED  BY <1>2, InitCoinsInv, PTL DEF Spec

\* Whatever blocks, reorgs and flushes come, also flushes that leave wrong
\* hashes in the files: the coins the node sees and the leafset that records
\* them agree, in its view and in the database.
THEOREM CoinsAndLeafset == Network => (Spec => []CoinsMatchLeafset)
<1>1. SUFFICES ASSUME Network PROVE Spec => []CoinsMatchLeafset
  OBVIOUS
<1>2. ASSUME CoinsInv PROVE CoinsMatchLeafset
  <2>1. TypeInv /\ LedgerSound /\ ViewsSound
    BY <1>2 DEF CoinsInv
  <2>2. Consistent(TipView)
    BY <2>1, LedgerTop, RepresentsConsistent DEF LedgerSound, ViewsSound
  <2>3. Consistent(DBView(db))
    <3>1. PICK s \in StateType : CoinsSound(s) /\ Represents(DBView(db), s)
      BY <2>1 DEF ViewsSound
    <3> DEFINE v == DBView(db)
    <3>2. Represents(v, s)
      BY <3>1
    <3> HIDE DEF v
    <3>3. Consistent(v)
      BY <3>1, <3>2, RepresentsConsistent
    <3> QED  BY <3>3 DEF v
  <2> QED  BY <2>2, <2>3 DEF CoinsMatchLeafset
<1> QED  BY <1>1, <1>2, CoinsInvariance, PTL

\* The node never reads past the coins of the database, and no flush throws
\* UTXO_MISSING.
THEOREM ReadsAreSafe == Network => (Spec => []NoUnderflow)
<1>1. SUFFICES ASSUME Network PROVE Spec => []NoUnderflow
  OBVIOUS
<1>2. ASSUME CoinsInv PROVE NoUnderflow
  <2>1. /\ \A c \in Commitment : UpdateOK(DBView(db).coins[c], cache.upd[c])
        /\ DBView(db) \in ViewType /\ cache \in CacheType
    BY <1>2, TipViewType DEF CoinsInv, ViewsSound, Fits, TypeInv, TypeOK
  <2>2. ASSUME NEW c \in Commitment
        PROVE  ~(cache.upd[c].pops > Len(DBView(db).coins[c]))
    <3> DEFINE x == DBView(db).coins[c]
               p == cache.upd[c].pops
    <3>1. x \in Seq(Nat) /\ p \in Nat /\ p <= Len(x)
      BY <2>1 DEF ViewType, CacheType, UpdateType, UpdateOK
    <3> HIDE DEF x, p
    <3>2. ~(p > Len(x))
      BY <3>1
    <3> QED  BY <3>2 DEF x, p
  <2> QED  BY <2>2 DEF NoUnderflow, Underflow
<1> QED  BY <1>1, <1>2, CoinsInvariance, PTL

\* What HasCoinInCache says no is spent or in the database, and what it says yes is
\* unspent: the last action on a commitment decides what remains.
THEOREM NewCoinsKnown == Network => (Spec => []CacheKnowsNewCoins)
<1>1. SUFFICES ASSUME Network PROVE Spec => []CacheKnowsNewCoins
  OBVIOUS
<1>2. ASSUME CoinsInv PROVE CacheKnowsNewCoins
  <2>1. /\ \A c \in Commitment : UpdateOK(DBView(db).coins[c], cache.upd[c])
        /\ DBView(db) \in ViewType /\ cache \in CacheType
    BY <1>2, TipViewType DEF CoinsInv, ViewsSound, Fits, TypeInv, TypeOK
  <2>2. ASSUME NEW c \in Commitment
        PROVE  IF HasCoinInCache(cache, c)
               THEN TipView.coins[c] = <<cache.upd[c].last>>
               ELSE TipView.coins[c] \in {<<>>, DBView(db).coins[c]}
    <3> DEFINE x == DBView(db).coins[c]
               u == cache.upd[c]
    <3>1. x \in Seq(Nat) /\ u \in UpdateType /\ UpdateOK(x, u)
      BY <2>1 DEF ViewType, CacheType
    <3>2. TipView.coins[c] = Replay(x, u)
      BY DEF TipView, ViewOf
    <3> HIDE DEF x, u
    <3>3. CASE u.last = NoAction
      <4>1. u.pops = 0 /\ u.pushes = <<>>
        BY <3>1, <3>3 DEF UpdateOK
      <4>2. Replay(x, u) = x
        <5>1. SubSeq(x, 1, Len(x)) \o <<>> = x
          BY <3>1, ConcatProperties
        <5>2. Len(x) - 0 = Len(x)
          BY <3>1
        <5> QED  BY <4>1, <5>1, <5>2 DEF Replay
      <4> QED  BY <3>2, <3>3, <4>2 DEF HasCoinInCache, x, u
    <3>4. CASE u.last = NoCoin
      <4>1. Replay(x, u) = <<>>
        BY <3>1, <3>4 DEF UpdateOK
      <4> QED  BY <3>2, <3>4, <4>1 DEF HasCoinInCache, u
    <3>5. CASE u.last \in Nat
      <4>1. Replay(x, u) = <<u.last>>
        BY <3>1, <3>5 DEF UpdateOK
      <4>2. u.last # NoAction /\ u.last # NoCoin
        BY <3>5 DEF NoAction, NoCoin
      <4> QED  BY <3>2, <4>1, <4>2 DEF HasCoinInCache, u
    <3>6. u.last \in Nat \cup {NoAction, NoCoin}
      BY <3>1, UpdateFields
    <3> QED  BY <3>3, <3>4, <3>5, <3>6
  <2> QED  BY <2>2 DEF CacheKnowsNewCoins
<1> QED  BY <1>1, <1>2, CoinsInvariance, PTL

\* A flush moves coins to the database and changes none that the node sees.
THEOREM FlushIsSilent == Network => (Spec => FlushKeepsCoins)
<1>1. SUFFICES ASSUME Network PROVE Spec => FlushKeepsCoins
  OBVIOUS
<1> DEFINE Kept == /\ TipView'.coins = TipView.coins
                   /\ TipView'.leafset = TipView.leafset
<1>2. CoinsInv /\ [Next]_vars => [db' # db => Kept]_vars
  <2> SUFFICES ASSUME CoinsInv, Next, db' # db PROVE Kept
    OBVIOUS
  <2>1. FlushCache
    BY FlushFacts DEF Next, ConnectBlock, DisconnectBlock, FlushCacheThrows
  <2>2. /\ DBView(db').coins = TipView.coins /\ DBView(db').leafset = TipView.leafset
        /\ TipView' = DBView(db')
    BY <2>1, FlushFacts
  <2> QED  BY <2>2
<1>3. Spec => [][db' # db => Kept]_vars
  BY <1>1, <1>2, CoinsInvariance, PTL DEF Spec
<1> QED  BY <1>3 DEF FlushKeepsCoins
-----------------------------------------------------------------------------
(* The end of the leafset, with re-created outputs and corrupting flushes. *)

\* The leafset of a view ends where its outputs end.
EndsAligned(v) ==
    /\ v.leafset.next = Len(v.outs)
    /\ v.leafset.bits \subseteq 0 .. v.leafset.next - 1

\* No undo brings back a leaf that the block below it does not have.
BringsBackBelow(u) ==
    u.prev # NoHeader =>
        \A c \in Commitment : u.spent[c] # NoCoin => u.spent[c] < u.prev.numTXOs

EndsInv ==
    /\ TypeInv
    /\ EndsAligned(TipView) /\ EndsAligned(DBView(db))
    /\ cache.hdr # NoHeader => cache.hdr.numTXOs = Len(TipView.outs)
    /\ \A i \in 1 .. Len(undos) : BringsBackBelow(undos[i])

\* A temporary cache flushed into the node's: what it showed, the node shows.
LEMMA FlushedTip ==
    ASSUME TypeInv, NEW k \in CacheType, FitsMMRs(k, TipView),
           cache' = FlushToCache(cache, k), db' = db,
           EndsAligned(ViewOf(k, TipView))
    PROVE  /\ EndsAligned(TipView') /\ DBView(db') = DBView(db)
           /\ TipView'.outs = ViewOf(k, TipView).outs /\ cache'.hdr = k.hdr
<1>1. /\ DBView(db) \in ViewType /\ cache \in CacheType
      /\ FitsMMRs(cache, DBView(db)) /\ TipView = ViewOf(cache, DBView(db))
  BY TipViewType DEF TypeInv, TypeOK, TipView
<1>2. Leaves(FlushToCache(cache, k).outs, DBView(db).outs) = ViewOf(k, TipView).outs
  BY <1>1, FlushType
<1>3. /\ TipView'.outs = Leaves(cache'.outs, DBView(db).outs)
      /\ TipView'.leafset = LeafSetView(cache'.leafset, DBView(db).leafset)
  BY DEF TipView, ViewOf
<1>4. cache'.leafset = LeafSetFlush(cache.leafset, k.leafset) /\ cache'.hdr = k.hdr
  BY DEF FlushToCache
<1>5. /\ TipView.leafset = LeafSetView(cache.leafset, DBView(db).leafset)
      /\ ViewOf(k, TipView).leafset = LeafSetView(k.leafset, TipView.leafset)
  BY DEF TipView, ViewOf
<1>6. TipView'.leafset = ViewOf(k, TipView).leafset
  BY <1>3, <1>4, <1>5, LeafSetFlushView
<1>7. TipView'.outs = ViewOf(k, TipView).outs
  BY <1>2, <1>3
<1> QED  BY <1>4, <1>6, <1>7 DEF EndsAligned

\* The cache flushed into the database: both show what the cache showed.
LEMMA FlushedEnds ==
    ASSUME NEW d \in DBType, NEW k \in CacheType, FitsMMRs(k, DBView(d)),
           EndsAligned(ViewOf(k, DBView(d)))
    PROVE  /\ EndsAligned(DBView(FlushToDB(d, k)))
           /\ EndsAligned(ViewOf(Flushed(k), DBView(FlushToDB(d, k))))
           /\ Len(ViewOf(Flushed(k), DBView(FlushToDB(d, k))).outs)
                = Len(ViewOf(k, DBView(d)).outs)
<1> DEFINE e == FlushToDB(d, k)
           v == ViewOf(k, DBView(d))
           w == ViewOf(Flushed(k), DBView(e))
<1>1. /\ DBView(d) \in ViewType /\ DBView(d).outs = d.outs
      /\ DBView(d).leafset = d.leafset
      /\ d.outs \in Seq(Commitment) /\ d.leafset \in [bits : SUBSET Nat, next : Nat]
      /\ k.outs \in [first : Nat, leaves : Seq(Commitment)]
      /\ k.leafset \in [on : SUBSET Nat, off : SUBSET Nat, next : Nat]
  BY DBViewOfType DEF DBType, CacheType
<1>2. Len(v.outs) = NumLeaves(k.outs)
  BY <1>1, ViewOfType
<1>3. /\ e \in DBType /\ Flushed(k) \in CacheType /\ FitsMMRs(Flushed(k), DBView(e))
  BY FlushDBType
<1>4. DBView(e).outs = e.outs /\ DBView(e).leafset = e.leafset /\ DBView(e) \in ViewType
  BY <1>3, DBViewOfType
<1>5. Len(e.outs) = NumLeaves(k.outs)
  <2>1. e.outs = HashFileWrite(d.outs, k.outs)
    BY DEF FlushToDB
  <2>2. k.outs.first <= Len(d.outs)
    BY <1>1 DEF FitsMMRs
  <2> HIDE DEF e
  <2> QED  BY <1>1, <2>1, <2>2, HashFileLength
<1>6. v.leafset = LeafSetView(k.leafset, d.leafset)
  BY <1>1 DEF ViewOf
<1>7. v.leafset.next = k.leafset.next
  BY <1>6 DEF LeafSetView
<1>8. e.leafset = v.leafset
  <2>1. e.leafset = LeafSetWrite(d.leafset, k.leafset)
    BY DEF FlushToDB
  <2>2. LeafSetView(k.leafset, d.leafset).bits \subseteq 0 .. k.leafset.next - 1
    BY <1>6, <1>7 DEF EndsAligned
  <2> HIDE DEF e, v
  <2> QED  BY <1>1, <1>6, <2>1, <2>2, LeafSetWriteView
<1>9. w.leafset = v.leafset
  <2>1. Flushed(k).leafset = [on |-> {}, off |-> {}, next |-> k.leafset.next]
    BY DEF Flushed
  <2>2. w.leafset = LeafSetView(Flushed(k).leafset, DBView(e).leafset)
    BY DEF ViewOf
  <2>3. v.leafset = [bits |-> v.leafset.bits, next |-> k.leafset.next]
    BY <1>6 DEF LeafSetView
  <2> HIDE DEF w, v, e
  <2>4. w.leafset = [bits |-> (v.leafset.bits \ {}) \cup {}, next |-> k.leafset.next]
    BY <1>4, <1>8, <2>1, <2>2 DEF LeafSetView
  <2>5. (v.leafset.bits \ {}) \cup {} = v.leafset.bits
    OBVIOUS
  <2> QED  BY <2>3, <2>4, <2>5
<1>10. Len(w.outs) = NumLeaves(k.outs)
  <2>1. Len(w.outs) = NumLeaves(Flushed(k).outs)
    BY <1>3, <1>4, ViewOfType
  <2>2. /\ Flushed(k).outs.first = NumLeaves(k.outs)
        /\ Flushed(k).outs.leaves = <<>>
    BY DEF Flushed
  <2>3. NumLeaves(k.outs) \in Nat
    BY <1>1 DEF NumLeaves
  <2>4. NumLeaves(Flushed(k).outs) = NumLeaves(k.outs) + Len(<<>>)
    BY <2>2 DEF NumLeaves
  <2> HIDE DEF w
  <2> QED  BY <2>1, <2>3, <2>4
<1> HIDE DEF v, w, e
<1>11. EndsAligned(DBView(e))
  BY <1>2, <1>4, <1>5, <1>8 DEF EndsAligned, v
<1>12. EndsAligned(w)
  BY <1>2, <1>9, <1>10 DEF EndsAligned, v
<1> QED  BY <1>2, <1>10, <1>11, <1>12 DEF v, w, e

\* A block that is connected moves both ends by the number of its outputs.
LEMMA ConnectEnds ==
    ASSUME EndsInv, NEW b \in Offered, ConnectBlock(b)
    PROVE  EndsInv'
<1> DEFINE v == TipView
           t == Apply(Top(ledger), b)
           k == ApplyBlock(NewCache(v), v, b, t.hdr)
           u == BlockUndo(v, b)
           spent == {Top(v.coins[c]) : c \in b.ins}
           n == Len(v.outs)
           m == Len(b.outs)
<1>1. TypeInv /\ TypeInv' /\ EndsAligned(v) /\ EndsAligned(DBView(db))
  BY ConnectTypeInv DEF EndsInv
<1>2. b \in Body /\ b.outs \in Seq(Commitment) /\ m \in Nat /\ b.ins \subseteq Commitment
  BY BodyType DEF Offered
<1>3. v \in ViewType /\ t \in StateType /\ t.hdr \in Header
  BY <1>1, <1>2, TipViewType, LedgerTop, ApplyType
<1>4. /\ \A c \in b.ins : v.coins[c] # <<>> /\ Top(v.coins[c]) \in v.leafset.bits
      /\ ValidateMMRs(ViewOf(k, v), t.hdr)
  BY DEF ConnectBlock, Connects, CanSpend
<1>5. k \in CacheType /\ FitsMMRs(k, v)
  <2> HIDE DEF v, t
  <2> QED  BY <1>2, <1>3, <1>4, ApplyBlockType
<1>6. /\ k.hdr = t.hdr
      /\ k.leafset = LeafSetAdd(LeafSetRemove(LeafSetCache(v.leafset), spent), n, m)
      /\ k.outs = [first |-> n, leaves |-> b.outs]
  <2>1. k = [hdr     |-> t.hdr,
             upd     |-> [c \in Commitment |-> BlockUpdate(v, b, c)],
             leafset |-> LeafSetAdd(
                 LeafSetRemove(LeafSetCache(v.leafset),
                               {Top(v.coins[c]) : c \in b.ins}),
                 Len(v.outs), Len(b.outs)),
             kern    |-> [first |-> Len(v.kern), leaves |-> b.kernels],
             outs    |-> [first |-> Len(v.outs), leaves |-> b.outs]]
    <3> HIDE DEF v, t
    <3> QED  BY <1>2, <1>3, ApplyBlockFields
  <2> QED  BY <2>1
<1>7. v.leafset \in [bits : SUBSET Nat, next : Nat] /\ v.leafset.next = n /\ n \in Nat
  BY <1>1, <1>3 DEF ViewType, EndsAligned
<1>8. spent \in SUBSET Nat /\ v.leafset.bits \subseteq 0 .. n - 1
  BY <1>1, <1>4, <1>7 DEF EndsAligned
<1> HIDE DEF v, t, k, u, spent, n, m
<1>9. EndsAligned(ViewOf(k, v))
  <2> DEFINE w == ViewOf(k, v)
  <2>1. Len(w.outs) = n + m
    <3>1. Len(w.outs) = NumLeaves(k.outs)
      BY <1>3, <1>5, ViewOfType
    <3> HIDE DEF w
    <3> QED  BY <1>6, <3>1 DEF NumLeaves, m
  <2>2. w.leafset = LeafSetView(k.leafset, v.leafset)
    BY DEF ViewOf
  <2>3. LeafSetView(LeafSetAdd(LeafSetRemove(LeafSetCache(v.leafset), spent),
                               v.leafset.next, m), v.leafset)
          = [bits |-> (v.leafset.bits \ spent)
                          \cup (v.leafset.next .. v.leafset.next + m - 1),
             next |-> v.leafset.next + m]
    BY <1>2, <1>7, <1>8, LeafSetOfBlock
  <2>4. w.leafset = [bits |-> (v.leafset.bits \ spent) \cup (n .. n + m - 1),
                     next |-> n + m]
    BY <1>6, <1>7, <2>2, <2>3
  <2> HIDE DEF w
  <2> DEFINE B == (v.leafset.bits \ spent) \cup (n .. n + m - 1)
             e == n + m
  <2>5. B \subseteq 0 .. e - 1
    BY <1>2, <1>7, <1>8
  <2> HIDE DEF B, e
  <2>6. EndsAligned(w)
    <3>1. w.leafset = [bits |-> B, next |-> e] /\ Len(w.outs) = e
      BY <2>1, <2>4 DEF B, e
    <3> QED  BY <2>5, <3>1 DEF EndsAligned
  <2> QED  BY <2>6 DEF w
<1>10. cache' = FlushToCache(cache, k) /\ db' = db /\ undos' = Append(undos, u)
  BY DEF ConnectBlock, k, u, v, t
<1>11. /\ EndsAligned(TipView') /\ EndsAligned(DBView(db'))
       /\ TipView'.outs = ViewOf(k, v).outs /\ cache'.hdr = k.hdr
  <2>1. EndsAligned(ViewOf(k, TipView)) /\ FitsMMRs(k, TipView)
    BY <1>5, <1>9 DEF v
  <2>2. /\ EndsAligned(TipView') /\ DBView(db') = DBView(db)
        /\ TipView'.outs = ViewOf(k, TipView).outs /\ cache'.hdr = k.hdr
    BY <1>1, <1>5, <1>10, <2>1, FlushedTip
  <2> QED  BY <1>1, <2>2 DEF v
<1>12. cache'.hdr.numTXOs = Len(TipView'.outs)
  <2>1. t.hdr.numTXOs = Len(ViewOf(k, v).outs)
    BY <1>4 DEF ValidateMMRs
  <2> QED  BY <1>6, <1>11, <2>1
<1>13. BringsBackBelow(u)
  <2> SUFFICES ASSUME u.prev # NoHeader, NEW c \in Commitment, u.spent[c] # NoCoin
               PROVE  u.spent[c] < u.prev.numTXOs
    BY DEF BringsBackBelow
  <2>1. u.prev = v.hdr /\ u.spent[c] = IF c \in b.ins THEN Top(v.coins[c]) ELSE NoCoin
    BY DEF u, BlockUndo
  <2>2. u.spent[c] \in 0 .. n - 1
    BY <1>4, <1>8, <2>1
  <2>3. v.hdr = cache.hdr
    BY DEF v, TipView, ViewOf
  <2>4. cache.hdr.numTXOs = n
    BY <2>1, <2>3 DEF EndsInv, n, v
  <2> QED  BY <1>7, <2>1, <2>2, <2>3, <2>4
<1>14. \A i \in 1 .. Len(undos') : BringsBackBelow(undos'[i])
  <2>1. undos \in Seq(UndoType)
    BY <1>1 DEF TypeInv, TypeOK
  <2>2. /\ Len(undos') = Len(undos) + 1 /\ undos'[Len(undos) + 1] = u
        /\ \A i \in 1 .. Len(undos) : undos'[i] = undos[i]
    BY <1>10, <2>1
  <2>3. \A i \in 1 .. Len(undos') : i \in 1 .. Len(undos) \/ i = Len(undos) + 1
    BY <2>1, <2>2
  <2> QED  BY <1>13, <2>2, <2>3 DEF EndsInv
<1> QED  BY <1>1, <1>11, <1>12, <1>14 DEF EndsInv

\* A block that is disconnected moves both ends to where its header says.
LEMMA DisconnectEnds ==
    ASSUME EndsInv, DisconnectBlock
    PROVE  EndsInv'
<1> DEFINE v == TipView
           u == Top(undos)
           k == UndoBlock(NewCache(v), u)
           back == {u.spent[c] : c \in Commitment} \ {NoCoin}
           n == u.prev.numTXOs
<1>1. TypeInv /\ TypeInv' /\ EndsAligned(v) /\ EndsAligned(DBView(db)) /\ v \in ViewType
  BY DisconnectTypeInv, TipViewType DEF EndsInv
<1>2. /\ undos \in Seq(UndoType) /\ Len(undos) > 0
      /\ undos' = ButLast(undos) /\ db' = db
  BY <1>1, EnvironmentAssumption DEF TypeInv, TypeOK, DisconnectBlock
<1>3. /\ u \in UndoType /\ BringsBackBelow(u)
      /\ \A i \in 1 .. Len(undos') : BringsBackBelow(undos'[i])
  <2>1. /\ u = undos[Len(undos)] /\ u \in UndoType
        /\ Len(undos') = Len(undos) - 1
        /\ \A i \in 1 .. Len(undos) - 1 : undos'[i] = undos[i]
    BY <1>2, ButLastType
  <2>2. Len(undos) \in 1 .. Len(undos)
    BY <1>2
  <2>3. \A i \in 1 .. Len(undos') : i \in 1 .. Len(undos)
    BY <1>2, <2>1
  <2> HIDE DEF u
  <2> QED  BY <2>1, <2>2, <2>3 DEF EndsInv
<1>4. CASE u.prev = NoHeader
  <2>1. cache' = cache
    BY <1>4 DEF DisconnectBlock
  <2> QED  BY <1>1, <1>2, <1>3, <2>1 DEF EndsInv, TipView
<1>5. CASE u.prev # NoHeader
  <2>1. cache' = FlushToCache(cache, k) /\ ValidateMMRs(ViewOf(k, v), u.prev)
    BY <1>5 DEF DisconnectBlock, Disconnects
  <2>2. k \in CacheType /\ FitsMMRs(k, v)
    <3> HIDE DEF v, u
    <3> QED  BY <1>1, <1>3, <1>5, UndoBlockType
  <2>3. k.hdr = u.prev
        /\ k.leafset = LeafSetRewind(LeafSetCache(v.leafset), n, back)
    <3>1. k = [hdr     |-> u.prev,
               upd     |-> [c \in Commitment |-> UndoUpdate(u, c)],
               leafset |-> LeafSetRewind(LeafSetCache(v.leafset), n, back),
               kern    |-> MMRRewind(MMRCache(v.kern), u.prev.numKernels),
               outs    |-> MMRRewind(MMRCache(v.outs), u.prev.numTXOs)]
      BY UndoBlockFields
    <3> QED  BY <3>1
  <2>4. n \in Nat /\ back \in SUBSET Nat /\ \A x \in back : x < n
    BY <1>3, <1>5 DEF UndoType, Header, BringsBackBelow
  <2>5. v.leafset \in [bits : SUBSET Nat, next : Nat]
        /\ v.leafset.bits \subseteq 0 .. v.leafset.next - 1
    BY <1>1 DEF ViewType, EndsAligned
  <2> HIDE DEF v, u, k, back, n
  <2>6. LeafSetView(LeafSetRewind(LeafSetCache(v.leafset), n, back), v.leafset)
          = [bits |-> (v.leafset.bits \cup back) \ (n .. v.leafset.next - 1),
             next |-> n]
    BY <2>4, <2>5, LeafSetOfUndo
  <2>7. ViewOf(k, v).leafset = LeafSetView(k.leafset, v.leafset)
    BY DEF ViewOf
  <2>8. ViewOf(k, v).leafset.next = n /\ ViewOf(k, v).leafset.bits \subseteq 0 .. n - 1
    <3>1. (v.leafset.bits \cup back) \ (n .. v.leafset.next - 1) \subseteq 0 .. n - 1
      <4> SUFFICES ASSUME NEW x \in v.leafset.bits \cup back,
                          x \notin n .. v.leafset.next - 1
                   PROVE  x \in 0 .. n - 1
        OBVIOUS
      <4>1. x \in Nat /\ (x \in back => x < n)
        BY <2>4, <2>5
      <4>2. v.leafset.next \in Nat
        BY <2>5
      <4>3. x \notin back => x < v.leafset.next
        BY <2>5, <4>2
      <4> QED  BY <2>4, <4>1, <4>2, <4>3
    <3> QED  BY <2>3, <2>6, <2>7, <3>1
  <2>9. Len(ViewOf(k, v).outs) = n
    BY <2>1 DEF ValidateMMRs, n
  <2>10. EndsAligned(ViewOf(k, v))
    BY <2>8, <2>9 DEF EndsAligned
  <2>11. /\ EndsAligned(TipView') /\ EndsAligned(DBView(db'))
         /\ TipView'.outs = ViewOf(k, v).outs /\ cache'.hdr = k.hdr
    <3>1. EndsAligned(ViewOf(k, TipView)) /\ FitsMMRs(k, TipView)
      BY <2>2, <2>10 DEF v
    <3>2. /\ EndsAligned(TipView') /\ DBView(db') = DBView(db)
          /\ TipView'.outs = ViewOf(k, TipView).outs /\ cache'.hdr = k.hdr
      BY <1>1, <1>2, <2>1, <2>2, <3>1, FlushedTip
    <3> QED  BY <1>1, <3>2 DEF v
  <2>12. cache'.hdr.numTXOs = Len(TipView'.outs)
    BY <2>3, <2>9, <2>11 DEF n
  <2> QED  BY <1>1, <1>3, <2>11, <2>12 DEF EndsInv
<1> QED  BY <1>4, <1>5

\* A flush keeps where the files and the undo data end.
LEMMA FlushEnds ==
    ASSUME EndsInv, FlushCache
    PROVE  EndsInv'
<1>1. /\ TypeInv /\ EndsAligned(TipView)
      /\ cache.hdr # NoHeader => cache.hdr.numTXOs = Len(TipView.outs)
  BY DEF EndsInv
<1>2. TypeInv'
  BY <1>1, NextTypeInv DEF Next
<1>3. db' = FlushToDB(db, cache) /\ cache' = Flushed(cache) /\ undos' = undos
  BY DEF FlushCache
<1>4. db \in DBType /\ cache \in CacheType /\ FitsMMRs(cache, DBView(db))
  BY <1>1 DEF TypeInv, TypeOK
<1>5. /\ EndsAligned(DBView(db')) /\ EndsAligned(TipView')
      /\ Len(TipView'.outs) = Len(TipView.outs)
  <2>1. EndsAligned(ViewOf(cache, DBView(db)))
    BY <1>1 DEF TipView
  <2> QED  BY <1>3, <1>4, <2>1, FlushedEnds DEF TipView
<1>6. cache'.hdr = cache.hdr
  BY <1>3 DEF Flushed
<1> QED  BY <1>1, <1>2, <1>3, <1>5, <1>6 DEF EndsInv

\* The end of the leafset, which the header commits to only by the byte it is
\* in, is the number of outputs in the node's view and in the database: also
\* when a block re-creates an unspent output, when a flush leaves wrong hashes,
\* when it throws, and after the first block was disconnected.
THEOREM LeafsetEnds == Spec => []LeafsetFollowsMMR
<1>1. Init => EndsInv
  <2> SUFFICES ASSUME Init PROVE EndsInv
    OBVIOUS
  <2>1. TypeInv /\ TipView = DBView(EmptyDB)
    BY InitTypeInv, GenesisView, NewCacheView DEF Init, TipView
  <2>2. DBView(EmptyDB).leafset = [bits |-> {}, next |-> 0] /\ DBView(EmptyDB).outs = <<>>
    BY DEF DBView, EmptyDB
  <2>3. EndsAligned(DBView(EmptyDB))
    BY <2>2 DEF EndsAligned
  <2>4. cache.hdr = NoHeader /\ db = EmptyDB /\ undos = <<>>
    BY DEF Init, NewCache, DBView, EmptyDB
  <2> QED  BY <2>1, <2>3, <2>4 DEF EndsInv
<1>2. EndsInv /\ [Next]_vars => EndsInv'
  <2> SUFFICES ASSUME EndsInv, [Next]_vars PROVE EndsInv'
    OBVIOUS
  <2>1. CASE FlushCacheThrows
    <3>1. TypeInv'
      BY <2>1, NextTypeInv DEF Next, EndsInv
    <3>2. db' = [db EXCEPT !.hdr = cache.hdr] /\ cache' = cache /\ undos' = undos
      BY <2>1 DEF FlushCacheThrows
    <3>3. /\ DBView(db').leafset = DBView(db).leafset
          /\ DBView(db').outs = DBView(db).outs
      BY <3>2 DEF DBView, EndsInv, TypeInv, TypeOK, DBType
    <3>4. TipView'.leafset = TipView.leafset /\ TipView'.outs = TipView.outs
      BY <3>2, <3>3 DEF TipView, ViewOf
    <3> QED  BY <3>1, <3>2, <3>3, <3>4 DEF EndsInv, EndsAligned
  <2>2. CASE UNCHANGED vars
    BY <2>2, NextTypeInv DEF vars, EndsInv, TipView
  <2> QED  BY <2>1, <2>2, ConnectEnds, DisconnectEnds, FlushEnds DEF Next
<1>3. EndsInv => LeafsetFollowsMMR
  BY DEF EndsInv, EndsAligned, LeafsetFollowsMMR
<1> QED  BY <1>1, <1>2, <1>3, PTL DEF Spec
-----------------------------------------------------------------------------
(* The refinement of ExtBlockChain, as long as no flush replaces leaves    *)
(* that the hash files hold, and what follows from it: every block that    *)
(* extends the chain connects, every block but the first can be            *)
(* disconnected, and the view is what its header commits to.  That it is   *)
(* at the last block needs the first block to stay, and no more.           *)

\* The node's view shows everything of the tip, the MMRs included.
Faithful == TipView.outs = Top(ledger).txos /\ TipView.kern = Top(ledger).kernels

ChainInv == CoinsInv /\ Faithful

\* A view that represents a sound state and has its MMRs is that state.
LEMMA AbstractOf ==
    ASSUME NEW s \in StateType, CoinsSound(s), NEW v, Represents(v, s),
           v.outs = s.txos, v.kern = s.kernels
    PROVE  Abstract(v) = s
<1> DEFINE Of(c) == {<<c, v.coins[c][i]>> : i \in DOMAIN v.coins[c]}
           U == UNION {Of(c) : c \in Commitment}
<1>1. s = [hdr |-> s.hdr, txos |-> s.txos, kernels |-> s.kernels,
           utxos |-> s.utxos, leafset |-> s.leafset]
  BY DEF StateType
<1>2. \A u \in s.utxos : u[1] \in Commitment /\ u = <<u[1], u[2]>>
  BY DEF StateType
<1>3. ASSUME NEW c \in Commitment
      PROVE  \A u : u \in Of(c) <=> u \in s.utxos /\ u[1] = c
  <2>1. v.coins[c] = CoinsOf(s, c)
    BY DEF Represents
  <2>2. CASE CoinsOf(s, c) = <<>>
    <3>1. Of(c) = {}
      BY <2>1, <2>2
    <3>2. \A u \in s.utxos : u[1] # c
      BY <2>2, CoinsOfIs DEF Unspent
    <3> QED  BY <3>1, <3>2
  <2>3. CASE CoinsOf(s, c) # <<>>
    <3>1. PICK l \in Nat : CoinsOf(s, c) = <<l>> /\ <<c, l>> \in s.utxos
      BY <2>3, CoinsOfIs
    <3>2. Of(c) = {<<c, l>>}
      BY <2>1, <3>1
    <3>3. \A u \in s.utxos : u[1] = c => u = <<c, l>>
      <4>1. <<c, l>>[1] = c
        OBVIOUS
      <4> QED  BY <3>1, <4>1 DEF CoinsSound
    <3> QED  BY <3>1, <3>2, <3>3
  <2> QED  BY <2>2, <2>3
<1>4. U = s.utxos
  <2>1. \A u : u \in U <=> \E c \in Commitment : u \in Of(c)
    BY Zenon
  <2> HIDE DEF U, Of
  <2>2. ASSUME NEW u \in U PROVE u \in s.utxos
    BY <1>3, <2>1, <2>2
  <2>3. ASSUME NEW u \in s.utxos PROVE u \in U
    <3>1. u[1] \in Commitment
      BY <1>2
    <3>2. u \in Of(u[1])
      BY <1>3, <3>1
    <3> QED  BY <2>1, <3>1, <3>2
  <2> QED  BY <2>2, <2>3
<1>5. Abstract(v) = [hdr |-> v.hdr, txos |-> v.outs, kernels |-> v.kern,
                     utxos |-> U, leafset |-> v.leafset.bits]
  BY DEF Abstract
<1>6. v.hdr = s.hdr /\ v.leafset.bits = s.leafset
  BY DEF Represents
<1> QED  BY <1>1, <1>4, <1>5, <1>6

\* The tip of the abstract stack is the network's tip.
LEMMA TipIsTop ==
    ASSUME ChainInv
    PROVE  /\ Abstract(TipView) = Top(ledger)
           /\ ledger \in Seq(StateType) /\ Len(ledger) \in Nat \ {0}
           /\ Len(ledger) = Len(undos) + 1
<1>1. /\ Top(ledger) \in StateType /\ CoinsSound(Top(ledger))
      /\ Represents(TipView, Top(ledger))
      /\ ledger \in Seq(StateType) /\ Len(ledger) \in Nat \ {0}
      /\ Len(ledger) = Len(undos) + 1
  BY LedgerTop DEF ChainInv, CoinsInv, LedgerSound, ViewsSound, TypeInv, TypeOK
<1>2. Abstract(TipView) = Top(ledger)
  BY <1>1, AbstractOf DEF ChainInv, Faithful
<1> QED  BY <1>1, <1>2

\* The chain is right at first,
LEMMA InitChainInv == Init => ChainInv
<1> SUFFICES ASSUME Init PROVE ChainInv
  OBVIOUS
<1>1. CoinsInv
  BY InitCoinsInv
<1>2. ledger = <<Genesis>> /\ db = EmptyDB /\ cache = NewCache(DBView(EmptyDB))
  BY DEF Init
<1>3. Top(ledger) = Genesis
  BY <1>2 DEF Top
<1>4. TipView = DBView(EmptyDB)
  BY <1>2, GenesisView, NewCacheView DEF TipView
<1>5. Faithful
  BY <1>3, <1>4 DEF Faithful, DBView, EmptyDB, Genesis, State
<1> QED  BY <1>1, <1>5 DEF ChainInv

\* and after every step, as long as no flush comes between the steps of a
\* reorganization.
LEMMA NextChainInv ==
    ASSUME Network, ~ReorgFlush, ChainInv, [Next]_vars
    PROVE  ChainInv'
<1>1. CoinsInv /\ CoinsInv'
  BY NextCoinsInv DEF ChainInv
<1>2. CASE \E b \in Offered : ConnectBlock(b)
  <2>1. PICK b \in Offered : ConnectBlock(b)
    BY <1>2
  <2> DEFINE v == TipView
             t == Apply(Top(ledger), b)
             k == ApplyBlock(NewCache(v), v, b, t.hdr)
  <2>2. /\ k \in CacheType /\ v \in ViewType /\ DBView(db) \in ViewType
        /\ Fits(cache, DBView(db)) /\ v = ViewOf(cache, DBView(db))
        /\ cache \in CacheType /\ Fits(k, v)
        /\ ViewOf(k, v).outs = t.txos /\ ViewOf(k, v).kern = t.kernels
        /\ t \in StateType
    BY <1>1, <2>1, ConnectFacts
  <2>3. cache' = FlushToCache(cache, k) /\ ledger' = Append(ledger, t) /\ db' = db
    BY <2>1 DEF ConnectBlock
  <2> HIDE DEF v, t, k
  <2>4. ViewOf(FlushToCache(cache, k), DBView(db)) = ViewOf(k, v)
    BY <2>2, FlushView
  <2>5. TipView' = ViewOf(k, v)
    BY <2>3, <2>4 DEF TipView
  <2>6. Top(ledger') = t
    BY <2>2, <2>3, TipIsTop, AppendType
  <2> QED  BY <1>1, <2>2, <2>5, <2>6 DEF ChainInv, Faithful
<1>3. CASE DisconnectBlock
  <2> DEFINE v == TipView
             u == Top(undos)
             s == Top(ButLast(ledger))
             k == UndoBlock(NewCache(v), u)
  <2>1. /\ cache' = FlushToCache(cache, k)
        /\ k \in CacheType /\ v \in ViewType /\ DBView(db) \in ViewType
        /\ Fits(cache, DBView(db)) /\ v = ViewOf(cache, DBView(db))
        /\ cache \in CacheType /\ Fits(k, v)
        /\ ViewOf(k, v).outs = s.txos /\ ViewOf(k, v).kern = s.kernels
    BY <1>1, <1>3, DisconnectFacts
  <2>2. ledger' = ButLast(ledger) /\ db' = db
    BY <1>3 DEF DisconnectBlock
  <2>3. Top(ledger') = s
    BY <2>2
  <2> HIDE DEF v, u, s, k
  <2>4. ViewOf(FlushToCache(cache, k), DBView(db)) = ViewOf(k, v)
    BY <2>1, FlushView
  <2>5. TipView' = ViewOf(k, v)
    BY <2>1, <2>2, <2>4 DEF TipView
  <2> QED  BY <1>1, <2>1, <2>3, <2>5 DEF ChainInv, Faithful
<1>4. CASE FlushCache
  <2>1. Extending(cache.kern, db.kern) /\ Extending(cache.outs, db.outs)
    BY <1>4 DEF FlushCache, MayFlush
  <2>2. TipView'.outs = TipView.outs /\ TipView'.kern = TipView.kern
    BY <1>1, <1>4, <2>1, FlushFacts
  <2>3. ledger' = ledger
    BY <1>4 DEF FlushCache
  <2> QED  BY <1>1, <2>2, <2>3 DEF ChainInv, Faithful
<1>5. CASE FlushCacheThrows
  BY <1>1, <1>5, FlushFacts DEF FlushCacheThrows
<1>6. CASE UNCHANGED vars
  BY <1>1, <1>6 DEF vars, ChainInv, Faithful, TipView
<1> QED  BY <1>2, <1>3, <1>4, <1>5, <1>6 DEF Next

\* The initial state of the node is the initial state of the stack.
LEMMA InitRefines == Init => Chain!Init
<1> SUFFICES ASSUME Init PROVE Chain!Init
  OBVIOUS
<1>1. ledger = <<Genesis>> /\ db = EmptyDB
  BY DEF Init
<1>2. Abstract(TipView) = Genesis
  BY <1>1, InitChainInv, TipIsTop DEF Top
<1>3. TipView = DBView(db)
  BY GenesisView, NewCacheView DEF TipView, Init
<1>4. ButLast(ledger) = <<>>
  BY <1>1 DEF ButLast
<1>5. Abstract(DBView(db)) = Genesis
  BY <1>2, <1>3
<1> QED  BY <1>2, <1>4, <1>5 DEF Chain!Init, Chain!Genesis, Genesis, Chain!State, State, Chain!NoHeader, NoHeader

\* The blocks of the stack are the blocks of the network.
LEMMA SameBlocks ==
    /\ Chain!Body = Body
    /\ \A s, b : Chain!Extends(s, b) = Extends(s, b)
    /\ \A s, b : Chain!Apply(s, b) = Apply(s, b)
<1>1. Chain!Body = Body
  BY DEF Chain!Body, Body, Chain!Lists, Lists
<1>2. \A s, b : Chain!Extends(s, b) = Extends(s, b)
  BY DEF Chain!Extends, Extends, Chain!Unspent, Unspent, Chain!Outs, Outs
<1>3. \A s, c : Chain!Newest(s, c) = Newest(s, c)
  BY DEF Chain!Newest, Newest
<1>4. \A b, n : Chain!Mined(b, n) = Mined(b, n)
  BY DEF Chain!Mined, Mined
<1>5. \A x, y, z : Chain!HeaderOf(x, y, z) = HeaderOf(x, y, z)
  BY DEF Chain!HeaderOf, HeaderOf
<1>6. \A s, b : Chain!Apply(s, b) = Apply(s, b)
  BY <1>3, <1>4, <1>5 DEF Chain!Apply, Apply, Chain!State, State
<1> QED  BY <1>1, <1>2, <1>6

\* The tip then represents the ledger's top after the step as well.
LEMMA NextTipIsTop == ChainInv' => (Abstract(TipView) = Top(ledger))'
<1>1. ChainInv => Abstract(TipView) = Top(ledger)
  BY TipIsTop
<1> QED  BY <1>1, PTL

\* Every step of the node is a step of the stack, or changes nothing of it.
LEMMA StepRefines ==
    ASSUME Network, ~ReorgFlush, ChainInv, [Next]_vars
    PROVE  [Chain!Next]_(Chain!vars)
<1>1. /\ CoinsInv
      /\ Abstract(TipView) = Top(ledger)
      /\ Abstract(TipView)' = Top(ledger')
      /\ ledger \in Seq(StateType) /\ Len(ledger) \in Nat \ {0}
      /\ Len(ledger) = Len(undos) + 1
  BY NextChainInv, TipIsTop, NextTipIsTop DEF ChainInv
<1>2. CASE \E b \in Offered : ConnectBlock(b)
  <2>1. PICK b \in Offered : ConnectBlock(b)
    BY <1>2
  <2> DEFINE t == Apply(Top(ledger), b)
  <2>2. /\ t \in StateType /\ Extends(Top(ledger), b) /\ b \in Body
    BY <1>1, <2>1, ConnectFacts
  <2>3. ledger' = Append(ledger, t) /\ db' = db /\ Len(undos) < MaxBlocks
    BY <2>1 DEF ConnectBlock
  <2>4. Len(Top(ledger).txos) + Len(b.outs) <= MaxTXOs
    BY <2>1 DEF Offered
  <2>5. Top(ledger') = t /\ ButLast(ledger') = ledger
    <3> HIDE DEF t
    <3> QED  BY <1>1, <2>2, <2>3, AppendType
  <2>6. ledger = Append(ButLast(ledger), Top(ledger)) /\ Len(ButLast(ledger)) = Len(undos)
    <3> DEFINE f == ButLast(ledger)
               e == Top(ledger)
    <3>1. /\ f \in Seq(StateType) /\ e \in StateType
          /\ Len(f) = Len(ledger) - 1
          /\ \A i \in 1 .. Len(ledger) - 1 : f[i] = ledger[i]
          /\ e = ledger[Len(ledger)]
      BY <1>1, ButLastType
    <3> HIDE DEF f, e
    <3>2. ledger = Append(f, e)
      BY <1>1, <3>1
    <3> QED  BY <1>1, <3>1, <3>2 DEF f, e
  <2>7. Abstract(TipView)' = Chain!Apply(Abstract(TipView), b)
    BY <1>1, <2>5, SameBlocks
  <2>8. Abstract(DBView(db))' = Abstract(DBView(db))
    BY <2>3 DEF Abstract, DBView
  <2>9. Chain!Extends(Abstract(TipView), b) /\ b \in Chain!Body
    BY <1>1, <2>2, SameBlocks
  <2>10. ButLast(ledger)' = Append(ButLast(ledger), Abstract(TipView))
    BY <1>1, <2>5, <2>6
  <2>11. Chain!Connect
    BY <1>1, <2>3, <2>4, <2>6, <2>7, <2>8, <2>9, <2>10 DEF Chain!Connect
  <2> QED  BY <2>11 DEF Chain!Next
<1>3. CASE DisconnectBlock
  <2>1. ledger' = ButLast(ledger) /\ db' = db /\ Len(ledger) >= 3
    BY <1>1, <1>3, DisconnectFacts DEF DisconnectBlock
  <2> DEFINE below == ButLast(ledger)
  <2>2. below \in Seq(StateType) /\ Len(below) = Len(ledger) - 1
    BY <1>1, ButLastType
  <2>3. Abstract(TipView)' = below[Len(below)]
    BY <1>1, <2>1 DEF Top
  <2>4. below' = SubSeq(below, 1, Len(below) - 1)
    BY <2>1 DEF ButLast
  <2>5. below # <<>>
    <3> HIDE DEF below
    <3> QED  BY <1>1, <2>1, <2>2
  <2>6. Abstract(DBView(db))' = Abstract(DBView(db))
    BY <2>1 DEF Abstract, DBView
  <2>7. Chain!Disconnect
    BY <2>3, <2>4, <2>5, <2>6 DEF Chain!Disconnect
  <2> QED  BY <2>7 DEF Chain!Next
<1>4. CASE FlushCache
  <2>1. ledger' = ledger /\ Extending(cache.kern, db.kern) /\ Extending(cache.outs, db.outs)
    BY <1>4 DEF FlushCache, MayFlush
  <2>2. /\ DBView(db').hdr = TipView.hdr
        /\ DBView(db').coins = TipView.coins
        /\ DBView(db').leafset = TipView.leafset
        /\ DBView(db').kern = TipView.kern
        /\ DBView(db').outs = TipView.outs
    BY <1>1, <1>4, <2>1, FlushFacts
  <2>3. Abstract(DBView(db))' = Abstract(TipView)
    BY <2>2 DEF Abstract
  <2>4. Abstract(TipView)' = Abstract(TipView) /\ ButLast(ledger)' = ButLast(ledger)
    BY <1>1, <2>1
  <2>5. Chain!Save
    BY <2>3, <2>4 DEF Chain!Save
  <2> QED  BY <2>5 DEF Chain!Next
<1>5. CASE FlushCacheThrows
  BY <1>1, <1>5, FlushFacts DEF FlushCacheThrows
<1>6. CASE UNCHANGED vars
  <2>1. Abstract(TipView)' = Abstract(TipView) /\ ButLast(ledger)' = ButLast(ledger)
    BY <1>1, <1>6 DEF vars
  <2>2. Abstract(DBView(db))' = Abstract(DBView(db))
    BY <1>6 DEF vars, Abstract, DBView
  <2> QED  BY <2>1, <2>2 DEF Chain!vars
<1> QED  BY <1>2, <1>3, <1>4, <1>5, <1>6 DEF Next

\* The caches and the database are the stack of states that the node promises,
\* whatever blocks, disconnects and flushes come, as long as no flush replaces
\* leaves that a hash file holds.
THEOREM Refinement == Network /\ ~ReorgFlush => (Spec => ImplementsChain)
<1>1. SUFFICES ASSUME Network, ~ReorgFlush PROVE Spec => ImplementsChain
  OBVIOUS
<1>2. ChainInv /\ [Next]_vars => ChainInv'
  BY <1>1, NextChainInv
<1>3. ChainInv /\ [Next]_vars => [Chain!Next]_(Chain!vars)
  BY <1>1, StepRefines
<1>4. Spec => Chain!Init /\ [][Chain!Next]_(Chain!vars)
  BY <1>2, <1>3, InitChainInv, InitRefines, PTL DEF Spec
<1> QED  BY <1>4 DEF ImplementsChain, Chain!Spec

\* The stack of states, with what ExtBlockChainProofs proves of it.
Promise == INSTANCE ExtBlockChainProofs WITH
               tip   <- Abstract(TipView),
               below <- ButLast(ledger),
               saved <- Abstract(DBView(db))

\* The two instances of the stack, for the chain and for its promise, are the
\* same formulas.
LEMMA SameStack ==
    /\ Promise!Init <=> Chain!Init
    /\ Promise!Next <=> Chain!Next
    /\ Promise!vars = Chain!vars
    /\ Promise!HeaderCommits <=> Chain!HeaderCommits
    /\ Promise!SpentStaysSpent <=> Chain!SpentStaysSpent
<1>1. /\ Promise!NoHeader = Chain!NoHeader
      /\ \A h, t, k, u, l : Promise!State(h, t, k, u, l) = Chain!State(h, t, k, u, l)
  BY DEF Promise!State, Chain!State, Promise!NoHeader, Chain!NoHeader
<1>2. Promise!Init <=> Chain!Init
  BY <1>1 DEF Promise!Init, Chain!Init, Promise!Genesis, Chain!Genesis
<1>3. Promise!Body = Chain!Body
  BY DEF Promise!Body, Chain!Body, Promise!Lists, Chain!Lists
<1>4. \A s, b : Promise!Extends(s, b) = Chain!Extends(s, b)
  BY DEF Promise!Extends, Chain!Extends, Promise!Unspent, Chain!Unspent,
         Promise!Outs, Chain!Outs
<1>5. \A s, c : Promise!Newest(s, c) = Chain!Newest(s, c)
  BY DEF Promise!Newest, Chain!Newest
<1>6. \A b, n : Promise!Mined(b, n) = Chain!Mined(b, n)
  BY DEF Promise!Mined, Chain!Mined
<1>7. \A x, y, z : Promise!HeaderOf(x, y, z) = Chain!HeaderOf(x, y, z)
  BY DEF Promise!HeaderOf, Chain!HeaderOf
<1>8. \A s, b : Promise!Apply(s, b) = Chain!Apply(s, b)
  BY <1>1, <1>5, <1>6, <1>7 DEF Promise!Apply, Chain!Apply
<1>9. Promise!Connect <=> Chain!Connect
  BY <1>3, <1>4, <1>8 DEF Promise!Connect, Chain!Connect
<1>10. /\ Promise!Disconnect <=> Chain!Disconnect
       /\ Promise!Save <=> Chain!Save
  BY DEF Promise!Disconnect, Chain!Disconnect, Promise!Save, Chain!Save
<1>11. Promise!SpentStaysSpent <=> Chain!SpentStaysSpent
  BY DEF Promise!SpentStaysSpent, Chain!SpentStaysSpent, Promise!Grows, Chain!Grows
<1> QED  BY <1>2, <1>9, <1>10, <1>11 DEF Promise!Next, Chain!Next, Promise!vars, Chain!vars,
            Promise!HeaderCommits, Chain!HeaderCommits

\* The node keeps what the stack of states promises.
LEMMA PromiseKept == Network /\ ~ReorgFlush => (Spec => Promise!Spec)
<1>1. SUFFICES ASSUME Network, ~ReorgFlush PROVE Spec => Promise!Spec
  OBVIOUS
<1>2. Spec => Chain!Init /\ [][Chain!Next]_(Chain!vars)
  BY <1>1, Refinement DEF ImplementsChain, Chain!Spec
<1>3. [Chain!Next]_(Chain!vars) <=> [Promise!Next]_(Promise!vars)
  BY SameStack DEF Promise!vars, Chain!vars
<1> QED  BY <1>2, <1>3, SameStack, PTL DEF Promise!Spec

\* What the header of the view or of the database commits to is all there is:
\* coins, leafset, outputs and kernels.
THEOREM ViewsCommitted == Network /\ ~ReorgFlush => (Spec => []HeaderCommits)
<1>1. SUFFICES ASSUME Network, ~ReorgFlush PROVE Spec => []HeaderCommits
  OBVIOUS
<1>2. Spec => Promise!Spec
  BY <1>1, PromiseKept
<1>3. Promise!Spec => []Promise!HeaderCommits
  BY Promise!Commitments, CommitmentAssumption, BoundAssumption, ByteAssumption
<1>4. Promise!HeaderCommits <=> HeaderCommits
  BY SameStack DEF HeaderCommits
<1> QED  BY <1>2, <1>3, <1>4, PTL

\* No block brings back an output that a block below it has spent.
THEOREM NoResurrection == Network /\ ~ReorgFlush => (Spec => []SpentStaysSpent)
<1>1. SUFFICES ASSUME Network, ~ReorgFlush PROVE Spec => []SpentStaysSpent
  OBVIOUS
<1>2. Spec => Promise!Spec
  BY <1>1, PromiseKept
<1>3. Promise!Spec => []Promise!SpentStaysSpent
  BY Promise!NoResurrection, CommitmentAssumption, BoundAssumption, ByteAssumption
<1>4. Promise!SpentStaysSpent <=> SpentStaysSpent
  BY SameStack DEF SpentStaysSpent
<1> QED  BY <1>2, <1>3, <1>4, PTL
-----------------------------------------------------------------------------
(* The check of the header: what the network offers or takes back passes.  *)

\* The leaves that are unspent after a block.
LEMMA ApplyLeafset ==
    ASSUME NEW s \in StateType, CoinsSound(s), NEW b \in Body, Extends(s, b)
    PROVE  Apply(s, b).leafset =
               (s.leafset \ {Newest(s, c)[2] : c \in b.ins})
                   \cup (Len(s.txos) .. Len(s.txos) + Len(b.outs) - 1)
<1> DEFINE n == Len(s.txos)
           m == Len(b.outs)
           gone == {Newest(s, c) : c \in b.ins}
           spent == {Newest(s, c)[2] : c \in b.ins}
           mined == Mined(b, n)
<1>1. /\ s.txos \in Seq(Commitment) /\ n \in Nat
      /\ b.outs \in Seq(Commitment) /\ m \in Nat
      /\ \A u \in s.utxos : u[2] \in Nat
  BY BodyType DEF StateType
<1>2. \A u, w \in s.utxos : u[2] = w[2] => u = w
  BY DEF CoinsSound
<1>3. gone \subseteq s.utxos
  <2>1. \A c \in b.ins : Newest(s, c) \in s.utxos
    BY NewestIsCoin DEF Extends
  <2> QED  BY <2>1
<1>4. \A x : x \in spent <=> \E w \in gone : w[2] = x
  OBVIOUS
<1>5. \A x : (\E u \in mined : u[2] = x) <=> x \in n .. n + m - 1
  <2>1. ASSUME NEW u \in mined PROVE u[2] \in n .. n + m - 1
    <3>1. PICK i \in DOMAIN b.outs : u = <<b.outs[i], n + i - 1>>
      BY DEF Mined
    <3>2. i \in 1 .. m /\ u[2] = n + i - 1 /\ n \in Nat /\ m \in Nat
      BY <1>1, <3>1
    <3> HIDE DEF n, m
    <3> QED  BY <3>2
  <2>2. ASSUME NEW x \in n .. n + m - 1 PROVE \E u \in mined : u[2] = x
    <3> DEFINE i == x - n + 1
    <3>1. i \in DOMAIN b.outs /\ n + i - 1 = x
      <4>1. n \in Nat /\ m \in Nat /\ DOMAIN b.outs = 1 .. m
        BY <1>1
      <4> HIDE DEF n, m
      <4> QED  BY <4>1
    <3>2. <<b.outs[i], n + i - 1>> \in mined
      <4> HIDE DEF i
      <4> QED  BY <3>1 DEF Mined
    <3> QED  BY <3>1, <3>2
  <2> QED  BY <2>1, <2>2
<1>6. /\ Apply(s, b).leafset = {u[2] : u \in (s.utxos \ gone) \cup mined}
      /\ s.leafset = {u[2] : u \in s.utxos}
  BY ApplyFields DEF CoinsSound
<1> HIDE DEF gone, spent, mined, n, m
<1>7. \A x : x \in Apply(s, b).leafset
                 <=> x \in s.leafset \ spent \/ x \in n .. n + m - 1
  <2>1. \A x : x \in Apply(s, b).leafset
                   <=> (\E u \in s.utxos \ gone : u[2] = x) \/ (\E u \in mined : u[2] = x)
    BY <1>6
  <2>2. \A x : (\E u \in s.utxos \ gone : u[2] = x) <=> x \in s.leafset \ spent
    BY <1>2, <1>3, <1>4, <1>6
  <2> QED  BY <1>5, <2>1, <2>2
<1> QED  BY <1>7 DEF spent, n, m

\* A view with the leaves and the leafset of a state passes the check of the
\* state's header.
LEMMA CommittedPasses ==
    ASSUME NEW w, NEW txos, NEW kernels, NEW unspent,
           w.outs = txos, w.kern = kernels,
           w.leafset.next = Len(txos), w.leafset.bits = unspent
    PROVE  ValidateMMRs(w, HeaderOf(txos, kernels, unspent))
<1> DEFINE h == HeaderOf(txos, kernels, unspent)
<1>1. /\ h.numTXOs = Len(txos) /\ h.numKernels = Len(kernels)
      /\ h.output_root = txos /\ h.kernel_root = kernels
      /\ h.leafset_root = <<(Len(txos) + ByteBits - 1) \div ByteBits, unspent>>
  BY Zenon DEF HeaderOf
<1> HIDE DEF h
<1>2. ValidateMMRs(w, h)
  BY <1>1, Zenon DEF ValidateMMRs
<1> QED  BY <1>2 DEF h

\* The header of a block commits to what ConnectBlock makes of a view of the
\* state before it.
LEMMA ConnectPasses ==
    ASSUME NEW s \in StateType, CoinsSound(s),
           NEW v \in ViewType, Represents(v, s), v.outs = s.txos, v.kern = s.kernels,
           NEW b \in Body, Extends(s, b), NEW t, t = Apply(s, b)
    PROVE  /\ \A c \in b.ins : CanSpend(v, c)
           /\ ValidateMMRs(ViewOf(ApplyBlock(NewCache(v), v, b, t.hdr), v), t.hdr)
<1> DEFINE k == ApplyBlock(NewCache(v), v, b, t.hdr)
           w == ViewOf(k, v)
           spent == {Top(v.coins[c]) : c \in b.ins}
           n == Len(v.outs)
           m == Len(b.outs)
<1>1. /\ v.outs \in Seq(Commitment) /\ v.kern \in Seq(Kernel)
      /\ b.outs \in Seq(Commitment) /\ b.kernels \in Seq(Kernel)
      /\ b.ins \subseteq Commitment /\ s.leafset \in SUBSET Nat
  BY BodyType DEF ViewType, StateType
<1>2. /\ v.leafset = [bits |-> s.leafset, next |-> n]
      /\ \A c \in Commitment : v.coins[c] = CoinsOf(s, c)
  BY DEF Represents
<1>3. ASSUME NEW c \in b.ins
      PROVE  /\ v.coins[c] # <<>> /\ Top(v.coins[c]) = Newest(s, c)[2]
             /\ Newest(s, c) \in s.utxos
  <2>1. c \in Unspent(s) /\ c \in Commitment
    BY <1>1 DEF Extends
  <2>2. v.coins[c] = <<Newest(s, c)[2]>> /\ Newest(s, c) \in s.utxos
    BY <1>2, <2>1, NewestIsCoin DEF CoinsOf
  <2> QED  BY <2>2 DEF Top
<1>4. ASSUME NEW c \in b.ins PROVE Top(v.coins[c]) \in s.leafset /\ CanSpend(v, c)
  <2>1. Top(v.coins[c]) \in s.leafset
    BY <1>3 DEF CoinsSound
  <2> QED  BY <1>2, <1>3, <2>1 DEF CanSpend
<1>5. k = [hdr     |-> t.hdr,
           upd     |-> [c \in Commitment |-> BlockUpdate(v, b, c)],
           leafset |-> LeafSetAdd(
               LeafSetRemove(LeafSetCache(v.leafset), spent), n, m),
           kern    |-> [first |-> Len(v.kern), leaves |-> b.kernels],
           outs    |-> [first |-> n, leaves |-> b.outs]]
  BY ApplyBlockFields
<1>6. /\ t.txos = s.txos \o b.outs /\ t.kernels = s.kernels \o b.kernels
      /\ t.hdr = HeaderOf(t.txos, t.kernels, t.leafset)
  BY ApplyFields
<1>7. w.outs = t.txos /\ w.kern = t.kernels
  <2>1. /\ k.outs.first = n /\ k.outs.leaves = b.outs
        /\ k.kern.first = Len(v.kern) /\ k.kern.leaves = b.kernels
    BY <1>5
  <2> HIDE DEF k, n
  <2>2. w.outs = SubSeq(v.outs, 1, n) \o b.outs
    <3>1. w.outs = Leaves(k.outs, v.outs)
      BY DEF ViewOf
    <3> HIDE DEF w
    <3> QED  BY <2>1, <3>1, Zenon DEF Leaves
  <2>3. w.kern = SubSeq(v.kern, 1, Len(v.kern)) \o b.kernels
    <3>1. w.kern = Leaves(k.kern, v.kern)
      BY DEF ViewOf
    <3> HIDE DEF w
    <3> QED  BY <2>1, <3>1, Zenon DEF Leaves
  <2> QED  BY <1>1, <1>6, <2>2, <2>3, ConcatProperties DEF n
<1>8. w.leafset = [bits |-> t.leafset, next |-> Len(t.txos)]
  <2>1. k.leafset = LeafSetAdd(LeafSetRemove(LeafSetCache(v.leafset), spent), n, m)
    BY <1>5
  <2>2. v.leafset \in [bits : SUBSET Nat, next : Nat] /\ v.leafset.next = n
    BY <1>1, <1>2
  <2>3. spent \in SUBSET Nat /\ m \in Nat
    BY <1>1, <1>4
  <2>4. w.leafset = LeafSetView(k.leafset, v.leafset)
    BY DEF ViewOf
  <2>5. spent = {Newest(s, c)[2] : c \in b.ins}
    BY <1>3
  <2>6. t.leafset = (s.leafset \ spent) \cup (n .. n + m - 1)
    BY <2>5, ApplyLeafset
  <2>7. Len(t.txos) = n + m
    BY <1>1, <1>6, ConcatProperties
  <2> HIDE DEF k, w, spent, n, m
  <2>8. LeafSetView(k.leafset, v.leafset)
          = [bits |-> (v.leafset.bits \ spent)
                          \cup (v.leafset.next .. v.leafset.next + m - 1),
             next |-> v.leafset.next + m]
    BY <2>1, <2>2, <2>3, LeafSetOfBlock
  <2>9. v.leafset.bits = s.leafset
    BY <1>2
  <2> QED  BY <2>2, <2>4, <2>6, <2>7, <2>8, <2>9
<1> HIDE DEF w
<1>9. ValidateMMRs(w, t.hdr)
  <2>1. w.leafset.next = Len(t.txos) /\ w.leafset.bits = t.leafset
    BY <1>8
  <2> QED  BY <1>6, <1>7, <2>1, CommittedPasses
<1> QED  BY <1>4, <1>9 DEF w

\* Every block that may follow the network's chain is taken by the node: the
\* reads of its inputs do not fail, the coins they spend are in the leafset,
\* and the MMRs it leaves pass the check of its header.
THEOREM OffersConnect == Network /\ ~ReorgFlush => (Spec => []EveryOfferConnects)
<1>1. SUFFICES ASSUME Network, ~ReorgFlush PROVE Spec => []EveryOfferConnects
  OBVIOUS
<1>2. ASSUME ChainInv, NoUnderflow PROVE EveryOfferConnects
  <2> SUFFICES ASSUME NEW b \in Offered PROVE Connects(TipView, b)
    BY DEF EveryOfferConnects
  <2>1. /\ Top(ledger) \in StateType /\ CoinsSound(Top(ledger))
        /\ Represents(TipView, Top(ledger)) /\ TipView \in ViewType
        /\ TipView.outs = Top(ledger).txos /\ TipView.kern = Top(ledger).kernels
    BY <1>2, LedgerTop, TipViewType
       DEF ChainInv, CoinsInv, LedgerSound, ViewsSound, Faithful
  <2>2. b \in Body /\ Extends(Top(ledger), b) /\ b.ins \subseteq Commitment
    BY <1>1, BodyType DEF Offered, Network
  <2>3. \A c \in b.ins : ~Underflow(c)
    BY <1>2, <2>2 DEF NoUnderflow
  <2> DEFINE v == TipView
             s == Top(ledger)
             t == Apply(s, b)
  <2>4. /\ \A c \in b.ins : CanSpend(v, c)
        /\ ValidateMMRs(ViewOf(ApplyBlock(NewCache(v), v, b, t.hdr), v), t.hdr)
    <3>1. /\ s \in StateType /\ CoinsSound(s) /\ v \in ViewType /\ Represents(v, s)
          /\ v.outs = s.txos /\ v.kern = s.kernels /\ Extends(s, b)
      BY <2>1, <2>2
    <3> HIDE DEF v, s
    <3> QED  BY <2>2, <3>1, ConnectPasses
  <2> QED  BY <2>3, <2>4 DEF Connects
<1>3. Spec => []ChainInv
  <2>1. ChainInv /\ [Next]_vars => ChainInv'
    BY <1>1, NextChainInv
  <2> QED  BY <2>1, InitChainInv, PTL DEF Spec
<1>4. Spec => []NoUnderflow
  BY <1>1, ReadsAreSafe
<1> QED  BY <1>2, <1>3, <1>4, PTL

\* State t is s with blocks on top: its leaves are those of s and more.
Follows(s, t) ==
    /\ Grows(s, t)
    /\ Len(s.txos) <= Len(t.txos) /\ SubSeq(t.txos, 1, Len(s.txos)) = s.txos
    /\ Len(s.kernels) <= Len(t.kernels)
    /\ SubSeq(t.kernels, 1, Len(s.kernels)) = s.kernels

LedgerFollows ==
    /\ ledger[1] = Genesis
    /\ \A i \in 1 .. Len(ledger) - 1 : Follows(ledger[i], ledger[i + 1])

\* The state after a block follows the one before it.
LEMMA ApplyFollows ==
    ASSUME NEW s \in StateType, CoinsSound(s), NEW b \in Body, Extends(s, b)
    PROVE  Follows(s, Apply(s, b))
<1>1. /\ s.txos \in Seq(Commitment) /\ s.kernels \in Seq(Kernel)
      /\ b.outs \in Seq(Commitment) /\ b.kernels \in Seq(Kernel)
  BY BodyType DEF StateType
<1>2. /\ Apply(s, b).txos = s.txos \o b.outs
      /\ Apply(s, b).kernels = s.kernels \o b.kernels
  BY ApplyFields
<1>3. ASSUME NEW S, NEW x \in Seq(S), NEW y \in Seq(S)
      PROVE  Len(x) <= Len(x \o y) /\ SubSeq(x \o y, 1, Len(x)) = x
  <2>1. SubSeq(x \o y, 1, Len(x) + 0) = SubSeq(x, 1, Len(x) + 0)
    BY PrefixOfConcat
  <2>2. Len(x) \in Nat /\ Len(y) \in Nat /\ Len(x \o y) = Len(x) + Len(y)
        /\ SubSeq(x, 1, Len(x)) = x
    BY ConcatProperties
  <2> QED  BY <2>1, <2>2
<1>4. /\ Len(s.txos) <= Len(s.txos \o b.outs)
      /\ SubSeq(s.txos \o b.outs, 1, Len(s.txos)) = s.txos
  BY <1>1, <1>3
<1>5. /\ Len(s.kernels) <= Len(s.kernels \o b.kernels)
      /\ SubSeq(s.kernels \o b.kernels, 1, Len(s.kernels)) = s.kernels
  BY <1>1, <1>3
<1>6. Grows(s, Apply(s, b))
  BY ApplySound
<1> QED  BY <1>2, <1>4, <1>5, <1>6, Zenon DEF Follows

\* A new MMR cache, cut to a prefix of its base, shows the prefix.
LEMMA CutLeaves ==
    ASSUME NEW S, NEW base \in Seq(S), NEW n \in Nat, n <= Len(base)
    PROVE  Leaves(MMRRewind(MMRCache(base), n), base) = SubSeq(base, 1, n)
<1>1. MMRRewind(MMRCache(base), n).first = n /\ MMRRewind(MMRCache(base), n).leaves = <<>>
  BY DEF MMRRewind, MMRCache
<1>2. SubSeq(base, 1, n) \in Seq(S)
  BY PrefixType
<1>3. SubSeq(base, 1, n) \o <<>> = SubSeq(base, 1, n)
  BY <1>2, ConcatProperties
<1> QED  BY <1>1, <1>3 DEF Leaves

\* The leaf of a coin, and the coin of a leaf.
LEMMA LeafOfCoin ==
    ASSUME NEW s \in StateType, CoinsSound(s), NEW x
    PROVE  x \in s.leafset
               <=> \E c \in Commitment : CoinsOf(s, c) = <<x>> /\ <<c, x>> \in s.utxos
<1>1. s.leafset = {u[2] : u \in s.utxos} /\ \A u \in s.utxos : u \in Commitment \X Nat
  BY DEF CoinsSound, StateType
<1>2. ASSUME x \in s.leafset
      PROVE  \E c \in Commitment : CoinsOf(s, c) = <<x>> /\ <<c, x>> \in s.utxos
  <2>1. PICK u \in s.utxos : u[2] = x
    BY <1>1, <1>2
  <2>2. u[1] \in Commitment /\ u = <<u[1], x>>
    BY <1>1, <2>1
  <2>3. CoinsOf(s, u[1]) = <<x>>
    BY <2>1, <2>2, CoinsOfIs
  <2> QED  BY <2>1, <2>2, <2>3
<1>3. ASSUME NEW c \in Commitment, <<c, x>> \in s.utxos PROVE x \in s.leafset
  <2>1. <<c, x>>[2] = x
    OBVIOUS
  <2> QED  BY <1>1, <1>3, <2>1
<1> QED  BY <1>2, <1>3

\* The leaves of s are those of t below its end and those the undo brings back.
LEMMA UndoLeafset ==
    ASSUME NEW s \in StateType, CoinsSound(s), NEW t \in StateType, CoinsSound(t),
           Follows(s, t), NEW u \in UndoType, UndoOK(u, s, t)
    PROVE  s.leafset = (t.leafset \cup ({u.spent[c] : c \in Commitment} \ {NoCoin}))
                           \ (Len(s.txos) .. Len(t.txos) - 1)
<1> DEFINE n == Len(s.txos)
           m == Len(t.txos)
           back == {u.spent[c] : c \in Commitment} \ {NoCoin}
<1>1. n \in Nat /\ m \in Nat /\ n <= m
  BY DEF StateType, Follows
<1>2. \A c \in Commitment : u.spent[c] \in Nat \cup {NoCoin}
  BY DEF UndoType
<1>3. /\ \A x \in s.leafset : x \in Nat /\ x < n
      /\ \A x \in t.leafset : x \in Nat /\ x < m
  BY DEF CoinsSound, StateType
<1>4. ASSUME NEW x \in s.leafset PROVE x \in t.leafset \cup back
  <2>1. PICK c \in Commitment : CoinsOf(s, c) = <<x>>
    BY LeafOfCoin
  <2>2. CASE u.spent[c] # NoCoin
    <3>1. <<x>> = <<u.spent[c]>>
      BY <2>1, <2>2 DEF UndoOK
    <3>2. u.spent[c] \in back
      BY <2>2
    <3> QED  BY <3>1, <3>2
  <2>3. CASE u.spent[c] = NoCoin
    <3>1. <<x>> # <<>>
      OBVIOUS
    <3>2. CoinsOf(t, c) = <<x>>
      BY <2>1, <2>3, <3>1 DEF UndoOK
    <3>3. PICK l \in Nat : CoinsOf(t, c) = <<l>> /\ <<c, l>> \in t.utxos
      BY <3>1, <3>2, CoinsOfIs
    <3>4. l = x
      BY <3>2, <3>3
    <3> QED  BY <3>2, <3>3, <3>4, LeafOfCoin
  <2> QED  BY <2>2, <2>3
<1>5. ASSUME NEW x \in back PROVE x \in s.leafset
  <2>1. PICK c \in Commitment : u.spent[c] = x /\ x # NoCoin
    OBVIOUS
  <2>2. CoinsOf(s, c) = <<x>>
    BY <2>1 DEF UndoOK
  <2>3. <<x>> # <<>>
    OBVIOUS
  <2>4. PICK l \in Nat : CoinsOf(s, c) = <<l>> /\ <<c, l>> \in s.utxos
    BY <2>2, <2>3, CoinsOfIs
  <2>5. l = x
    BY <2>2, <2>4
  <2> QED  BY <2>2, <2>4, <2>5, LeafOfCoin
<1>6. ASSUME NEW x \in t.leafset, x < n PROVE x \in s.leafset
  <2>1. PICK w \in t.utxos : w[2] = x
    BY DEF CoinsSound
  <2>2. w \in s.utxos
    BY <1>6, <2>1 DEF Follows, Grows
  <2> QED  BY <2>1, <2>2 DEF CoinsSound
<1> HIDE DEF n, m
<1>7. \A x : x \in s.leafset <=> x \in (t.leafset \cup back) \ (n .. m - 1)
  <2>1. \A x \in s.leafset : x \notin n .. m - 1
    BY <1>1, <1>3
  <2>2. \A x \in t.leafset : x \notin n .. m - 1 => x < n
    BY <1>1, <1>3
  <2> QED  BY <1>4, <1>5, <1>6, <2>1, <2>2
<1> QED  BY <1>7 DEF n, m

\* The header before a block commits to what DisconnectBlock makes of a view
\* of the state after it.
LEMMA DisconnectPasses ==
    ASSUME NEW s \in StateType, CoinsSound(s), Committed(s),
           NEW t \in StateType, CoinsSound(t), Follows(s, t),
           NEW v \in ViewType, Represents(v, t), v.outs = t.txos, v.kern = t.kernels,
           NEW u \in UndoType, UndoOK(u, s, t)
    PROVE  ValidateMMRs(ViewOf(UndoBlock(NewCache(v), u), v), u.prev)
<1> DEFINE k == UndoBlock(NewCache(v), u)
           w == ViewOf(k, v)
           back == {u.spent[c] : c \in Commitment} \ {NoCoin}
<1>1. /\ k.leafset = LeafSetRewind(LeafSetCache(v.leafset), u.prev.numTXOs, back)
      /\ k.kern = MMRRewind(MMRCache(v.kern), u.prev.numKernels)
      /\ k.outs = MMRRewind(MMRCache(v.outs), u.prev.numTXOs)
  <2>1. k = [hdr     |-> u.prev,
             upd     |-> [c \in Commitment |-> UndoUpdate(u, c)],
             leafset |-> LeafSetRewind(LeafSetCache(v.leafset), u.prev.numTXOs, back),
             kern    |-> MMRRewind(MMRCache(v.kern), u.prev.numKernels),
             outs    |-> MMRRewind(MMRCache(v.outs), u.prev.numTXOs)]
    BY UndoBlockFields
  <2> QED  BY <2>1
<1>2. /\ u.prev = s.hdr /\ u.prev = HeaderOf(s.txos, s.kernels, s.leafset)
      /\ u.prev.numTXOs = Len(s.txos) /\ u.prev.numKernels = Len(s.kernels)
  BY CommittedFields DEF UndoOK, Committed
<1>3. /\ v.kern \in Seq(Kernel) /\ v.outs \in Seq(Commitment)
      /\ s.txos \in Seq(Commitment) /\ s.kernels \in Seq(Kernel)
      /\ Len(s.txos) \in Nat /\ Len(s.kernels) \in Nat
      /\ v.leafset \in [bits : SUBSET Nat, next : Nat]
      /\ back \in SUBSET Nat
  BY DEF ViewType, StateType, UndoType
<1>4. /\ w.leafset = LeafSetView(k.leafset, v.leafset)
      /\ w.kern = Leaves(k.kern, v.kern) /\ w.outs = Leaves(k.outs, v.outs)
  BY DEF ViewOf
<1> HIDE DEF k, w
<1>5. w.outs = s.txos
  BY <1>1, <1>2, <1>3, <1>4, CutLeaves DEF Follows
<1>6. w.kern = s.kernels
  BY <1>1, <1>2, <1>3, <1>4, CutLeaves DEF Follows
<1>7. w.leafset.next = Len(s.txos) /\ w.leafset.bits = s.leafset
  <2>1. v.leafset.bits = t.leafset /\ v.leafset.next = Len(t.txos)
    BY DEF Represents
  <2>2. s.leafset = (t.leafset \cup back) \ (Len(s.txos) .. Len(t.txos) - 1)
    BY UndoLeafset
  <2> HIDE DEF back
  <2>3. w.leafset = [bits |-> (v.leafset.bits \cup back)
                                  \ (Len(s.txos) .. v.leafset.next - 1),
                     next |-> Len(s.txos)]
    <3>1. k.leafset = LeafSetRewind(LeafSetCache(v.leafset), Len(s.txos), back)
      BY <1>1, <1>2
    <3>2. LeafSetView(LeafSetRewind(LeafSetCache(v.leafset), Len(s.txos), back), v.leafset)
            = [bits |-> (v.leafset.bits \cup back)
                            \ (Len(s.txos) .. v.leafset.next - 1),
               next |-> Len(s.txos)]
      BY <1>3, LeafSetOfUndo
    <3> QED  BY <1>4, <3>1, <3>2
  <2> QED  BY <2>1, <2>2, <2>3
<1>8. ValidateMMRs(w, u.prev)
  BY <1>2, <1>5, <1>6, <1>7, CommittedPasses
<1> QED  BY <1>8 DEF w, k

AcceptInv == ChainInv /\ LedgerFollows

\* Every step keeps the states of the ledger following one another,
LEMMA NextAcceptInv ==
    ASSUME Network, ~ReorgFlush, AcceptInv, [Next]_vars
    PROVE  AcceptInv'
<1>1. ChainInv /\ ChainInv' /\ CoinsInv
  BY NextChainInv DEF AcceptInv, ChainInv
<1>2. ledger \in Seq(StateType) /\ Len(ledger) \in Nat \ {0}
  BY <1>1, TipIsTop
<1>3. CASE \E b \in Offered : ConnectBlock(b)
  <2>1. PICK b \in Offered : ConnectBlock(b)
    BY <1>3
  <2> DEFINE t == Apply(Top(ledger), b)
  <2>2. ledger' = Append(ledger, t)
    BY <2>1 DEF ConnectBlock
  <2>3. t \in StateType /\ Follows(Top(ledger), t)
    <3>1. t \in StateType /\ Extends(Top(ledger), b) /\ b \in Body
      BY <1>1, <2>1, ConnectFacts
    <3>2. Top(ledger) \in StateType /\ CoinsSound(Top(ledger))
      BY <1>1, LedgerTop DEF CoinsInv, LedgerSound
    <3> QED  BY <3>1, <3>2, ApplyFollows
  <2>4. Top(ledger) = ledger[Len(ledger)]
    BY DEF Top
  <2> HIDE DEF t
  <2>5. /\ Len(ledger') = Len(ledger) + 1 /\ ledger'[Len(ledger) + 1] = t
        /\ \A i \in 1 .. Len(ledger) : ledger'[i] = ledger[i]
    BY <1>2, <2>2, <2>3, AppendType
  <2>6. ASSUME NEW i \in 1 .. Len(ledger') - 1
        PROVE  Follows(ledger'[i], ledger'[i + 1])
    <3>1. CASE i = Len(ledger)
      BY <1>2, <2>3, <2>4, <2>5, <3>1
    <3>2. CASE i # Len(ledger)
      <4>1. i \in 1 .. Len(ledger) - 1
        BY <1>2, <2>5, <3>2
      <4>2. ledger'[i] = ledger[i] /\ ledger'[i + 1] = ledger[i + 1]
        BY <1>2, <2>5, <4>1
      <4> QED  BY <4>1, <4>2 DEF AcceptInv, LedgerFollows
    <3> QED  BY <3>1, <3>2
  <2>7. ledger'[1] = Genesis
    BY <1>2, <2>5 DEF AcceptInv, LedgerFollows
  <2> QED  BY <1>1, <2>6, <2>7 DEF AcceptInv, LedgerFollows
<1>4. CASE DisconnectBlock
  <2>1. ledger' = ButLast(ledger) /\ Len(ledger) >= 3
    BY <1>1, <1>4, DisconnectFacts DEF DisconnectBlock
  <2>2. /\ Len(ledger') = Len(ledger) - 1
        /\ \A i \in 1 .. Len(ledger) - 1 : ledger'[i] = ledger[i]
    BY <1>2, <2>1, ButLastType
  <2>3. ASSUME NEW i \in 1 .. Len(ledger') - 1
        PROVE  Follows(ledger'[i], ledger'[i + 1])
    <3>1. i \in 1 .. Len(ledger) - 1 /\ ledger'[i] = ledger[i] /\ ledger'[i + 1] = ledger[i + 1]
      BY <1>2, <2>1, <2>2
    <3> QED  BY <3>1 DEF AcceptInv, LedgerFollows
  <2>4. ledger'[1] = Genesis
    BY <1>2, <2>1, <2>2 DEF AcceptInv, LedgerFollows
  <2> QED  BY <1>1, <2>3, <2>4 DEF AcceptInv, LedgerFollows
<1>5. CASE ledger' = ledger
  BY <1>1, <1>5 DEF AcceptInv, LedgerFollows
<1> QED  BY <1>3, <1>4, <1>5 DEF Next, FlushCache, FlushCacheThrows, vars

\* in every state.
LEMMA AcceptInvariance == Network /\ ~ReorgFlush => (Spec => []AcceptInv)
<1>1. SUFFICES ASSUME Network, ~ReorgFlush PROVE Spec => []AcceptInv
  OBVIOUS
<1>2. Init => AcceptInv
  <2> SUFFICES ASSUME Init PROVE LedgerFollows
    BY InitChainInv DEF AcceptInv
  <2>1. Len(ledger) = 1 /\ ledger[1] = Genesis
    BY DEF Init
  <2> QED  BY <2>1 DEF LedgerFollows
<1>3. AcceptInv /\ [Next]_vars => AcceptInv'
  BY <1>1, NextAcceptInv
<1> QED  BY <1>2, <1>3, PTL DEF Spec

\* Every block but the first can be disconnected: what the undo makes of the
\* view, MMRs cut and leafset rewound, passes the check of the header before.
THEOREM UndosDisconnect == Network /\ ~ReorgFlush => (Spec => []EveryUndoDisconnects)
<1>1. SUFFICES ASSUME Network, ~ReorgFlush PROVE Spec => []EveryUndoDisconnects
  OBVIOUS
<1>2. ASSUME AcceptInv PROVE EveryUndoDisconnects
  <2> SUFFICES ASSUME Len(undos) > KeepBlocks PROVE Disconnects(TipView, Top(undos))
    BY DEF EveryUndoDisconnects
  <2> DEFINE n == Len(undos)
             v == TipView
             u == undos[n]
             s == ledger[n]
             t == ledger[n + 1]
  <2>1. TypeInv /\ LedgerSound /\ UndosLead /\ ViewsSound /\ Faithful /\ LedgerFollows
    BY <1>2 DEF AcceptInv, ChainInv, CoinsInv
  <2>2. /\ undos \in Seq(UndoType) /\ ledger \in Seq(StateType)
        /\ Len(ledger) = n + 1 /\ n \in Nat /\ n >= 2
    BY <1>1, <2>1, EnvironmentAssumption DEF TypeInv, TypeOK, Network
  <2>3. Top(undos) = u /\ Top(ledger) = t
    BY <2>2 DEF Top
  <2>4. u \in UndoType /\ s \in StateType /\ t \in StateType
    BY <2>2
  <2>5. CoinsSound(s) /\ Committed(s) /\ CoinsSound(t) /\ UndoOK(u, s, t) /\ Follows(s, t)
    <3> HIDE DEF n
    <3>1. n \in 1 .. Len(ledger) /\ n + 1 \in 1 .. Len(ledger) /\ n > 1
          /\ n \in 1 .. Len(ledger) - 1 /\ n \in 1 .. n
      BY <2>2
    <3>2. CoinsSound(s) /\ Committed(s) /\ CoinsSound(t) /\ Follows(s, t)
      BY <2>1, <3>1 DEF LedgerSound, LedgerFollows
    <3>3. UndoOK(u, s, t)
      BY <2>1, <3>1 DEF UndosLead, n
    <3> QED  BY <3>2, <3>3
  <2>6. v \in ViewType /\ Represents(v, t) /\ v.outs = t.txos /\ v.kern = t.kernels
    BY <2>1, <2>3, TipViewType DEF ViewsSound, Faithful
  <2> HIDE DEF v, u, s, t
  <2>7. ValidateMMRs(ViewOf(UndoBlock(NewCache(v), u), v), u.prev)
    BY <2>4, <2>5, <2>6, DisconnectPasses
  <2> QED  BY <2>3, <2>7 DEF Disconnects, v
<1> QED  BY <1>1, <1>2, AcceptInvariance, PTL

\* As long as no flush replaces leaves that the hash files hold, the MMRs of
\* the node's view are those that its header commits to, at any time and not
\* only while a block is connected.
THEOREM ViewMatchesHeader == Network /\ ~ReorgFlush => (Spec => []HeaderMatchesView)
<1>1. SUFFICES ASSUME Network, ~ReorgFlush PROVE Spec => []HeaderMatchesView
  OBVIOUS
<1>2. ASSUME AcceptInv PROVE HeaderMatchesView
  <2> SUFFICES ASSUME cache.hdr # NoHeader PROVE ValidateMMRs(TipView, cache.hdr)
    BY DEF HeaderMatchesView
  <2> DEFINE s == Top(ledger)
             n == Len(ledger)
  <2>1. /\ TypeInv /\ LedgerSound /\ Represents(TipView, s)
        /\ TipView.outs = s.txos /\ TipView.kern = s.kernels
        /\ ledger[1] = Genesis
    BY <1>2 DEF AcceptInv, ChainInv, CoinsInv, ViewsSound, Faithful, LedgerFollows
  <2>2. n \in Nat /\ n >= 1 /\ s = ledger[n]
    BY <2>1 DEF TypeInv, TypeOK, Top
  <2>3. TipView.hdr = cache.hdr
    BY DEF TipView, ViewOf
  <2>4. cache.hdr = s.hdr /\ TipView.leafset = [bits |-> s.leafset, next |-> Len(s.txos)]
    BY <2>1, <2>3 DEF Represents
  <2>5. Committed(s)
    <3>1. n # 1
      BY <2>1, <2>2, <2>4 DEF Genesis, State
    <3> HIDE DEF n, s
    <3>2. n \in 1 .. n /\ n > 1
      BY <2>2, <3>1
    <3> QED  BY <2>1, <2>2, <3>2 DEF LedgerSound, n
  <2>6. TipView.leafset.next = Len(s.txos) /\ TipView.leafset.bits = s.leafset
    BY <2>4
  <2> HIDE DEF n, s
  <2> QED  BY <2>1, <2>4, <2>5, <2>6, CommittedPasses DEF Committed
<1> QED  BY <1>1, <1>2, AcceptInvariance, PTL

\* As long as the first block stays connected, the view is at the last block
\* still connected, whatever the flushes do to the hash files.
THEOREM ViewFollowsTip == Network => (Spec => []ViewAtTip)
<1>1. CoinsInv => ViewAtTip
  BY DEF CoinsInv, ViewsSound, Represents, ViewAtTip
<1> QED  BY <1>1, CoinsInvariance, PTL
=============================================================================
