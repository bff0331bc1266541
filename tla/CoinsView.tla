------------------------------ MODULE CoinsView ------------------------------
(***************************************************************************)
(* The coins views of the node: a database view, the long-lived cache the  *)
(* node keeps on top of it, and the temporary cache in which ConnectBlock  *)
(* and DisconnectBlock work before they flush it into the long-lived one.  *)
(* This module has the operations; module Node has the behaviour.          *)
(*                                                                         *)
(* A coin (UTXO) of a commitment is represented by its leaf index.  The    *)
(* actions a cache holds for a commitment are kept in normal form (module  *)
(* CoinActions shows that the form answers every question the code asks    *)
(* of the list): how many coins of the base they remove, the coins they    *)
(* leave on top, and the last action.                                      *)
(***************************************************************************)
EXTENDS ChainState

Top(s) == s[Len(s)]
ButLast(s) == SubSeq(s, 1, Len(s) - 1)
-----------------------------------------------------------------------------
(* CoinsViewUpdates: the actions on one commitment.                        *)

NoAction == -2      \* there is none
NoCoin   == -1      \* a null UTXO: a spend; in the database: no coin

NoUpdate == [pops |-> 0, pushes |-> <<>>, last |-> NoAction]

AddAction(u, leaf) ==
    [pops |-> u.pops, pushes |-> Append(u.pushes, leaf), last |-> leaf]

SpendAction(u) ==
    IF u.pushes # <<>>
    THEN [pops |-> u.pops, pushes |-> ButLast(u.pushes), last |-> NoCoin]
    ELSE [pops |-> u.pops + 1, pushes |-> <<>>, last |-> NoCoin]

\* Mutant: spends of w do not take back what u added.
Concat(u, w) ==
    [pops   |-> u.pops + w.pops,
     pushes |-> u.pushes \o w.pushes,
     last   |-> IF w.last = NoAction THEN u.last ELSE w.last]

\* The actions u followed by the actions w.
Then(u, w) ==
    [pops   |-> IF w.pops <= Len(u.pushes)
                THEN u.pops ELSE u.pops + w.pops - Len(u.pushes),
     pushes |-> SubSeq(u.pushes, 1, Len(u.pushes) - w.pops) \o w.pushes,
     last   |-> IF w.last = NoAction THEN u.last ELSE w.last]

\* The coins that remain of coins when u is replayed (GetUTXOs).
Replay(coins, u) == SubSeq(coins, 1, Len(coins) - u.pops) \o u.pushes
-----------------------------------------------------------------------------
(* MMRCache: the leaves from first on, over a base that holds the rest.    *)

MMRCache(base) == [first |-> Len(base), leaves |-> <<>>]

Leaves(m, base) == SubSeq(base, 1, m.first) \o m.leaves

NumLeaves(m) == m.first + Len(m.leaves)

MMRAdd(m, new) == [first |-> m.first, leaves |-> m.leaves \o new]

MMRRewind(m, n) ==
    IF n <= m.first
    THEN [first |-> n, leaves |-> <<>>]
    ELSE [first  |-> m.first,
          leaves |-> IF n < NumLeaves(m) THEN SubSeq(m.leaves, 1, n - m.first)
                                         ELSE m.leaves]

\* Mutant: the leaves are written without the rewind.
MMRBatchAppend(m, w) == MMRAdd(m, w.leaves)

MMRBatchWrite(m, w) == MMRAdd(MMRRewind(m, w.first), w.leaves)

\* The hash file after BatchWrite, one entry for the hashes a leaf adds.  The
\* file is opened for appending, which ignores the position sought: new
\* entries land behind the old tail and the truncation that follows cuts the
\* file to the right length, whatever it then holds.  (Entries behind an old
\* tail are out of step with the positions of the hashes in them; that they
\* are wrong is what the model tells, not in which way.)
HashFileWrite(file, w) ==
    IF w.leaves = <<>>
    THEN SubSeq(file, 1, w.first)
    ELSE SubSeq(file \o w.leaves, 1, w.first + Len(w.leaves))
-----------------------------------------------------------------------------
(* LeafSetCache: the bits set (on) and cleared (off) over those of a base. *)

LeafSetCache(base) == [on |-> {}, off |-> {}, next |-> base.next]

LeafSetView(l, base) ==
    [bits |-> (base.bits \ l.off) \cup l.on, next |-> l.next]

LeafSetRemove(l, leaves) ==
    [on |-> l.on \ leaves, off |-> l.off \cup leaves, next |-> l.next]

\* Add of n leaves from first on.
LeafSetAdd(l, first, n) ==
    LET leaves == first .. first + n - 1
    IN  [on   |-> l.on \cup leaves,
         off  |-> l.off \ leaves,
         next |-> IF n > 0 /\ first + n > l.next THEN first + n ELSE l.next]

\* Mutant: the leaves given are not added back.
LeafSetCut(l, n, leaves) ==
    [on |-> l.on \ (n .. l.next - 1), off |-> l.off \cup (n .. l.next - 1),
     next |-> n]

\* Mutant: the end of the leafset is not moved.
LeafSetClear(l, n, leaves) ==
    [on   |-> (l.on \cup leaves) \ (n .. l.next - 1),
     off  |-> (l.off \ leaves) \cup (n .. l.next - 1),
     next |-> l.next]

\* Rewind to n leaves.  The leaves added back are those of coins older than
\* the block that spent them, so they never move the end.
LeafSetRewind(l, n, leaves) ==
    LET past == n .. l.next - 1
    IN  [on   |-> (l.on \cup leaves) \ past,
         off  |-> (l.off \ leaves) \cup past,
         next |-> n]

\* Mutant: bits cleared above stay set below.
LeafSetFlushAdds(l, w) ==
    [on |-> l.on \cup w.on, off |-> (l.off \ w.on) \cup w.off, next |-> w.next]

\* Flush of w into the cache l, and into a file: the file is cut to its end.
LeafSetFlush(l, w) ==
    [on |-> (l.on \ w.off) \cup w.on, off |-> (l.off \ w.on) \cup w.off,
     next |-> w.next]

LeafSetWrite(file, w) ==
    [bits |-> ((file.bits \ w.off) \cup w.on) \ (w.next .. file.next - 1),
     next |-> w.next]
-----------------------------------------------------------------------------
(* Views.  A view is what the four getters of ICoinsView answer; a cache   *)
(* is what it holds over the view of its base.                             *)

DBView(d) ==
    [hdr     |-> d.hdr,
     coins   |-> [c \in Commitment |->
                     IF d.coins[c] = NoCoin THEN <<>> ELSE <<d.coins[c]>>],
     leafset |-> d.leafset, kern |-> d.kern, outs |-> d.outs]

NewCache(v) ==
    [hdr     |-> v.hdr,
     upd     |-> [c \in Commitment |-> NoUpdate],
     leafset |-> LeafSetCache(v.leafset),
     kern    |-> MMRCache(v.kern), outs |-> MMRCache(v.outs)]

ViewOf(k, v) ==
    [hdr     |-> k.hdr,
     coins   |-> [c \in Commitment |-> Replay(v.coins[c], k.upd[c])],
     leafset |-> LeafSetView(k.leafset, v.leafset),
     kern    |-> Leaves(k.kern, v.kern),
     outs    |-> Leaves(k.outs, v.outs)]

\* Mutant: any action counts, a spend too.
HasAction(k, c) == k.upd[c].last # NoAction

\* The last action on a commitment added a coin.
HasCoinInCache(k, c) == k.upd[c].last \notin {NoAction, NoCoin}

\* The header check after a block was applied or undone (MMR_MISMATCH).
ValidateMMRs(v, hdr) ==
    /\ hdr.kernel_root = v.kern
    /\ hdr.numKernels = Len(v.kern)
    /\ hdr.output_root = v.outs
    /\ hdr.numTXOs = Len(v.outs)
    /\ hdr.leafset_root =
          <<(v.leafset.next + ByteBits - 1) \div ByteBits, v.leafset.bits>>
-----------------------------------------------------------------------------
(* A block applied to, and undone from, a cache k over view v.             *)

Position(b, c) == CHOOSE i \in DOMAIN b.outs : b.outs[i] = c

CanSpend(v, c) == v.coins[c] # <<>> /\ Top(v.coins[c]) \in v.leafset.bits

ApplyBlock(k, v, b, hdr) ==
    LET w    == ViewOf(k, v)
        size == NumLeaves(k.outs)
        Spend(u, c) == IF c \in b.ins THEN SpendAction(u) ELSE u
        Add(u, c) == IF c \in Outs(b)
                     THEN AddAction(u, size + Position(b, c) - 1) ELSE u
    IN  [hdr     |-> hdr,
         upd     |-> [c \in Commitment |-> Add(Spend(k.upd[c], c), c)],
         leafset |-> LeafSetAdd(
                        LeafSetRemove(k.leafset, {Top(w.coins[c]) : c \in b.ins}),
                        size, Len(b.outs)),
         kern    |-> MMRAdd(k.kern, b.kernels),
         outs    |-> MMRAdd(k.outs, b.outs)]

\* What ApplyBlock returns for UndoBlock, v being the view before the block.
BlockUndo(v, b) ==
    [prev  |-> v.hdr,
     spent |-> [c \in Commitment |->
                  IF c \in b.ins THEN Top(v.coins[c]) ELSE NoCoin],
     added |-> Outs(b)]

UndoBlock(k, u) ==
    LET Remove(w, c) == IF c \in u.added THEN SpendAction(w) ELSE w
        AddBack(w, c) == IF u.spent[c] # NoCoin
                         THEN AddAction(w, u.spent[c]) ELSE w
    IN  [hdr     |-> u.prev,
         upd     |-> [c \in Commitment |-> AddBack(Remove(k.upd[c], c), c)],
         leafset |-> LeafSetRewind(k.leafset, u.prev.numTXOs,
                                   {u.spent[c] : c \in Commitment} \ {NoCoin}),
         kern    |-> MMRRewind(k.kern, u.prev.numKernels),
         outs    |-> MMRRewind(k.outs, u.prev.numTXOs)]
-----------------------------------------------------------------------------
(* Flush, into a cache and into the database.                              *)

\* Mutant: the best header is not handed down.
FlushKeepsHeader(j, k) ==
    [hdr     |-> j.hdr,
     upd     |-> [c \in Commitment |-> Then(j.upd[c], k.upd[c])],
     leafset |-> LeafSetFlush(j.leafset, k.leafset),
     kern    |-> MMRBatchWrite(j.kern, k.kern),
     outs    |-> MMRBatchWrite(j.outs, k.outs)]

FlushToCache(j, k) ==
    [hdr     |-> k.hdr,
     upd     |-> [c \in Commitment |-> Then(j.upd[c], k.upd[c])],
     leafset |-> LeafSetFlush(j.leafset, k.leafset),
     kern    |-> MMRBatchWrite(j.kern, k.kern),
     outs    |-> MMRBatchWrite(j.outs, k.outs)]

\* CoinsViewDB::SpendUTXO finds neither a coin it added nor one on disk.
WriteBatchThrows(d, k) ==
    \E c \in Commitment : k.upd[c].pops > 0 /\ d.coins[c] = NoCoin

\* Mutant: keys without an action are written too.
WriteEveryKey(coins, upd) == [c \in Commitment |-> upd[c].last]

\* The table of coins after WriteBatch: the last action on a key decides.
WriteUpdates(coins, upd) ==
    [c \in Commitment |->
        IF upd[c].last = NoAction THEN coins[c] ELSE upd[c].last]

FlushToDB(d, k) ==
    [hdr     |-> k.hdr,
     coins   |-> WriteUpdates(d.coins, k.upd),
     leafset |-> LeafSetWrite(d.leafset, k.leafset),
     kern    |-> HashFileWrite(d.kern, k.kern),
     outs    |-> HashFileWrite(d.outs, k.outs)]

\* Mutant: the updates are not cleared.
FlushedKeepsUpdates(k) ==
    [hdr     |-> k.hdr,
     upd     |-> k.upd,
     leafset |-> [on |-> {}, off |-> {}, next |-> k.leafset.next],
     kern    |-> [first |-> NumLeaves(k.kern), leaves |-> <<>>],
     outs    |-> [first |-> NumLeaves(k.outs), leaves |-> <<>>]]

\* A cache after it was flushed into the database.
Flushed(k) ==
    [hdr     |-> k.hdr,
     upd     |-> [c \in Commitment |-> NoUpdate],
     leafset |-> [on |-> {}, off |-> {}, next |-> k.leafset.next],
     kern    |-> [first |-> NumLeaves(k.kern), leaves |-> <<>>],
     outs    |-> [first |-> NumLeaves(k.outs), leaves |-> <<>>]]
-----------------------------------------------------------------------------
(* Types.                                                                  *)

UpdateType == [pops : Nat, pushes : Seq(Nat), last : Nat \cup {NoAction, NoCoin}]

ViewType ==
    [hdr     : Header \cup {NoHeader},
     coins   : [Commitment -> Seq(Nat)],
     leafset : [bits : SUBSET Nat, next : Nat],
     kern    : Seq(Kernel),
     outs    : Seq(Commitment)]

CacheType ==
    [hdr     : Header \cup {NoHeader},
     upd     : [Commitment -> UpdateType],
     leafset : [on : SUBSET Nat, off : SUBSET Nat, next : Nat],
     kern    : [first : Nat, leaves : Seq(Kernel)],
     outs    : [first : Nat, leaves : Seq(Commitment)]]

DBType ==
    [hdr     : Header \cup {NoHeader},
     coins   : [Commitment -> Nat \cup {NoCoin}],
     leafset : [bits : SUBSET Nat, next : Nat],
     kern    : Seq(Kernel),
     outs    : Seq(Commitment)]

UndoType ==
    [prev  : Header \cup {NoHeader},
     spent : [Commitment -> Nat \cup {NoCoin}],
     added : SUBSET Commitment]
=============================================================================
