-------------------------------- MODULE Node --------------------------------
(***************************************************************************)
(* The node's chain state: a CoinsViewDB, one long-lived CoinsViewCache    *)
(* over it, and the calls the surrounding node makes: ConnectBlock and     *)
(* DisconnectBlock on the cache (each through a temporary cache of its     *)
(* own, flushed at the end), and FlushCache followed by the commit of the  *)
(* database batch.                                                         *)
(*                                                                         *)
(* The blocks and their headers come from the network, which follows the   *)
(* rules of ChainState: ledger holds the states of the active chain.       *)
(* A call that throws leaves the cache as it was, because only the         *)
(* temporary cache was touched; such calls are not steps of the model.     *)
(***************************************************************************)
EXTENDS CoinsView

CONSTANTS
    UniqueOutputs,  \* the blocks offered re-create no unspent commitment
    ReorgFlush,     \* the cache may be flushed after it replaced leaves that
                    \* the hash files already hold
    KeepBlocks      \* blocks at the bottom of the chain never disconnected

ASSUME EnvironmentAssumption ==
    UniqueOutputs \in BOOLEAN /\ ReorgFlush \in BOOLEAN /\ KeepBlocks \in Nat

VARIABLES
    db,         \* the CoinsViewDB with the files and tables under it
    cache,      \* the CoinsViewCache over db
    undos,      \* the BlockUndo of every connected block, kept by the caller
    ledger      \* the states of the active chain, from the genesis to the tip

vars == <<db, cache, undos, ledger>>

TipView == ViewOf(cache, DBView(db))
-----------------------------------------------------------------------------
EmptyDB ==
    [hdr     |-> NoHeader,
     coins   |-> [c \in Commitment |-> NoCoin],
     leafset |-> [bits |-> {}, next |-> 0],
     kern    |-> <<>>, outs |-> <<>>]

Init ==
    /\ db = EmptyDB
    /\ cache = NewCache(DBView(EmptyDB))
    /\ undos = <<>>
    /\ ledger = <<Genesis>>

\* The blocks the network may offer on top of its tip.
Offered ==
    {b \in Body :
        /\ b.ins \subseteq Unspent(Top(ledger))
        /\ UniqueOutputs => Extends(Top(ledger), b)
        /\ Len(Top(ledger).txos) + Len(b.outs) <= MaxTXOs}

\* The actions the cache holds for c pop more coins than its base has: reading
\* c then fails an assertion.
Underflow(c) == cache.upd[c].pops > Len(DBView(db).coins[c])

\* ConnectBlock of b on view v gets through: every input can be read and
\* spent, and the header commits to the result.
Connects(v, b) ==
    LET hdr == Apply(Top(ledger), b).hdr
    IN  /\ \A c \in b.ins : ~Underflow(c) /\ CanSpend(v, c)
        /\ ValidateMMRs(ViewOf(ApplyBlock(NewCache(v), v, b, hdr), v), hdr)

ConnectBlock(b) ==
    LET v    == TipView
        next == Apply(Top(ledger), b)
    IN  /\ Len(undos) < MaxBlocks
        /\ Connects(v, b)
        /\ cache' = FlushToCache(cache, ApplyBlock(NewCache(v), v, b, next.hdr))
        /\ undos' = Append(undos, BlockUndo(v, b))
        /\ ledger' = Append(ledger, next)
        /\ UNCHANGED db

\* DisconnectBlock with u on view v gets through: there is no header to check,
\* or the previous header commits to the result.
Disconnects(v, u) ==
    u.prev # NoHeader => ValidateMMRs(ViewOf(UndoBlock(NewCache(v), u), v), u.prev)

\* Undoing the first block rewinds the temporary cache to nothing and sets its
\* header to null, upon which Flush returns before it writes anything.
DisconnectBlock ==
    LET v == TipView
        u == Top(undos)
    IN  /\ Len(undos) > KeepBlocks
        /\ Disconnects(v, u)
        /\ \/ /\ u.prev = NoHeader
              /\ UNCHANGED cache
           \/ /\ u.prev # NoHeader
              /\ cache' = FlushToCache(cache, UndoBlock(NewCache(v), u))
        /\ undos' = ButLast(undos)
        /\ ledger' = ButLast(ledger)
        /\ UNCHANGED db

\* The flush replaces no leaf that a hash file holds.
Extending(m, file) == m.leaves = <<>> \/ m.first = Len(file)

\* Flush returns at once on a null header.
MayFlush ==
    /\ cache.hdr # NoHeader
    /\ \/ ReorgFlush
       \/ Extending(cache.kern, db.kern) /\ Extending(cache.outs, db.outs)

FlushCache ==
    /\ MayFlush
    /\ ~WriteBatchThrows(db, cache)
    /\ db' = FlushToDB(db, cache)
    /\ cache' = Flushed(cache)
    /\ UNCHANGED <<undos, ledger>>

\* WriteBatch sets the header of the database view before it throws; the
\* batch is never committed.
FlushCacheThrows ==
    /\ MayFlush
    /\ WriteBatchThrows(db, cache)
    /\ db' = [db EXCEPT !.hdr = cache.hdr]
    /\ UNCHANGED <<cache, undos, ledger>>

Next ==
    \/ \E b \in Offered : ConnectBlock(b)
    \/ DisconnectBlock
    \/ FlushCache
    \/ FlushCacheThrows

Spec == Init /\ [][Next]_vars
-----------------------------------------------------------------------------
(* Properties.                                                             *)

\* The type of every variable; undos and ledger have an entry per block.
TypeOK ==
    /\ db \in DBType
    /\ cache \in CacheType
    /\ undos \in Seq(UndoType)
    /\ ledger \in Seq(StateType)
    /\ Len(ledger) = Len(undos) + 1

\* A view's coins and its leafset say the same: no commitment has two coins,
\* no leaf belongs to two, and the bits set are exactly the coins' leaves.
Consistent(v) ==
    /\ v.leafset.bits \subseteq 0 .. v.leafset.next - 1
    /\ \A c \in Commitment :
          /\ Len(v.coins[c]) <= 1
          /\ v.coins[c] # <<>> => v.coins[c][1] \in v.leafset.bits
    /\ \A l \in v.leafset.bits : \E c \in Commitment : v.coins[c] = <<l>>
    /\ \A c, d \in Commitment :
          c # d /\ v.coins[c] # <<>> => v.coins[c] # v.coins[d]

\* The coins and the leafset, which travel to the database along different
\* ways (WriteBatch into the batch, LeafSetCache::Flush into a file), agree in
\* the node's view and in the database after any blocks, reorgs and flushes.
CoinsMatchLeafset == Consistent(TipView) /\ Consistent(DBView(db))

\* The end of the leafset, which no header commits to but for the byte it is
\* in, is the number of outputs, also when outputs are re-created.
LeafsetFollowsMMR ==
    \A v \in {TipView, DBView(db)} :
        /\ v.leafset.next = Len(v.outs)
        /\ v.leafset.bits \subseteq 0 .. v.leafset.next - 1

\* The actions of the cache never remove more coins than the database has: no
\* read of the cache fails its assertion and no WriteBatch throws UTXO_MISSING.
NoUnderflow == \A c \in Commitment : ~Underflow(c)

\* HasCoinInCache, which looks at the last action alone, holds of no coin that is
\* spent, through any reorgs, and misses none that the database does not have.
CacheKnowsNewCoins ==
    \A c \in Commitment :
        IF HasCoinInCache(cache, c)
        THEN TipView.coins[c] = <<cache.upd[c].last>>
        ELSE TipView.coins[c] \in {<<>>, DBView(db).coins[c]}

\* Every block that extends the network's chain connects to the node's.
EveryOfferConnects == \A b \in Offered : Connects(TipView, b)

\* Every block that may be disconnected passes the check of the header before.
EveryUndoDisconnects ==
    Len(undos) > KeepBlocks => Disconnects(TipView, Top(undos))

\* A flush moves coins from the cache to the database and changes no coin and
\* no leaf that the node sees.
FlushKeepsCoins ==
    [][db' # db => /\ TipView'.coins = TipView.coins
                   /\ TipView'.leafset = TipView.leafset]_vars

\* The consensus document: after adding a block's outputs and kernels to the
\* end of the MMRs, "the root shall match the header's".
HeaderMatchesView ==
    cache.hdr # NoHeader => ValidateMMRs(TipView, cache.hdr)

\* DisconnectBlock "removes a MW ext block from the end of the chain in the
\* given CoinsView": the view is always at the last block still connected.
ViewAtTip == TipView.hdr = Top(ledger).hdr

\* What a view says, as a state of the chain.
Abstract(v) ==
    [hdr     |-> v.hdr, txos |-> v.outs, kernels |-> v.kern,
     utxos   |-> UNION {{<<c, v.coins[c][i]>> : i \in DOMAIN v.coins[c]} :
                           c \in Commitment},
     leafset |-> v.leafset.bits]

Chain == INSTANCE ExtBlockChain WITH
            tip   <- Abstract(TipView),
            below <- ButLast(ledger),
            saved <- Abstract(DBView(db))

\* The caches and the database implement the stack of states: the node's view
\* is the tip, a disconnect restores the view before the block, and a flush
\* makes the database hold the view.
ImplementsChain == Chain!Spec

\* A header commits to all of a state: where the node's view, the database and
\* the states below the tip have one header, coins and leafset are the same.
\* Comparing roots, as ValidateMMRs does, is enough.
HeaderCommits == Chain!HeaderCommits

\* An output that a block of the chain spent is never unspent in a later state,
\* the node's view included: only DisconnectBlock brings a coin back.
SpentStaysSpent == Chain!SpentStaysSpent
=============================================================================
