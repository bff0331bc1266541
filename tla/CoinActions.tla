----------------------------- MODULE CoinActions -----------------------------
(***************************************************************************)
(* The actions of one commitment as the code keeps them: every cache has   *)
(* the list of its CoinActions, GetUTXOs replays the lists from the base   *)
(* up, Flush of a cache into a cache appends its list, and Flush into the  *)
(* database replays the list through CoinDB and DBTransaction.  Module     *)
(* CoinsView keeps a normal form of each list instead; the properties say  *)
(* that the form gives the same answers.                                   *)
(***************************************************************************)
EXTENDS CoinsView

CONSTANTS
    Leaf,           \* leaf indices of the coins added
    MaxActions      \* bound: actions in the caches

ASSUME LeafAssumption == Leaf \subseteq Nat /\ MaxActions \in Nat

VARIABLES
    entry,      \* the commitment's entry in the UTXO table
    log,        \* the actions of the cache over the database
    temp        \* the actions of the temporary cache over that cache

lists == <<entry, log, temp>>

S == INSTANCE SequencesExt
-----------------------------------------------------------------------------
Coins == IF entry = NoCoin THEN <<>> ELSE <<entry>>

\* The replay of one action; popping from an empty vector is an assertion.
Assertion == <<NoAction>>

\* Mutant: a spend takes the oldest coin.
ReplayActionTakesOldest(coins, action) ==
    IF coins = Assertion \/ (action = NoCoin /\ coins = <<>>) THEN Assertion
    ELSE IF action = NoCoin THEN Tail(coins) ELSE Append(coins, action)

ReplayAction(coins, action) ==
    IF coins = Assertion \/ (action = NoCoin /\ coins = <<>>) THEN Assertion
    ELSE IF action = NoCoin THEN ButLast(coins) ELSE Append(coins, action)

GetUTXOs(coins, actions) == S!FoldLeft(ReplayAction, coins, actions)

\* A DBTransaction, seen from the commitment's key: value is what the batch will
\* make of the entry, added the map's list of coins, thrown whether a spend has.
Begin == [value |-> entry, added |-> <<>>, thrown |-> FALSE]

FindLast(added) == IF added = <<>> THEN NoCoin ELSE Top(added)

EraseLast(added) == IF added = <<>> THEN added ELSE ButLast(added)

Put(tx, coin) == [tx EXCEPT !.value = coin, !.added = Append(@, coin)]

\* Mutant: a coin that is only on disk is not found.
GetAdded(tx) == FindLast(tx.added)

\* The last coin added, or the one on disk, which an erase in the batch does not
\* hide.
Get(tx) == IF FindLast(tx.added) # NoCoin THEN FindLast(tx.added) ELSE entry

\* The batch erases the key; the map loses the last coin added, if there is one.
Delete(tx) == [tx EXCEPT !.value = NoCoin, !.added = EraseLast(@)]

\* AddUTXO, and SpendUTXO, which looks the coin up first.
WriteAction(tx, action) ==
    IF tx.thrown THEN tx
    ELSE IF action # NoCoin THEN Put(tx, action)
    ELSE IF Get(tx) # NoCoin THEN Delete(tx)
    ELSE [tx EXCEPT !.thrown = TRUE]

WriteBatch(actions) == S!FoldLeft(WriteAction, Begin, actions)

HasCoin(actions) == actions # <<>> /\ Top(actions) # NoCoin
-----------------------------------------------------------------------------
EmptyLists == entry \in Leaf \cup {NoCoin} /\ log = <<>> /\ temp = <<>>

\* AddUTXO and SpendUTXO of CoinsViewUpdates.
AddToTemp ==
    \E action \in Leaf \cup {NoCoin} :
        /\ Len(log) + Len(temp) < MaxActions
        /\ temp' = Append(temp, action)
        /\ UNCHANGED <<entry, log>>

FlushTemp ==
    /\ log' = log \o temp
    /\ temp' = <<>>
    /\ UNCHANGED entry

FlushLog ==
    /\ temp = <<>>
    /\ ~WriteBatch(log).thrown
    /\ entry' = WriteBatch(log).value
    /\ log' = <<>>
    /\ UNCHANGED temp

ListsNext == AddToTemp \/ FlushTemp \/ FlushLog

ListsSpec == EmptyLists /\ [][ListsNext]_lists
-----------------------------------------------------------------------------
(* Properties.                                                             *)

\* The normal form of a list of actions.
Normal(actions) ==
    S!FoldLeft(LAMBDA u, a : IF a = NoCoin THEN SpendAction(u) ELSE AddAction(u, a),
               NoUpdate, actions)

\* GetUTXOs of the cache fails its assertion exactly when the form pops more
\* coins than the database has, and otherwise answers what the form leaves,
\* through the temporary cache too; HasCoinInCache depends on its last action alone.
NormalFormReads ==
    LET n == Normal(log)
        m == Normal(temp)
    IN  /\ (GetUTXOs(Coins, log) = Assertion) <=> (n.pops > Len(Coins))
        /\ GetUTXOs(GetUTXOs(Coins, log), temp) # Assertion =>
              Replay(Replay(Coins, n), m) = GetUTXOs(GetUTXOs(Coins, log), temp)
        /\ HasCoin(log) <=> n.last \notin {NoAction, NoCoin}

\* Flushing one cache into another composes the forms.
NormalFormComposes == Normal(log \o temp) = Then(Normal(log), Normal(temp))

\* A write into the database throws exactly when the form spends a coin of an
\* empty entry, and otherwise leaves what the last action says.
NormalFormWrites ==
    LET n == Normal(log)
    IN  /\ WriteBatch(log).thrown <=> (n.pops > 0 /\ entry = NoCoin)
        /\ ~WriteBatch(log).thrown =>
              WriteBatch(log).value = IF n.last = NoAction THEN entry ELSE n.last
=============================================================================
