------------------------------- MODULE Mining -------------------------------
(***************************************************************************)
(* Blocks from the transactions in them to the chain: the wallet makes     *)
(* transactions, a builder takes them and assembles a block, the node      *)
(* checks it with the pegs of the block around it and connects it.  Other  *)
(* miners' blocks come in as well, and blocks are disconnected.            *)
(*                                                                         *)
(* A coins view is a stack of states here, which is what Node implements.  *)
(***************************************************************************)
EXTENDS Transactions

CONSTANTS
    Requests,       \* what the wallets' users ask for
    OtherRequests   \* those of them that other miners' blocks have kernels of

ASSUME MiningAssumption == OtherRequests \subseteq Requests

ASSUME RequestAssumption ==
    \A r \in Requests :
        /\ r.ins \in Seq(Commitment) /\ r.outs \in Seq(Commitment)
        /\ r.kernel_offset \in Int /\ r.owner_key \in Int
        /\ KernelOf(r) \in Kernel

VARIABLES
    chain,      \* states and header offsets, from the genesis to the tip
    builder,    \* the BlockBuilder at work
    block       \* the last block that was built

vars == <<chain, builder, block>>

NoBuilder == [weight |-> 0, txs |-> <<>>, open |-> FALSE]
NoBlock == [body |-> EmptyBody, built |-> FALSE]

Tip == chain[Len(chain)]

\* CreateTx throws for a request whose amounts do not balance.
Mempool == {CreateTx(r) : r \in {q \in Requests : Balanced(q)}}

\* A body as the chain's states see it.
Effect(body) ==
    [ins |-> ToSet(body.ins), outs |-> body.outs, kernels |-> body.kernels]

\* What the surrounding block pegs in and out for transactions txs, in its order.
PegIns(txs) == FlattenSeq([i \in DOMAIN txs |-> GetPegIns(txs[i].body)])
PegOuts(txs) == FlattenSeq([i \in DOMAIN txs |-> GetPegOuts(txs[i].body)])
-----------------------------------------------------------------------------
(* The builder.                                                            *)

Aggregated(txs) == FoldLeft(Aggregate, NoTransaction, txs)

PegInAmounts(kernels) == [i \in DOMAIN kernels |-> PegIn(kernels[i])]
CoinAmounts(coins) == [i \in DOMAIN coins |-> coins[i].amount]
KeysOf(coins) == {coins[i].key : i \in DOMAIN coins}

\* AddTransaction of tx to builder b with the given peg-ins returns true.
Accepts(b, tx, pegins) ==
    LET body == tx.body
    IN  /\ Weight(body) + b.weight <= MaxWeight
        /\ SumFunction(PegInAmounts(body.kernels)) = SumFunction(CoinAmounts(pegins))
        /\ Cardinality(KeysOf(pegins)) = Len(pegins)
        /\ Len(GetPegIns(body)) = Len(pegins)
        /\ KeysOf(GetPegIns(body)) \subseteq KeysOf(pegins)
        /\ ValidTx(tx)
        /\ ToSet(body.ins) \subseteq Unspent(Tip.s)
        /\ ToSet(body.outs) \cap Unspent(Tip.s) = {}

\* Every input finds a coin to spend, the newest first: the outputs have been
\* added before.
Occurrences(c, s) == Cardinality({i \in DOMAIN s : s[i] = c})

SpendAll(utxos, ins) ==
    {u \in utxos :
        Cardinality({w \in utxos : w[1] = u[1] /\ w[2] > u[2]})
            >= Occurrences(u[1], ins)}

CanBuild(at, tx) ==
    LET utxos == at.s.utxos \cup Mined(tx.body, Len(at.s.txos))
    IN  \A c \in ToSet(tx.body.ins) :
            Occurrences(c, tx.body.ins) <= Cardinality({u \in utxos : u[1] = c})

\* The offset of a header over `at` with that of tx.
OffsetAlone(at, tx) == tx.kernel_offset

HeaderOffset(at, tx) == at.offset + tx.kernel_offset

\* CoinsViewCache::BuildNextBlock on state `at` with transactions txs.
BuildNextBlock(at, txs) ==
    LET tx      == Aggregated(txs)
        body    == tx.body
        utxos   == SpendAll(at.s.utxos \cup Mined(body, Len(at.s.txos)), body.ins)
        leafset == {u[2] : u \in utxos}
    IN  [body         |-> body,
         hdr          |-> HeaderOf(at.s.txos \o body.outs,
                                   at.s.kernels \o body.kernels, leafset),
         offset       |-> HeaderOffset(at, tx),
         owner_offset |-> tx.owner_offset,
         validated    |-> FALSE,
         built        |-> TRUE,
         txs          |-> txs,
         at           |-> at]
-----------------------------------------------------------------------------
(* The node.                                                               *)

\* The first amount given for a key, as in a map that insert() fills.
First(coins, k) ==
    coins[CHOOSE i \in DOMAIN coins :
             coins[i].key = k /\ \A j \in 1 .. i - 1 : coins[j].key # k].amount

\* The coins of a block have keys and amounts that are in the map.
SameAmounts(coins, expected) ==
    \A i \in DOMAIN coins :
        /\ coins[i].key \in KeysOf(expected)
        /\ coins[i].amount = First(expected, coins[i].key)

SameNumber(coins, expected) == Len(coins) = Cardinality(KeysOf(expected))

ValidatePegAmounts(body, pegins, pegouts) ==
    /\ SameAmounts(GetPegIns(body), pegins)
    /\ SameAmounts(GetPegOuts(body), pegouts)

\* ValidatePegInCoins and ValidatePegOutCoins
ValidatePegs(body, pegins, pegouts) ==
    /\ SameNumber(GetPegIns(body), pegins)
    /\ SameNumber(GetPegOuts(body), pegouts)
    /\ ValidatePegAmounts(body, pegins, pegouts)

\* BlockValidator::Validate of a block that has not been validated before.
Passes(b, pegins, pegouts) ==
    /\ Validate(b.body)
    /\ OwnerSums(b.owner_offset, b.body)
    /\ ValidatePegs(b.body, pegins, pegouts)

\* ApplyBlock of b on state `at` gets through.
ConnectsUnrooted(at, b) ==
    /\ ValidateForBlock(b.body, b.offset, at.offset)
    /\ ToSet(b.body.ins) \subseteq Unspent(at.s)

Connects(at, b) ==
    /\ ValidateForBlock(b.body, b.offset, at.offset)
    /\ ToSet(b.body.ins) \subseteq Unspent(at.s)
    /\ Apply(at.s, Effect(b.body)).hdr = b.hdr

Connected(at, b) == [s |-> Apply(at.s, Effect(b.body)), offset |-> b.offset]

HasRoom(body) ==
    /\ Len(chain) <= MaxBlocks
    /\ Len(Tip.s.txos) + Len(body.outs) <= MaxTXOs
-----------------------------------------------------------------------------
Init ==
    /\ chain = <<[s |-> Genesis, offset |-> 0]>>
    /\ builder = NoBuilder
    /\ block = NoBlock

\* A miner makes a builder over the tip; it holds the chain until it is done.
NewBuilder ==
    /\ ~builder.open
    /\ builder' = [NoBuilder EXCEPT !.open = TRUE]
    /\ block' = NoBlock
    /\ UNCHANGED chain

\* The miner passes the peg-ins of the transaction around tx, which are its own.
AddTransaction(tx) ==
    /\ builder.open
    /\ Accepts(builder, tx, GetPegIns(tx.body))
    /\ builder' = [builder EXCEPT !.txs = Append(@, tx),
                                  !.weight = @ + Weight(tx.body)]
    /\ UNCHANGED <<chain, block>>

BuildBlock ==
    /\ builder.open
    /\ CanBuild(Tip, Aggregated(builder.txs))
    /\ block' = BuildNextBlock(Tip, builder.txs)
    /\ builder' = NoBuilder
    /\ UNCHANGED chain

\* SpendUTXO throws, and the miner drops the builder.
BuildBlockThrows ==
    /\ builder.open
    /\ ~CanBuild(Tip, Aggregated(builder.txs))
    /\ builder' = NoBuilder
    /\ UNCHANGED <<chain, block>>

\* With the hash of the block, and the pegs of its transactions.
CheckBlock ==
    /\ block.built
    /\ ~block.validated
    /\ Passes(block, PegIns(block.txs), PegOuts(block.txs))
    /\ block' = [block EXCEPT !.validated = TRUE]
    /\ UNCHANGED <<chain, builder>>

\* The caller connects blocks that it has checked, to the tip.
ConnectBlock ==
    /\ ~builder.open
    /\ block.built
    /\ block.validated
    /\ Connects(Tip, block)
    /\ HasRoom(block.body)
    /\ chain' = Append(chain, Connected(Tip, block))
    /\ UNCHANGED <<builder, block>>

OwnOffset(body) ==
    SumFunction(Blinds(body.outs)) - SumFunction(Blinds(body.ins))
        - SumFunction(Excesses(body.kernels))

\* The bodies that other miners may make of the same inputs, outputs and
\* kernels without a builder: CheckBlock passes them.
ForeignBodies ==
    LET kernels == {KernelOf(r) : r \in OtherRequests}
    IN  {b \in [ins        : Lists(Commitment, MaxTXOs),
                outs       : Lists(Commitment, MaxOutputs),
                kernels    : Lists(kernels, MaxKernels),
                owner_sigs : {<<>>}] :
            /\ Validate(b)
            /\ OwnerSums(SumFunction(SenderKeys(b.outs)) - SumFunction(SpendKeys(b.ins)), b)
            /\ ValidateForTx(b, OwnOffset(b))}

\* A block of another miner, who spends unspent coins and makes new ones.  Its
\* header has the roots of the state after it and an offset that makes its sums
\* right, on its own or in the chain.
ForeignBlock(body) ==
    /\ ~builder.open
    /\ Extends(Tip.s, Effect(body))
    /\ HasRoom(body)
    /\ \E offset \in {OwnOffset(body), Tip.offset + OwnOffset(body)} :
          LET b == [body |-> body, offset |-> offset,
                    hdr |-> Apply(Tip.s, Effect(body)).hdr]
          IN  /\ Connects(Tip, b)
              /\ chain' = Append(chain, Connected(Tip, b))
    /\ UNCHANGED <<builder, block>>

\* The first block stays, as in Node with KeepBlocks = 1.
DisconnectBlock ==
    /\ ~builder.open
    /\ Len(chain) > 2
    /\ chain' = SubSeq(chain, 1, Len(chain) - 1)
    /\ UNCHANGED <<builder, block>>

Next ==
    \/ NewBuilder
    \/ \E tx \in Mempool : AddTransaction(tx)
    \/ BuildBlock
    \/ BuildBlockThrows
    \/ CheckBlock
    \/ ConnectBlock
    \/ \E body \in ForeignBodies : ForeignBlock(body)
    \/ DisconnectBlock

Spec == Init /\ [][Next]_vars
-----------------------------------------------------------------------------
(* Properties.                                                             *)

\* Transactions of which no two have an input, an output or the excess of a
\* kernel in common.
NoConflict(txs) ==
    \A i, j \in DOMAIN txs : i # j =>
        LET a == txs[i].body
            b == txs[j].body
        IN  /\ ToSet(a.ins) \cap ToSet(b.ins) = {}
            /\ ToSet(a.outs) \cap ToSet(b.outs) = {}
            /\ ToSet(Excesses(a.kernels)) \cap ToSet(Excesses(b.kernels)) = {}

\* No two coins of a list have the same key, so that a map holds them all.
DistinctKeys(coins) == Cardinality(KeysOf(coins)) = Len(coins)

\* Whatever transactions AddTransaction has taken, as long as they do not
\* conflict with each other, BuildBlock builds a block from them, ConnectBlock
\* accepts it on the state it was built on, and CheckBlock accepts it with the
\* pegs of those transactions, unless two of them peg out to one script.
TemplatesConnect ==
    builder.open /\ NoConflict(builder.txs) =>
        LET b       == BuildNextBlock(Tip, builder.txs)
            pegins  == PegIns(builder.txs)
            pegouts == PegOuts(builder.txs)
        IN  /\ CanBuild(Tip, Aggregated(builder.txs))
            /\ Connects(Tip, b)
            /\ Passes(b, pegins, pegouts) <=> DistinctKeys(pegouts)

\* AddTransaction and Aggregate compare transactions with the chain and not
\* with each other; that two of a builder conflict is then found by BuildBlock,
\* which throws, or by CheckBlock.
ConflictsCaught ==
    builder.open /\ CanBuild(Tip, Aggregated(builder.txs))
                 /\ ~NoConflict(builder.txs) =>
        ~Passes(BuildNextBlock(Tip, builder.txs),
                PegIns(builder.txs), PegOuts(builder.txs))

\* A built block connects on a state with the coins, kernels and offset of the
\* one it was built on, and on no other, whatever blocks came and went in
\* between: nothing but sums and roots says so in ConnectBlock.
ConnectsWhereBuilt ==
    block.built /\ Connects(Tip, block) =>
        /\ Tip.s.txos = block.at.s.txos
        /\ Tip.s.kernels = block.at.s.kernels
        /\ Tip.s.utxos = block.at.s.utxos
        /\ Tip.offset = block.at.offset

\* ValidateForBlock of every block is enough for ValidateState of every state:
\* the unspent outputs are worth the supply, their blinding factors are those
\* of all kernels and the header's offset, and the supply never was below 0,
\* not between two kernels of one block either.
StateSums == \A i \in 2 .. Len(chain) : ValidateState(chain[i].s, chain[i].offset)

\* Each coin as often as it is in the other list.
SameBag(s, t) ==
    \A x \in ToSet(s) \cup ToSet(t) : Occurrences(x, s) = Occurrences(x, t)

\* The pegs that other blocks may have around the extension block.
Variations(coins) ==
    Lists(coins \cup {[c EXCEPT !.amount = @ + 1] : c \in coins}, 2)

OtherPegIns == Variations(UNION {ToSet(GetPegIns(tx.body)) : tx \in Mempool})
OtherPegOuts == Variations(UNION {ToSet(GetPegOuts(tx.body)) : tx \in Mempool})

\* Where no two coins have one commitment or script, neither of the block nor of
\* the one around it, CheckBlock accepts exactly the blocks whose kernels peg in
\* and out what that block says.
PegsAgree ==
    block.built =>
        \A pegins \in OtherPegIns, pegouts \in OtherPegOuts :
            /\ DistinctKeys(pegins) /\ DistinctKeys(GetPegIns(block.body))
            /\ DistinctKeys(pegouts) /\ DistinctKeys(GetPegOuts(block.body))
            => (ValidatePegs(block.body, pegins, pegouts)
                <=> /\ SameBag(GetPegIns(block.body), pegins)
                    /\ SameBag(GetPegOuts(block.body), pegouts))

\* "Miners shall include an output in the block's HogEx transaction with the
\* exact amount and scriptPubKey" (doc/Consensus.md:79): a block that CheckBlock
\* accepts has no peg-out more often than the block around it pays it.
PegOutsPaid ==
    block.built =>
        LET pays == GetPegOuts(block.body)
        IN  \A pegouts \in OtherPegOuts :
                Passes(block, PegIns(block.txs), pegouts) =>
                    \A c \in ToSet(pays) : Occurrences(c, pays) <= Occurrences(c, pegouts)

\* A new builder takes the transactions the wallet makes, when their coins are
\* unspent and their outputs new, but for those without an output: these fail
\* in OwnerSumValidator, where the keys of inputs and owner signatures then come
\* to zero.
WalletTxsTaken ==
    builder.open /\ builder.txs = <<>> =>
        \A tx \in Mempool :
            /\ ToSet(tx.body.ins) \subseteq Unspent(Tip.s)
            /\ ToSet(tx.body.outs) \cap Unspent(Tip.s) = {}
            => (Accepts(builder, tx, GetPegIns(tx.body)) <=> tx.body.outs # <<>>)
=============================================================================
