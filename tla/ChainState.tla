----------------------------- MODULE ChainState -----------------------------
(***************************************************************************)
(* The states of the extension block chain and the blocks between them.    *)
(*                                                                         *)
(* A state is the list of all outputs ever mined (its positions are the    *)
(* leaf indices of the output MMR), the list of all kernels, the coins     *)
(* that are unspent and the header that commits to all of it.  Hashes are  *)
(* collision free, so the root of an MMR is the list of its leaves.        *)
(***************************************************************************)
EXTENDS Integers, Sequences

CONSTANTS
    Commitment,     \* output commitments, ordered as the code sorts them
    Kernel,         \* kernels
    MaxOutputs,     \* bound: outputs in one block
    MaxKernels,     \* bound: kernels in one block
    MaxBlocks,      \* bound: blocks on the chain
    MaxTXOs,        \* bound: outputs ever mined
    ByteBits        \* leaves in a byte of the leafset (8 in the code)

ASSUME CommitmentAssumption == Commitment \subseteq Nat
ASSUME BoundAssumption ==
    /\ MaxOutputs \in Nat /\ MaxKernels \in Nat
    /\ MaxBlocks \in Nat  /\ MaxTXOs \in Nat
ASSUME ByteAssumption == ByteBits \in Nat \ {0}

Lists(S, n) == UNION {[1..k -> S] : k \in 0..n}

\* The bodies that pass TxBody::Validate: inputs, outputs and kernels hold no
\* commitment twice, and the outputs are sorted.
Body ==
    {b \in [ins     : SUBSET Commitment,
            outs    : Lists(Commitment, MaxOutputs),
            kernels : Lists(Kernel, MaxKernels)] :
        /\ \A i, j \in DOMAIN b.outs : i < j => b.outs[i] < b.outs[j]
        /\ \A i, j \in DOMAIN b.kernels : i # j => b.kernels[i] # b.kernels[j]}

Outs(b) == {b.outs[i] : i \in DOMAIN b.outs}

\* The header of the chain before the first extension block (a null pointer).
NoHeader == [numTXOs |-> -1]

\* The header of a state.  The leafset is hashed in whole bytes.
HeaderOf(txos, kernels, unspent) ==
    [numTXOs      |-> Len(txos),
     numKernels   |-> Len(kernels),
     output_root  |-> txos,
     kernel_root  |-> kernels,
     leafset_root |-> <<(Len(txos) + ByteBits - 1) \div ByteBits, unspent>>]

State(hdr, txos, kernels, utxos, leafset) ==
    [hdr |-> hdr, txos |-> txos, kernels |-> kernels,
     utxos |-> utxos, leafset |-> leafset]

Genesis == State(NoHeader, <<>>, <<>>, {}, {})

\* The commitments that have an unspent coin.
Unspent(s) == {u[1] : u \in s.utxos}

\* Block b may follow state s: its inputs are unspent coins and no output is.
Extends(s, b) == b.ins \subseteq Unspent(s) /\ Outs(b) \cap Unspent(s) = {}

\* The coin an input spends: the most recent one of its commitment.
Newest(s, c) ==
    CHOOSE u \in s.utxos : u[1] = c /\ \A w \in s.utxos : w[1] = c => w[2] <= u[2]

\* The coins the outputs of b become on top of size mined ones.
Mined(b, size) == {<<b.outs[i], size + i - 1>> : i \in DOMAIN b.outs}

Apply(s, b) ==
    LET txos    == s.txos \o b.outs
        kernels == s.kernels \o b.kernels
        utxos   == (s.utxos \ {Newest(s, c) : c \in b.ins})
                       \cup Mined(b, Len(s.txos))
        leafset == {u[2] : u \in utxos}
    IN  State(HeaderOf(txos, kernels, leafset), txos, kernels, utxos, leafset)
-----------------------------------------------------------------------------
Header ==
    [numTXOs      : Nat,
     numKernels   : Nat,
     output_root  : Seq(Commitment),
     kernel_root  : Seq(Kernel),
     leafset_root : Nat \X SUBSET Nat]

StateType ==
    [hdr     : Header \cup {NoHeader},
     txos    : Seq(Commitment),
     kernels : Seq(Kernel),
     utxos   : SUBSET (Commitment \X Nat),
     leafset : SUBSET Nat]

\* A coin is a mined output: the output MMR holds its commitment at the coin's
\* leaf index, the leafset holds exactly the coins' leaves, and no commitment
\* has two coins (the uniqueness rule of the consensus document).
CoinsSound(s) ==
    /\ \A u \in s.utxos : u[2] < Len(s.txos) /\ s.txos[u[2] + 1] = u[1]
    /\ s.leafset = {u[2] : u \in s.utxos}
    /\ \A u, w \in s.utxos : u[1] = w[1] => u = w

\* A coin spent below the tip is never unspent above it, and what was mined
\* stays mined: only a disconnect brings a coin back.
Grows(s, t) ==
    /\ Len(s.txos) <= Len(t.txos)
    /\ \A i \in DOMAIN s.txos : t.txos[i] = s.txos[i]
    /\ \A u \in t.utxos : u[2] < Len(s.txos) => u \in s.utxos
=============================================================================
