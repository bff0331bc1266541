------------------------------ MODULE MCParts -------------------------------
(***************************************************************************)
(* Four parts side by side: the wallet, the objects that are written and   *)
(* read, an MMR with its caches, and the walk through the positions of the *)
(* nodes.  They share no variable, and a behaviour takes the steps of one  *)
(* of them.                                                                *)
(***************************************************************************)
EXTENDS Wallet, Wire, MMR, IndexWalk

\* The first byte of a hash is that of every other for odd amounts, and for
\* even ones it tells the two wallets apart.
MCFirstByte(t) ==
    LET send == CHOOSE x \in t[2].times : x[1] = "S"
        scan == CHOOSE x \in t[2].times : x[1] = "scan"
    IN  IF send[2][3] = {<<"value", 1>>} THEN "any" ELSE scan[2]
-----------------------------------------------------------------------------
(* The objects.  Fields that follow each other differ in their bytes, and  *)
(* scripts, extra data and proofs are empty, short, or as long as can be.  *)

MCSize ==
    [u16 |-> 2, u32 |-> 2, u64 |-> 2, nonce |-> 2, hash |-> 2, point |-> 3, signature |-> 4]

Field(n, size) == [i \in 1 .. size |-> n]
Word(n) == Integer(n, MCSize.u64)
Point(n) == Field(n, MCSize.point)
Hash(n) == Field(n, MCSize.hash)
Signed(n) == Field(n, MCSize.signature)

Optional(S) == {<<>>} \cup {<<x>> : x \in S}
UpTo(S, n) == UNION {[1 .. m -> S] : m \in 0 .. n}

PegOutCoins == [amount : {Word(3)}, script : {Field(7, n) : n \in {0, 1, 31}}]

Kernels ==
    [fee : Optional({Word(1)}), pegin : Optional({Word(2)}),
     pegout : Optional(PegOutCoins), lock_height : Optional({Word(4)}),
     extra_data : {Field(8, n) : n \in {0, 1, 31}},
     excess : {Point(9)}, signature : {Signed(10)}]

OneId ==
    [commitment |-> Point(1), features |-> <<1>>, receiver |-> Point(2),
     exchange |-> Point(3), view_tag |-> <<5>>, value |-> Word(40),
     nonce |-> Field(6, MCSize.nonce), sender |-> Point(4)]

WholeOutputs == {OneId @@ [signature |-> Signed(8), proof |-> Field(n, n)] : n \in {0, 5, 33}}
UTXOs == [height : {Word(7)}, leaf : {Word(8)}, output : WholeOutputs]
Inputs == [commitment : {Point(1)}, pubkey : {Point(2)}, signature : {Signed(3)}]
OwnerSigs == [hash : {Hash(1)}, pubkey : {Point(2)}, signature : {Signed(3)}]

Bodies ==
    [inputs : UpTo(Inputs, 2),
     outputs : UpTo({o \in WholeOutputs : Len(o.proof) < 6}, 1),
     kernels : UpTo({CHOOSE k \in Kernels : Len(k.extra_data) = 1}, 2),
     owner_sigs : UpTo(OwnerSigs, 1)]

Headers ==
    [height : {Word(1), Word(1023)}, output_root : {Hash(1)}, kernel_root : {Hash(2)},
     leafset_root : {Hash(3)}, kernel_offset : {Hash(4)}, owner_offset : {Hash(0), Hash(5)},
     output_size : {Word(6)}, kernel_size : {Word(7)}]

Undos ==
    [prev : Optional(Headers), added : UpTo({Point(1), Point(2)}, 2),
     spent : UpTo({CHOOSE u \in UTXOs : Len(u.output.proof) = 5}, 2)]

Coins ==
    [features : {<<1>>}, address_index : {Integer(7, MCSize.u32)},
     key : Optional({Hash(1)}), blind : Optional({Hash(2)}),
     amount : {Word(3)}, commitment : {Point(4)}]

Infos ==
    [version : {<<0>>}, index : {Integer(40, MCSize.u32)}, pruned : {Hash(1)},
     compact_index : {Integer(2, MCSize.u32)}, compacted : Optional({Hash(3)})]

Of(type, values) == [type : {type}, value : values]

MCMessages ==
    Of("Header", Headers) \cup Of("Kernel", Kernels) \cup Of("UTXO", UTXOs)
        \cup Of("OutputId", {OneId}) \cup Of("PegOutCoin", PegOutCoins)
        \cup Of("Tx", [kernel_offset : {Hash(1)}, owner_offset : {Hash(2)}, body : Bodies])
        \cup Of("Block", [header : Headers, body : {b \in Bodies : Len(b.inputs) = 1}])
        \cup Of("BlockUndo", Undos) \cup Of("Coin", Coins) \cup Of("MMRInfo", Infos)
        \cup Of("BitSet", UpTo({0, 1}, 6))
-----------------------------------------------------------------------------
partvars == <<wvars, wirevars, vars, place>>

MCInit == WalletInit /\ WireInit /\ Init /\ AtStart

MCNext ==
    \/ /\ WireInit /\ Init /\ AtStart
       /\ WalletNext /\ UNCHANGED <<wirevars, vars, place>>
    \/ /\ WalletInit /\ Init /\ AtStart
       /\ WireNext /\ UNCHANGED <<wvars, vars, place>>
    \/ /\ WalletInit /\ WireInit /\ AtStart
       /\ Next /\ UNCHANGED <<wvars, wirevars, place>>
    \/ /\ WalletInit /\ WireInit /\ Init
       /\ Increment /\ UNCHANGED <<wvars, wirevars, vars>>

MCSpec == MCInit /\ [][MCNext]_partvars
=============================================================================
