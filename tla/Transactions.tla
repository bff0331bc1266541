---------------------------- MODULE Transactions ----------------------------
(***************************************************************************)
(* Transactions, how the wallet makes them, how they aggregate, and the    *)
(* sums that make them valid.                                              *)
(*                                                                         *)
(* A commitment v*H + r*G determines its value v and blinding factor r, so *)
(* sums of commitments are equal when both parts are; a public key k*G is  *)
(* its k.  Signatures and range proofs verify, and a hash orders kernels   *)
(* as their excess does, and owner messages as their key does.  Amounts    *)
(* stay below 2^63.                                                        *)
(***************************************************************************)
EXTENDS ChainState, FiniteSetsExt, SequencesExt, TLC

CONSTANTS
    Amount,         \* the value of each commitment
    Blind,          \* its blinding factor
    SpendKey,       \* the key that an input with it is signed with
    SenderKey,      \* the key that its output is signed with
    MaxWeight       \* MAX_BLOCK_WEIGHT

ASSUME CoinAssumption ==
    /\ Amount \in [Commitment -> Nat]
    /\ Blind \in [Commitment -> Int]
    /\ SpendKey \in [Commitment -> Int] /\ SenderKey \in [Commitment -> Int]
    /\ MaxWeight \in Nat

\* An optional field of a kernel is a sequence of at most one element.
ASSUME KernelAssumption ==
    \A k \in Kernel :
        /\ k.excess \in Int /\ k.fee \in Nat
        /\ k.pegin # <<>> => k.pegin[1] \in Nat
        /\ k.pegout # <<>> =>
              /\ k.pegout[1].amount \in Nat
              /\ k.pegout = <<[key |-> k.pegout[1].key, amount |-> k.pegout[1].amount]>>

\* Of a list of commitments.
Amounts(cs) == [i \in DOMAIN cs |-> Amount[cs[i]]]
Blinds(cs) == [i \in DOMAIN cs |-> Blind[cs[i]]]
SpendKeys(cs) == [i \in DOMAIN cs |-> SpendKey[cs[i]]]
SenderKeys(cs) == [i \in DOMAIN cs |-> SenderKey[cs[i]]]
-----------------------------------------------------------------------------
(* Kernels, and the orders that lists are sorted in.                       *)

PegIn(k) == IF k.pegin = <<>> THEN 0 ELSE k.pegin[1]
PegOut(k) == IF k.pegout = <<>> THEN 0 ELSE k.pegout[1].amount

GetSupplyChange(k) == PegIn(k) - k.fee - PegOut(k)

KernelSortByHash(k, l) == k.excess < l.excess

\* The kernels of greatest supply change first, then by hash.
KernelSort(k, l) ==
    \/ GetSupplyChange(k) > GetSupplyChange(l)
    \/ GetSupplyChange(k) = GetSupplyChange(l) /\ k.excess < l.excess

SortByCommitment(c, d) == c < d
SortByHash(m, n) == m.key < n.key

\* std::sort, which here keeps the order of what neither is less.
SortBy(s, Less(_, _)) ==
    LET UpTo(i) == {j \in DOMAIN s :
                       Less(s[j], s[i]) \/ (~Less(s[i], s[j]) /\ j <= i)}
    IN  [n \in DOMAIN s |-> s[CHOOSE i \in DOMAIN s : Cardinality(UpTo(i)) = n]]

Ordered(s, Less(_, _)) == \A i \in 1 .. Len(s) - 1 : ~Less(s[i + 1], s[i])
-----------------------------------------------------------------------------
(* Bodies: sequences of inputs, outputs, kernels and signed owner messages. *)

EmptyBody == [ins |-> <<>>, outs |-> <<>>, kernels |-> <<>>, owner_sigs |-> <<>>]

\* A peg-in or peg-out coin has an amount and a key: its commitment or script.
PegInCoins(k) ==
    IF k.pegin = <<>> THEN <<>> ELSE <<[key |-> k.excess, amount |-> PegIn(k)]>>

GetPegIns(body) == FlattenSeq([i \in DOMAIN body.kernels |-> PegInCoins(body.kernels[i])])
GetPegOuts(body) == FlattenSeq([i \in DOMAIN body.kernels |-> body.kernels[i].pegout])

Weight(body) ==
    2 * Len(body.kernels) + Len(body.owner_sigs) + 18 * Len(body.outs)

Distinct(s) == Cardinality(ToSet(s)) = Len(s)

Excesses(kernels) == [i \in DOMAIN kernels |-> kernels[i].excess]
SupplyChanges(kernels) == [i \in DOMAIN kernels |-> GetSupplyChange(kernels[i])]

NoDuplicateInputs(body) ==
    Distinct(body.ins) /\ Distinct(Excesses(body.kernels))

NoDuplicates(body) ==
    Distinct(body.ins) /\ Distinct(body.outs) /\ Distinct(Excesses(body.kernels))

\* TxBody::Validate.  The limits on the sizes of scripts and extra data are left
\* out: no kernel here goes beyond them.
Validate(body) ==
    /\ Weight(body) <= MaxWeight
    /\ Ordered(body.ins, SortByCommitment)
    /\ Ordered(body.outs, SortByCommitment)
    /\ Ordered(body.kernels, KernelSort)
    /\ Ordered(body.owner_sigs, SortByHash)
    /\ NoDuplicates(body)
    /\ \A m \in ToSet(body.owner_sigs) : m.kernel \in ToSet(body.kernels)
-----------------------------------------------------------------------------
(* Sums.  A sum of points that comes to zero has no encoding, and           *)
(* AddCommitments and AddPublicKeys throw.                                  *)

\* Coins, if there are `any', of total value v and blinding factor r, against
\* kernels and an offset.
ValidateSums(any, v, r, kernels, offset) ==
    LET supply == SumFunction(SupplyChanges(kernels))
        excess == SumFunction(Excesses(kernels))
    IN  /\ v = supply
        /\ r = excess + offset
        /\ any => v # 0 \/ r # 0
        /\ kernels # <<>> => excess # 0
        /\ supply # 0 \/ offset # 0 => r # 0

ValidateForTx(body, offset) ==
    ValidateSums(body.outs \o body.ins # <<>>,
                 SumFunction(Amounts(body.outs)) - SumFunction(Amounts(body.ins)),
                 SumFunction(Blinds(body.outs)) - SumFunction(Blinds(body.ins)),
                 body.kernels, offset)

ValidateForBlockAlone(body, total_offset, prev_total_offset) ==
    ValidateForTx(body, total_offset)

\* A header's offset is the sum of those of all blocks up to it.
ValidateForBlock(body, total_offset, prev_total_offset) ==
    ValidateForTx(body, total_offset - prev_total_offset)

\* The unspent outputs of state s against all kernels, one of which after the
\* other never takes the supply below 0.
ValidateState(s, total_offset) ==
    /\ \A n \in DOMAIN s.kernels :
          SumFunction(SupplyChanges(SubSeq(s.kernels, 1, n))) >= 0
    /\ ValidateSums(s.utxos # {},
                    SumFunction([u \in s.utxos |-> Amount[u[1]]]),
                    SumFunction([u \in s.utxos |-> Blind[u[1]]]),
                    s.kernels, total_offset)

Keys(messages) == [i \in DOMAIN messages |-> messages[i].key]

\* OwnerSumValidator::Validate
OwnerSums(owner_offset, body) ==
    LET total_input == SumFunction(SpendKeys(body.ins))
                          + SumFunction(Keys(body.owner_sigs)) + owner_offset
    IN  /\ total_input = SumFunction(SenderKeys(body.outs))
        /\ \/ body.ins = <<>> /\ body.owner_sigs = <<>> /\ owner_offset = 0
           \/ total_input # 0
-----------------------------------------------------------------------------
(* Transactions.                                                           *)

\* Transaction::Create
Create(kernel_offset, owner_offset, body) ==
    [kernel_offset |-> kernel_offset,
     owner_offset  |-> owner_offset,
     body |-> [ins        |-> SortBy(body.ins, SortByCommitment),
               outs       |-> SortBy(body.outs, SortByCommitment),
               kernels    |-> SortBy(body.kernels, KernelSort),
               owner_sigs |-> SortBy(body.owner_sigs, SortByHash)]]

\* Transaction() = default
NoTransaction == [kernel_offset |-> 0, owner_offset |-> 0, body |-> EmptyBody]

Aggregate(a, b) ==
    Create(a.kernel_offset + b.kernel_offset,
           a.owner_offset + b.owner_offset,
           [ins        |-> a.body.ins \o b.body.ins,
            outs       |-> a.body.outs \o b.body.outs,
            kernels    |-> a.body.kernels \o b.body.kernels,
            owner_sigs |-> a.body.owner_sigs \o b.body.owner_sigs])

\* Transaction::Validate
ValidTx(tx) ==
    /\ Validate(tx.body)
    /\ ValidateForTx(tx.body, tx.kernel_offset)
    /\ OwnerSums(tx.owner_offset, tx.body)

\* A request that the wallet does not refuse for its amounts.
Balanced(r) ==
    SumFunction(Amounts(r.ins)) + PegIn(r) =
        PegOut(r) + SumFunction(Amounts(r.outs)) + r.fee

KernelBlindWhole(r) == SumFunction(Blinds(r.outs)) - SumFunction(Blinds(r.ins))

\* The kernel's part of the excess; the offset is the rest.
KernelBlind(r) ==
    SumFunction(Blinds(r.outs)) - SumFunction(Blinds(r.ins)) - r.kernel_offset

KernelOf(r) ==
    [excess |-> KernelBlind(r), fee |-> r.fee, pegin |-> r.pegin, pegout |-> r.pegout]

\* Transact::CreateTx of request r: coins to spend, outputs for the recipients,
\* fee, peg-in, peg-out, and the random numbers it draws.
CreateTx(r) ==
    LET owner_offset == SumFunction(SenderKeys(r.outs))
                           - SumFunction(SpendKeys(r.ins)) - r.owner_key
    IN  Create(r.kernel_offset, owner_offset,
               [ins        |-> r.ins,
                outs       |-> r.outs,
                kernels    |-> <<KernelOf(r)>>,
                owner_sigs |-> <<[key |-> r.owner_key, kernel |-> KernelOf(r)]>>])
=============================================================================
