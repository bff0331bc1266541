------------------------------- MODULE Wallet -------------------------------
(***************************************************************************)
(* Outputs paid to a stealth address, and the wallet that finds its own    *)
(* among those of the chain: Output::Create, Wallet::RewindOutput, the     *)
(* Keychain and its window, and the calls of libmw that use them.          *)
(*                                                                         *)
(* Secrets are terms: a hash is its tag with what was hashed, a secret key *)
(* the set of the terms it is the sum of, a value or nonce the set of the  *)
(* terms it is the exclusive or of.  A point stands for the product of     *)
(* the scalars in `times' with the sum of those in `sum'.                  *)
(***************************************************************************)
EXTENDS Naturals, Sequences, FiniteSetsExt

CONSTANTS
    Value,          \* amounts that are paid
    MaxIndex,       \* bound on address indices
    MaxOutputs,     \* bound on the outputs of the chain
    RestoreWindow,  \* RESTORE_WINDOW
    FirstByte(_)    \* the first byte of a hash: others may share it

ASSUME WalletAssumption ==
    Value \subseteq Nat /\ {MaxIndex, MaxOutputs, RestoreWindow} \subseteq Nat

VARIABLES
    keychain,   \* the Keychain: its secrets, counter, and number of public keys
    payments,   \* what the outputs of the chain pay: wallet, index and value
    loaded,     \* the counter that the keychain was loaded with
    scanned,    \* how many outputs the wallet has gone through, in order
    coins       \* the coin it has found in an output, if it has

wvars == <<keychain, payments, loaded, scanned, coins>>
-----------------------------------------------------------------------------
(* Keys.                                                                   *)

Hashed(tag, data) == <<tag, data>>

From(key) == [times |-> {}, sum |-> key]
Mul(point, scalar) == [point EXCEPT !.times = @ \cup {scalar}]
Plus(p, q) == [p EXCEPT !.sum = @ \cup q.sum]
Sub(point, term) ==
    [point EXCEPT !.sum = IF term \in @ THEN @ \ {term} ELSE @ \cup {<<"-", term>>}]

\* Hash512(t): a blinding factor and masks for value and nonce.
BlindOf(t) == Hashed("blind", t)
MaskOfValue(t) == {Hashed("value mask", t)}
MaskOfNonce(t) == {Hashed("nonce mask", t)}

BlindSwitch(r, value) == Hashed("switch", <<r, value>>)
CommitBlinded(value, blind) == <<value, blind>>
Switch(r, value) == CommitBlinded(value, BlindSwitch(r, value))

SendKey(address, value, n) ==
    Hashed("S", <<address.A, address.B, value, n>>)
Derive(point) == Hashed("D", point)
OutKey(t) == Hashed("O", t)
-----------------------------------------------------------------------------
(* The keychain.                                                           *)

\* Mutants: the address of a coin that is found leaves the counter alone; the
\* table of public keys is filled with `<' for `<='.
RaisedNever(kc, index) == kc
FilledShort(kc) ==
    LET size == kc.counter + RestoreWindow
    IN  [kc EXCEPT !.pubkeys = IF size > @ THEN size ELSE @]

NewKeychain(owner, counter) ==
    [scan |-> <<"scan", owner>>, spend |-> <<"spend", owner>>,
     counter |-> counter, pubkeys |-> 0]

GetSpendKey(kc, index) ==
    {kc.spend, Hashed("A", <<index, kc.scan>>)}

SpendPubKey(kc, index) == From(GetSpendKey(kc, index))

StealthAddress(kc, index) ==
    [A |-> Mul(SpendPubKey(kc, index), kc.scan), B |-> SpendPubKey(kc, index)]

\* GetStealthAddress raises the counter to the index it is asked for.
Raised(kc, index) == [kc EXCEPT !.counter = IF index > @ THEN index ELSE @]

\* IsSpendPubKey fills the table of public keys while its size is at most the
\* counter and the window, and then looks into it.
Filled(kc) ==
    LET size == kc.counter + RestoreWindow + 1
    IN  [kc EXCEPT !.pubkeys = IF size > @ THEN size ELSE @]

IndicesOf(kc, pubkey) ==
    {i \in 0 .. kc.pubkeys - 1 : SpendPubKey(kc, i) = pubkey}
-----------------------------------------------------------------------------
(* Outputs.                                                                *)

BuildSignedMsg(o) == <<o.Ko, o.Ke, o.view_tag, o.mv, o.mn>>
BuildProofData(o) ==
    BuildSignedMsg(o) \o <<o.sender_pubkey, o.signature>>

Create(sender_key, address, amount) ==
    LET value == {<<"value", amount>>}
        n == {Hashed("N", sender_key)}
        s == SendKey(address, value, n)
        t == Derive(Mul(address.A, s))
        Ko == Plus(From({OutKey(t)}), address.B)
        Ke == Mul(address.B, s)
        mv == SymDiff(MaskOfValue(t), value)
        mn == SymDiff(n, MaskOfNonce(t))
        sig == [key |-> From({sender_key}),
                message |-> <<Ko, Ke, FirstByte(t), mv, mn>>]
        data == <<Ko, Ke, FirstByte(t), mv, mn, From({sender_key}), sig>>
        commitment == Switch(BlindOf(t), value)
    IN  [commitment |-> commitment, Ko |-> Ko, Ke |-> Ke,
         view_tag |-> FirstByte(t), mv |-> mv, mn |-> mn,
         sender_pubkey |-> From({sender_key}), signature |-> sig,
         proof |-> [commitment |-> commitment, data |-> data]]

\* What ValidateOutputs asks of an output: its signature and its range proof.
Verifies(o) ==
    /\ o.signature = [key |-> o.sender_pubkey, message |-> BuildSignedMsg(o)]
    /\ o.proof = [commitment |-> o.commitment, data |-> BuildProofData(o)]

\* Wallet::RewindOutput: the keychain after it, and the coin if it finds one.
RewindOutput(kc, o) ==
    LET t == Derive(Mul(o.Ke, kc.scan))
        tagged == FirstByte(t) = o.view_tag
        own == IF tagged THEN IndicesOf(Filled(kc), Sub(o.Ko, OutKey(t))) ELSE {}
        r == BlindOf(t)
        value == SymDiff(o.mv, MaskOfValue(t))
        n == SymDiff(o.mn, MaskOfNonce(t))
        Sent(i) == SendKey(StealthAddress(kc, i), value, n)
        mine == {i \in own : /\ Switch(r, value) = o.commitment
                             /\ o.Ke = Mul(SpendPubKey(kc, i), Sent(i))}
    IN  [keychain |-> IF ~tagged THEN kc
                      ELSE IF own = {} THEN Filled(kc)
                      ELSE Raised(Filled(kc), CHOOSE i \in own : TRUE),
         coin |-> {[address_index |-> i, blind |-> r, amount |-> value,
                    commitment |-> o.commitment,
                    key |-> GetSpendKey(kc, i) \cup {OutKey(t)}] : i \in mine}]

\* What a coin is spent with: the input and its blinding factor.
SignInput(coin) == [commitment |-> coin.commitment, pubkey |-> From(coin.key)]
BlindingFactor(coin) == BlindSwitch(coin.blind, coin.amount)
-----------------------------------------------------------------------------
(* The chain's outputs: each sender key is random, a fresh one.            *)

PayTo(k) ==
    LET p == payments[k]
    IN  Create(<<"sender", k>>, StealthAddress(NewKeychain(p.to, 0), p.index), p.value)

Outputs == [k \in DOMAIN payments |-> PayTo(k)]

\* The output of a block or transaction that has the commitment is rewound.
RewindIn(outputs, commitment) ==
    LET k == CHOOSE k \in DOMAIN outputs :
                 /\ outputs[k].commitment = commitment
                 /\ \A j \in 1 .. k - 1 : outputs[j].commitment # commitment
    IN  RewindOutput(keychain, outputs[k])

WalletInit ==
    /\ keychain = NewKeychain("own", 0)
    /\ payments = <<>>
    /\ loaded = 0 /\ scanned = 0
    /\ coins = <<>>

GetAddress(index) ==
    /\ keychain' = Raised(keychain, index)
    /\ UNCHANGED <<payments, loaded, scanned, coins>>

\* An address may have been handed out by this keychain or by one before it.
CreateOutput(to, index, value) ==
    /\ Len(payments) < MaxOutputs
    /\ payments' = Append(payments, [to |-> to, index |-> index, value |-> value])
    /\ coins' = Append(coins, {})
    /\ UNCHANGED <<keychain, loaded, scanned>>

RewindAt(k) ==
    LET found == RewindIn(Outputs, Outputs[k].commitment)
    IN  /\ keychain' = found.keychain
        /\ coins' = [coins EXCEPT ![k] = found.coin]

\* The wallet sees a transaction before it has come to it in the chain.
RewindTxOutput(k) ==
    /\ k \in DOMAIN payments /\ k > scanned
    /\ RewindAt(k)
    /\ UNCHANGED <<payments, loaded, scanned>>

RewindBlockOutput ==
    /\ scanned < Len(payments)
    /\ RewindAt(scanned + 1)
    /\ scanned' = scanned + 1
    /\ UNCHANGED <<payments, loaded>>

\* The wallet starts anew, with the counter it saved or from its seed alone.
LoadKeychain(counter) ==
    /\ keychain' = NewKeychain("own", counter)
    /\ loaded' = counter /\ scanned' = 0
    /\ coins' = [k \in DOMAIN payments |-> {}]
    /\ UNCHANGED payments

WalletNext ==
    \/ \E index \in 0 .. MaxIndex : GetAddress(index)
    \/ \E index \in 0 .. MaxIndex, value \in Value : CreateOutput("own", index, value)
    \/ \E value \in Value : CreateOutput("other", 0, value)
    \/ \E k \in 1 .. MaxOutputs : RewindTxOutput(k)
    \/ RewindBlockOutput
    \/ \E counter \in {0, keychain.counter} : LoadKeychain(counter)

WalletSpec == WalletInit /\ [][WalletNext]_wvars
-----------------------------------------------------------------------------
(* An output that was made as the wallet makes them verifies, and a wallet *)
(* finds it, with its amount and what the blinding factor and the key of   *)
(* the input that spends it come from, exactly when it was paid to an      *)
(* address of its own whose index the window reaches (Output.cpp:33-119    *)
(* against Output.cpp:121-148, Wallet.cpp:4-53 and WalletUtil.h:12-67).    *)
FindsOwn ==
    \A k \in DOMAIN payments :
        LET o == Outputs[k]
            p == payments[k]
            coin == RewindOutput(keychain, o).coin
        IN  /\ Verifies(o)
            /\ coin # {} <=> p.to = "own" /\ p.index <= keychain.counter + RestoreWindow
            /\ \A c \in coin :
                   /\ c.address_index = p.index /\ c.amount = {<<"value", p.value>>}
                   /\ CommitBlinded(c.amount, BlindingFactor(c)) = o.commitment
                   /\ SignInput(c) = [commitment |-> o.commitment, pubkey |-> o.Ko]

(* A scan in the order of the chain finds every output whose index is      *)
(* within the window of the counter the keychain was loaded with, or of    *)
(* the index of an output it found before: each coin found moves the       *)
(* window on (Keychain.cpp:9-18, 32-50).                                   *)
ScanFinds ==
    \A k \in 1 .. scanned :
        LET p == payments[k]
            Near(index) == p.index <= index + RestoreWindow
        IN  /\ p.to = "own"
            /\ \/ Near(loaded)
               \/ \E j \in 1 .. k - 1 : coins[j] # {} /\ Near(payments[j].index)
            => coins[k] # {}
=============================================================================
