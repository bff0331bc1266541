---------------------------- MODULE WalletProofs ----------------------------
(***************************************************************************)
(* That a wallet finds what is paid to it, whatever the window, the number *)
(* of outputs and the first bytes of hashes.  The first half is about the  *)
(* terms that keys and outputs are, and says what RewindOutput returns for *)
(* an output of the chain; the second is about the counter, the table of   *)
(* public keys and the scan.                                               *)
(***************************************************************************)
EXTENDS Wallet, TLAPS

\* The secrets of one output of the chain.
AddressFor(k) == StealthAddress(NewKeychain(payments[k].to, 0), payments[k].index)
SpendFor(k) == GetSpendKey(NewKeychain(payments[k].to, 0), payments[k].index)
AmountFor(k) == {<<"value", payments[k].value>>}
NonceFor(k) == {Hashed("N", <<"sender", k>>)}
SentFor(k) == SendKey(AddressFor(k), AmountFor(k), NonceFor(k))
SharedFor(k) == Derive(Mul(AddressFor(k).A, SentFor(k)))

\* The keychain of this wallet, which has looked no further than its window.
Own(kc) ==
    /\ kc = [scan |-> <<"scan", "own">>, spend |-> <<"spend", "own">>,
             counter |-> kc.counter, pubkeys |-> kc.pubkeys]
    /\ kc.counter \in Nat /\ kc.pubkeys \in Nat
    /\ kc.pubkeys <= kc.counter + RestoreWindow + 1

\* A payment, and one that a wallet with this counter finds.
Payment(p) == p.to \in {"own", "other"} /\ p.index \in Nat
Reached(p, counter) == p.to = "own" /\ p.index <= counter + RestoreWindow
-----------------------------------------------------------------------------
(* Terms.                                                                  *)

\* What was mixed in is taken out again, from either side.
LEMMA MixedTwice ==
    ASSUME NEW A, NEW B
    PROVE  SymDiff(SymDiff(A, B), A) = B /\ SymDiff(SymDiff(A, B), B) = A
BY DEF SymDiff

\* Two pairs with one member the same have the other the same.
LEMMA PairsOf == ASSUME NEW a, NEW b, NEW c, {a, b} = {a, c} PROVE b = c
OBVIOUS

\* A hash gives away neither a secret key nor another kind of hash.
LEMMA Spending ==
    ASSUME NEW kc, NEW owner, kc.spend = <<"spend", owner>>, NEW i
    PROVE  /\ \A x \in GetSpendKey(kc, i) : x[1] \in {"spend", "A"}
           /\ \A j : GetSpendKey(kc, i) = GetSpendKey(kc, j) => i = j
<1>1. \A x \in GetSpendKey(kc, i) : x[1] \in {"spend", "A"}
  BY DEF GetSpendKey, Hashed
<1>2. ASSUME NEW j, GetSpendKey(kc, i) = GetSpendKey(kc, j)
      PROVE  i = j
  <2>1. Hashed("A", <<i, kc.scan>>) = Hashed("A", <<j, kc.scan>>)
    BY <1>2, PairsOf DEF GetSpendKey
  <2>2. QED  BY <2>1 DEF Hashed
<1>3. QED  BY <1>1, <1>2

\* A list that has the elements of one list and then those of another joins
\* them.
LEMMA Concatenation ==
    ASSUME NEW S, NEW s \in Seq(S), NEW u \in Seq(S), NEW w \in Seq(S),
           Len(w) = Len(s) + Len(u),
           \A i \in 1 .. Len(s) : w[i] = s[i],
           \A i \in 1 .. Len(u) : w[Len(s) + i] = u[i]
    PROVE  s \o u = w
OBVIOUS

\* Five fields of a payload and then two are seven.
LEMMA FiveAndTwo == \A a, b, c, d, e, f, g :
    <<a, b, c, d, e>> \o <<f, g>> = <<a, b, c, d, e, f, g>>
<1> TAKE a, b, c, d, e, f, g
<1> DEFINE S == {a, b, c, d, e, f, g}
           five == <<a, b, c, d, e>>
           two == <<f, g>>
           all == <<a, b, c, d, e, f, g>>
<1>1. five \in Seq(S) /\ two \in Seq(S) /\ all \in Seq(S)
  OBVIOUS
<1>2. Len(all) = Len(five) + Len(two)
  OBVIOUS
<1>3. /\ \A i \in 1 .. Len(five) : all[i] = five[i]
      /\ \A i \in 1 .. Len(two) : all[Len(five) + i] = two[i]
  OBVIOUS
<1> HIDE DEF S, five, two, all
<1>4. five \o two = all
  BY <1>1, <1>2, <1>3, Concatenation, Zenon
<1>5. QED  BY <1>4 DEF five, two, all

\* The fields of the output that pays to an address.
LEMMA PaidFields ==
    ASSUME NEW k \in DOMAIN payments
    PROVE  /\ PayTo(k).Ko = [times |-> {}, sum |-> {OutKey(SharedFor(k))} \cup SpendFor(k)]
           /\ PayTo(k).Ke = [times |-> {SentFor(k)}, sum |-> SpendFor(k)]
           /\ PayTo(k).view_tag = FirstByte(SharedFor(k))
           /\ PayTo(k).mv = SymDiff(MaskOfValue(SharedFor(k)), AmountFor(k))
           /\ PayTo(k).mn = SymDiff(NonceFor(k), MaskOfNonce(SharedFor(k)))
           /\ PayTo(k).commitment = Switch(BlindOf(SharedFor(k)), AmountFor(k))
           /\ SharedFor(k) =
                Derive([times |-> {<<"scan", payments[k].to>>, SentFor(k)}, sum |-> SpendFor(k)])
           /\ Verifies(PayTo(k))
<1> DEFINE address == AddressFor(k)
           spend == SpendFor(k)
           scan == <<"scan", payments[k].to>>
<1>1. address = [A |-> [times |-> {scan}, sum |-> spend], B |-> [times |-> {}, sum |-> spend]]
  BY DEF AddressFor, StealthAddress, SpendPubKey, SpendFor, NewKeychain, From, Mul
<1>2. Mul(address.A, SentFor(k)) = [times |-> {scan, SentFor(k)}, sum |-> spend]
  BY <1>1 DEF Mul
<1>3. Mul(address.B, SentFor(k)) = [times |-> {SentFor(k)}, sum |-> spend]
  BY <1>1 DEF Mul
<1>4. Plus(From({OutKey(SharedFor(k))}), address.B)
        = [times |-> {}, sum |-> {OutKey(SharedFor(k))} \cup spend]
  BY <1>1 DEF Plus, From
<1>5. PayTo(k) = Create(<<"sender", k>>, address, payments[k].value)
  BY DEF PayTo, AddressFor
<1>6. SharedFor(k) = Derive([times |-> {scan, SentFor(k)}, sum |-> spend])
  BY <1>2 DEF SharedFor, address
<1> DEFINE t == SharedFor(k)
           s == SentFor(k)
           tag == FirstByte(t)
           Ko == Plus(From({OutKey(t)}), address.B)
           Ke == Mul(address.B, s)
           mv == SymDiff(MaskOfValue(t), AmountFor(k))
           mn == SymDiff(NonceFor(k), MaskOfNonce(t))
           sender == From({<<"sender", k>>})
           sig == [key |-> sender, message |-> <<Ko, Ke, tag, mv, mn>>]
           data == <<Ko, Ke, tag, mv, mn, sender, sig>>
           commitment == Switch(BlindOf(t), AmountFor(k))
<1>7. PayTo(k) = [commitment |-> commitment, Ko |-> Ko, Ke |-> Ke,
                  view_tag |-> tag, mv |-> mv, mn |-> mn,
                  sender_pubkey |-> sender, signature |-> sig,
                  proof |-> [commitment |-> commitment, data |-> data]]
  BY <1>5 DEF Create, SharedFor, SentFor, AmountFor, NonceFor
<1> HIDE DEF address, scan, spend, t, s, tag, Ko, Ke, mv, mn, sender, commitment
<1>8. <<Ko, Ke, tag, mv, mn>> \o <<sender, sig>> = data
  <2> HIDE DEF sig
  <2>1. \A g : <<Ko, Ke, tag, mv, mn>> \o <<sender, g>> = <<Ko, Ke, tag, mv, mn, sender, g>>
    BY FiveAndTwo, SMT
  <2>2. QED  BY <2>1, Zenon DEF data
<1> HIDE DEF sig, data
<1>9. /\ PayTo(k).Ko = Ko /\ PayTo(k).Ke = Ke /\ PayTo(k).view_tag = tag
      /\ PayTo(k).mv = mv /\ PayTo(k).mn = mn /\ PayTo(k).commitment = commitment
      /\ PayTo(k).sender_pubkey = sender /\ PayTo(k).signature = sig
      /\ PayTo(k).proof = [commitment |-> commitment, data |-> data]
  BY <1>7
<1>10. Verifies(PayTo(k))
  BY <1>8, <1>9, Zenon DEF Verifies, BuildProofData, BuildSignedMsg, sig
<1>11. QED
  BY <1>3, <1>4, <1>6, <1>9, <1>10 DEF t, s, tag, Ko, Ke, mv, mn, commitment, scan, spend
-----------------------------------------------------------------------------
(* What the wallet makes of an output of the chain.                        *)

\* The receiver comes to the secret the sender came to if the output was paid
\* to it, and to another one if it was not.
LEMMA SharedSecret ==
    ASSUME NEW k \in DOMAIN payments, NEW kc, Own(kc), Payment(payments[k])
    PROVE  /\ payments[k].to = "own" => Derive(Mul(PayTo(k).Ke, kc.scan)) = SharedFor(k)
           /\ payments[k].to # "own" => Derive(Mul(PayTo(k).Ke, kc.scan)) # SharedFor(k)
<1> DEFINE s == SentFor(k)
           scan == <<"scan", payments[k].to>>
           mine == <<"scan", "own">>
<1>1. Mul(PayTo(k).Ke, kc.scan) = [times |-> {s, mine}, sum |-> SpendFor(k)]
  <2>1. kc.scan = mine
    BY DEF Own
  <2>2. PayTo(k).Ke = [times |-> {s}, sum |-> SpendFor(k)]
    BY PaidFields
  <2>3. QED  BY <2>1, <2>2 DEF Mul
<1>2. SharedFor(k) = Derive([times |-> {scan, s}, sum |-> SpendFor(k)])
  BY PaidFields
<1>3. ASSUME payments[k].to # "own"
      PROVE  {s, mine} # {scan, s}
  <2>1. s # mine
    BY DEF SentFor, SendKey, Hashed
  <2>2. scan # mine
    BY <1>3
  <2> HIDE DEF s, scan, mine
  <2>3. QED  BY <2>1, <2>2
<1>4. ASSUME NEW P, NEW Q, Derive(P) = Derive(Q)
      PROVE  P = Q
  BY <1>4 DEF Derive, Hashed
<1> HIDE DEF s
<1>5. CASE payments[k].to = "own"
  <2>1. {s, mine} = {scan, s}
    BY <1>5
  <2>2. QED  BY <1>1, <1>2, <1>5, <2>1
<1>6. CASE payments[k].to # "own"
  <2> DEFINE P == [times |-> {s, mine}, sum |-> SpendFor(k)]
             Q == [times |-> {scan, s}, sum |-> SpendFor(k)]
  <2>1. P.times # Q.times
    BY <1>3, <1>6
  <2>2. P # Q
    BY <2>1
  <2> HIDE DEF P, Q
  <2>3. Derive(P) # Derive(Q)
    BY <1>4, <2>2
  <2>4. QED  BY <1>1, <1>2, <1>6, <2>3 DEF P, Q
<1>7. QED  BY <1>5, <1>6

\* The table of public keys has the key of an output that is the wallet's own
\* when the window reaches its index, and no key of an output that is not.
LEMMA OwnIndices ==
    ASSUME NEW k \in DOMAIN payments, NEW kc, Own(kc), Payment(payments[k])
    PROVE  IndicesOf(Filled(kc), Sub(PayTo(k).Ko, OutKey(Derive(Mul(PayTo(k).Ke, kc.scan)))))
             = IF Reached(payments[k], kc.counter) THEN {payments[k].index} ELSE {}
<1> DEFINE p == payments[k]
           full == Filled(kc)
           u == Derive(Mul(PayTo(k).Ke, kc.scan))
           Ko == PayTo(k).Ko
<1>1. /\ full.spend = <<"spend", "own">> /\ full.scan = <<"scan", "own">>
      /\ full.pubkeys = kc.counter + RestoreWindow + 1
  BY WalletAssumption DEF Own, Filled
<1>2. Ko = [times |-> {}, sum |-> {OutKey(SharedFor(k))} \cup SpendFor(k)]
  BY PaidFields
<1>3. \A x \in SpendFor(k) : x[1] \in {"spend", "A"}
  BY Spending DEF SpendFor, NewKeychain
<1>4. \A x : OutKey(x)[1] = "O" /\ <<"-", x>>[1] = "-"
  BY DEF OutKey, Hashed
<1>5. \A i : SpendPubKey(full, i) = [times |-> {}, sum |-> GetSpendKey(full, i)]
  BY DEF SpendPubKey, From
<1> HIDE DEF full, u, Ko
<1>6. CASE p.to = "own"
  <2>1. u = SharedFor(k)
    BY <1>6, SharedSecret DEF u
  <2>2. ({OutKey(u)} \cup SpendFor(k)) \ {OutKey(u)} = SpendFor(k)
    BY <1>3, <1>4
  <2>3. Sub(Ko, OutKey(u)) = [times |-> {}, sum |-> SpendFor(k)]
    BY <1>2, <2>1, <2>2 DEF Sub
  <2>4. SpendFor(k) = GetSpendKey(full, p.index)
    BY <1>1, <1>6 DEF SpendFor, GetSpendKey, NewKeychain
  <2>5. \A i : SpendPubKey(full, i) = Sub(Ko, OutKey(u)) <=> i = p.index
    BY <1>1, <1>5, <2>3, <2>4, Spending
  <2>6. p.index \in 0 .. full.pubkeys - 1 <=> Reached(p, kc.counter)
    BY <1>1, <1>6, WalletAssumption DEF Payment, Reached, Own
  <2>7. QED  BY <2>5, <2>6 DEF IndicesOf, u, full, Ko
<1>7. CASE p.to # "own"
  <2>1. OutKey(u) # OutKey(SharedFor(k))
    <3>1. u # SharedFor(k)
      BY <1>7, SharedSecret DEF u
    <3>2. QED  BY <3>1 DEF OutKey, Hashed
  <2>2. OutKey(u) \notin Ko.sum
    BY <1>2, <1>3, <1>4, <2>1
  <2>3. <<"-", OutKey(u)>> \in Sub(Ko, OutKey(u)).sum
    BY <1>2, <2>2 DEF Sub
  <2>4. \A i : <<"-", OutKey(u)>> \notin GetSpendKey(full, i)
    BY <1>1, <1>4, Spending
  <2>5. \A i : SpendPubKey(full, i) # Sub(Ko, OutKey(u))
    BY <1>5, <2>3, <2>4
  <2>6. ~Reached(p, kc.counter)
    BY <1>7 DEF Reached
  <2>7. QED  BY <2>5, <2>6 DEF IndicesOf, u, full, Ko
<1>8. QED  BY <1>6, <1>7

\* The table is filled to the window; an address moves the counter on.
LEMMA KeychainSteps ==
    ASSUME NEW kc, Own(kc), NEW index \in Nat
    PROVE  /\ Own(Filled(kc)) /\ Filled(kc).counter = kc.counter
           /\ Own(Raised(kc, index))
           /\ Raised(kc, index).counter \in Nat
           /\ Raised(kc, index).counter >= kc.counter
           /\ Raised(kc, index).counter >= index
<1> DEFINE c == IF index > kc.counter THEN index ELSE kc.counter
           size == kc.counter + RestoreWindow + 1
           pubkeys == IF size > kc.pubkeys THEN size ELSE kc.pubkeys
<1>1. Raised(kc, index) = [scan |-> <<"scan", "own">>, spend |-> <<"spend", "own">>,
                           counter |-> c, pubkeys |-> kc.pubkeys]
  BY DEF Raised, Own
<1>2. Filled(kc) = [scan |-> <<"scan", "own">>, spend |-> <<"spend", "own">>,
                    counter |-> kc.counter, pubkeys |-> pubkeys]
  BY DEF Filled, Own
<1>3. c \in Nat /\ c >= kc.counter /\ c >= index
  BY DEF Own
<1>4. pubkeys \in Nat /\ pubkeys <= kc.counter + RestoreWindow + 1
  BY WalletAssumption DEF Own
<1>5. kc.counter \in Nat /\ kc.pubkeys \in Nat
      /\ kc.pubkeys <= kc.counter + RestoreWindow + 1
  BY DEF Own
<1> HIDE DEF c, size, pubkeys
<1>6. kc.pubkeys <= c + RestoreWindow + 1
  BY <1>3, <1>5, WalletAssumption
<1>7. Own(Raised(kc, index)) /\ Raised(kc, index).counter = c
  BY <1>1, <1>3, <1>5, <1>6 DEF Own
<1>8. Own(Filled(kc)) /\ Filled(kc).counter = kc.counter
  BY <1>2, <1>4, <1>5 DEF Own
<1>9. QED  BY <1>3, <1>7, <1>8

\* The coin of an output of the chain, as the wallet knows it.
CoinFor(k) ==
    [address_index |-> payments[k].index, blind |-> BlindOf(SharedFor(k)),
     amount |-> AmountFor(k), commitment |-> PayTo(k).commitment,
     key |-> SpendFor(k) \cup {OutKey(SharedFor(k))}]

\* RewindOutput returns that coin, and the counter is at its index at least,
\* if the output was paid to an index within the window, and else no coin.
LEMMA Rewound ==
    ASSUME NEW k \in DOMAIN payments, NEW kc, Own(kc), Payment(payments[k])
    PROVE  /\ RewindOutput(kc, PayTo(k)).coin
                = IF Reached(payments[k], kc.counter) THEN {CoinFor(k)} ELSE {}
           /\ Own(RewindOutput(kc, PayTo(k)).keychain)
           /\ RewindOutput(kc, PayTo(k)).keychain.counter >= kc.counter
           /\ Reached(payments[k], kc.counter) =>
                RewindOutput(kc, PayTo(k)).keychain.counter >= payments[k].index
<1> DEFINE p == payments[k]
           o == PayTo(k)
           t == Derive(Mul(o.Ke, kc.scan))
           tagged == FirstByte(t) = o.view_tag
           own == IF tagged THEN IndicesOf(Filled(kc), Sub(o.Ko, OutKey(t))) ELSE {}
           r == BlindOf(t)
           value == SymDiff(o.mv, MaskOfValue(t))
           n == SymDiff(o.mn, MaskOfNonce(t))
           Sent(i) == SendKey(StealthAddress(kc, i), value, n)
           Coin(i) == [address_index |-> i, blind |-> r, amount |-> value,
                       commitment |-> o.commitment,
                       key |-> GetSpendKey(kc, i) \cup {OutKey(t)}]
           mine == {i \in own : /\ Switch(r, value) = o.commitment
                                /\ o.Ke = Mul(SpendPubKey(kc, i), Sent(i))}
           after == IF ~tagged THEN kc
                    ELSE IF own = {} THEN Filled(kc)
                    ELSE Raised(Filled(kc), CHOOSE i \in own : TRUE)
<1>1. /\ RewindOutput(kc, o).coin = {Coin(i) : i \in mine}
      /\ RewindOutput(kc, o).keychain = after
  BY DEF RewindOutput
<1>2. p.to = "own" => t = SharedFor(k)
  BY SharedSecret
<1>3. IndicesOf(Filled(kc), Sub(o.Ko, OutKey(t)))
        = IF Reached(p, kc.counter) THEN {p.index} ELSE {}
  BY OwnIndices
<1>4. kc.counter \in Nat /\ p.index \in Nat
  BY DEF Own, Payment
<1>5. CASE Reached(p, kc.counter)
  <2>1. p.to = "own"
    BY <1>5 DEF Reached
  <2>2. t = SharedFor(k)
    BY <1>2, <2>1
  <2>3. own = {p.index} /\ tagged
    BY <1>3, <1>5, <2>2, PaidFields
  <2>4. value = AmountFor(k) /\ n = NonceFor(k)
    <3> DEFINE vm == MaskOfValue(t)
               nm == MaskOfNonce(t)
    <3>1. o.mv = SymDiff(vm, AmountFor(k)) /\ o.mn = SymDiff(NonceFor(k), nm)
      BY <2>2, PaidFields, Zenon
    <3> HIDE DEF vm, nm
    <3>2. SymDiff(o.mv, vm) = AmountFor(k) /\ SymDiff(o.mn, nm) = NonceFor(k)
      BY <3>1, MixedTwice, Zenon
    <3>3. QED  BY <3>2 DEF vm, nm
  <2>5. GetSpendKey(kc, p.index) = SpendFor(k)
    BY <2>1 DEF Own, SpendFor, GetSpendKey, NewKeychain
  <2>6. Sent(p.index) = SentFor(k)
    <3>1. AddressFor(k) = [A |-> Mul(From(SpendFor(k)), <<"scan", "own">>),
                           B |-> From(SpendFor(k))]
      BY <2>1 DEF AddressFor, StealthAddress, SpendPubKey, SpendFor, NewKeychain
    <3>2. StealthAddress(kc, p.index) = AddressFor(k)
      BY <2>5, <3>1 DEF Own, StealthAddress, SpendPubKey
    <3>3. QED  BY <2>4, <3>2 DEF SentFor
  <2>7. o.Ke = Mul(SpendPubKey(kc, p.index), Sent(p.index))
    <3>1. SpendPubKey(kc, p.index) = [times |-> {}, sum |-> SpendFor(k)]
      BY <2>5 DEF SpendPubKey, From
    <3>2. o.Ke = [times |-> {SentFor(k)}, sum |-> SpendFor(k)]
      BY PaidFields
    <3>3. QED  BY <2>6, <3>1, <3>2 DEF Mul
  <2>8. Switch(r, value) = o.commitment
    BY <2>2, <2>4, PaidFields
  <2>9. mine = {p.index}
    BY <2>3, <2>7, <2>8
  <2>10. Coin(p.index) = CoinFor(k)
    BY <2>2, <2>4, <2>5 DEF CoinFor
  <2>11. after = Raised(Filled(kc), p.index)
    BY <2>3
  <2> HIDE DEF mine, after, Coin
  <2>12. RewindOutput(kc, o).coin = {CoinFor(k)}
    BY <1>1, <2>9, <2>10
  <2>13. Own(after) /\ after.counter >= kc.counter /\ after.counter >= p.index
    BY <1>4, <2>11, KeychainSteps
  <2>14. QED  BY <1>1, <1>5, <2>12, <2>13
<1>6. CASE ~Reached(p, kc.counter)
  <2>1. own = {}
    BY <1>3, <1>6
  <2>2. mine = {}
    BY <2>1
  <2>3. after = kc \/ after = Filled(kc)
    BY <2>1
  <2> HIDE DEF mine, after, Coin
  <2>4. RewindOutput(kc, o).coin = {}
    BY <1>1, <2>2
  <2>5. Own(after) /\ after.counter >= kc.counter
    BY <1>4, <2>3, KeychainSteps
  <2>6. QED  BY <1>1, <1>6, <2>4, <2>5
<1>7. QED  BY <1>5, <1>6
-----------------------------------------------------------------------------
(* The wallet and the chain.                                               *)

Payments == [to : {"own", "other"}, index : Nat, value : Value]

\* The chain and the scan have the lengths and values they should have, and the
\* keychain has come as far as it was loaded with and as any coin it has found.
ScanInv ==
    /\ Own(keychain)
    /\ payments \in Seq(Payments)
    /\ loaded \in Nat /\ loaded <= keychain.counter
    /\ scanned \in Nat /\ scanned <= Len(payments)
    /\ coins = [k \in 1 .. Len(payments) |-> coins[k]]
    /\ \A k \in 1 .. Len(payments) : coins[k] # {} =>
           payments[k].to = "own" /\ payments[k].index <= keychain.counter
    /\ ScanFinds

\* Each of the payments is one.
LEMMA PaymentOf ==
    ASSUME payments \in Seq(Payments), NEW k \in DOMAIN payments
    PROVE  Payment(payments[k]) /\ k \in 1 .. Len(payments)
<1>1. payments[k] \in Payments /\ k \in 1 .. Len(payments)
  OBVIOUS
<1>2. QED  BY <1>1 DEF Payments, Payment

\* Fresh sender keys: no two outputs have a commitment in common.
LEMMA FreshCommitments ==
    ASSUME NEW j \in DOMAIN payments, NEW k \in DOMAIN payments,
           PayTo(j).commitment = PayTo(k).commitment
    PROVE  j = k
<1>1. Switch(BlindOf(SharedFor(j)), AmountFor(j)) = Switch(BlindOf(SharedFor(k)), AmountFor(k))
  BY PaidFields
<1>2. BlindOf(SharedFor(j)) = BlindOf(SharedFor(k))
  BY <1>1 DEF Switch, CommitBlinded, BlindSwitch, Hashed
<1>3. SharedFor(j) = SharedFor(k)
  BY <1>2 DEF BlindOf, Hashed
<1> DEFINE scan(i) == <<"scan", payments[i].to>>
           point(i) == [times |-> {scan(i), SentFor(i)}, sum |-> SpendFor(i)]
<1>4. SharedFor(j) = Derive(point(j)) /\ SharedFor(k) = Derive(point(k))
  BY PaidFields
<1>5. point(j) = point(k)
  <2>1. ASSUME NEW P, NEW Q, Derive(P) = Derive(Q)
        PROVE  P = Q
    BY <2>1 DEF Derive, Hashed
  <2> HIDE DEF point
  <2>2. QED  BY <1>3, <1>4, <2>1
<1>6. {scan(j), SentFor(j)} = {scan(k), SentFor(k)}
  BY <1>5
<1>7. SentFor(j) # scan(k) /\ SentFor(k) # scan(j)
  BY DEF SentFor, SendKey, Hashed
<1>8. SentFor(j) = SentFor(k)
  <2> HIDE DEF scan
  <2>1. QED  BY <1>6, <1>7
<1>9. NonceFor(j) = NonceFor(k)
  BY <1>8 DEF SentFor, SendKey, Hashed
<1>10. Hashed("N", <<"sender", j>>) = Hashed("N", <<"sender", k>>)
  BY <1>9 DEF NonceFor
<1>11. QED  BY <1>10 DEF Hashed

\* To rewind the output with a commitment is to rewind the output one means.
LEMMA RewoundIn ==
    ASSUME payments \in Seq(Payments), NEW k \in DOMAIN payments
    PROVE  RewindIn(Outputs, Outputs[k].commitment) = RewindOutput(keychain, PayTo(k))
<1>1. DOMAIN Outputs = DOMAIN payments /\ \A j \in DOMAIN payments : Outputs[j] = PayTo(j)
  BY DEF Outputs
<1>2. DOMAIN payments = 1 .. Len(payments)
  OBVIOUS
<1> DEFINE commitment == Outputs[k].commitment
           Is(i) == /\ Outputs[i].commitment = commitment
                    /\ \A j \in 1 .. i - 1 : Outputs[j].commitment # commitment
<1>3. \A i \in DOMAIN payments : Outputs[i].commitment = commitment => i = k
  BY <1>1, FreshCommitments
<1>4. \A j \in 1 .. k - 1 : Outputs[j].commitment # commitment
  BY <1>2, <1>3
<1>5. Is(k) /\ \A i \in DOMAIN Outputs : Is(i) => i = k
  BY <1>1, <1>3, <1>4
<1> HIDE DEF Is
<1>6. (CHOOSE i \in DOMAIN Outputs : Is(i)) = k
  BY <1>1, <1>5
<1>7. QED  BY <1>1, <1>6 DEF RewindIn, Is

\* What a wallet finds is sound, whatever its counter is.
LEMMA FoundIsOwn == ScanInv => FindsOwn
<1> SUFFICES ASSUME ScanInv, NEW k \in DOMAIN payments
             PROVE  /\ Verifies(Outputs[k])
                    /\ RewindOutput(keychain, Outputs[k]).coin # {}
                         <=> Reached(payments[k], keychain.counter)
                    /\ \A c \in RewindOutput(keychain, Outputs[k]).coin :
                         /\ c.address_index = payments[k].index
                         /\ c.amount = {<<"value", payments[k].value>>}
                         /\ CommitBlinded(c.amount, BlindingFactor(c)) = Outputs[k].commitment
                         /\ SignInput(c) = [commitment |-> Outputs[k].commitment,
                                            pubkey |-> Outputs[k].Ko]
  BY Zenon DEF FindsOwn, Reached
<1>1. Outputs[k] = PayTo(k)
  BY DEF Outputs
<1>2. Own(keychain) /\ Payment(payments[k])
  BY PaymentOf DEF ScanInv
<1>3. RewindOutput(keychain, PayTo(k)).coin
        = IF Reached(payments[k], keychain.counter) THEN {CoinFor(k)} ELSE {}
  BY <1>2, Rewound
<1>4. /\ CoinFor(k).address_index = payments[k].index
      /\ CoinFor(k).amount = AmountFor(k) /\ CoinFor(k).blind = BlindOf(SharedFor(k))
      /\ CoinFor(k).commitment = PayTo(k).commitment
      /\ CoinFor(k).key = SpendFor(k) \cup {OutKey(SharedFor(k))}
  BY DEF CoinFor
<1>5. CommitBlinded(CoinFor(k).amount, BlindingFactor(CoinFor(k))) = PayTo(k).commitment
  BY <1>4, PaidFields DEF BlindingFactor, Switch
<1>6. SignInput(CoinFor(k)) = [commitment |-> PayTo(k).commitment, pubkey |-> PayTo(k).Ko]
  BY <1>4, PaidFields DEF SignInput, From
<1>7. Verifies(PayTo(k))
  BY PaidFields
<1>8. QED  BY <1>1, <1>3, <1>4, <1>5, <1>6, <1>7 DEF AmountFor

\* A longer chain, and the coins that are known of it.
LEMMA FunctionIsSeq ==
    ASSUME NEW S, NEW n \in Nat, NEW s \in [1 .. n -> S]
    PROVE  s \in Seq(S) /\ Len(s) = n
OBVIOUS

\* A list with the elements of another and then one more appends it.
LEMMA AppendIs ==
    ASSUME NEW S, NEW s \in Seq(S), NEW e \in S, NEW w \in Seq(S), Len(w) = Len(s) + 1,
           \A i \in 1 .. Len(s) : w[i] = s[i], w[Len(s) + 1] = e
    PROVE  Append(s, e) = w
OBVIOUS

\* Appending to a list given by its elements.
LEMMA Appended ==
    ASSUME NEW n \in Nat, NEW s, s = [i \in 1 .. n |-> s[i]], NEW e
    PROVE  Append(s, e) = [i \in 1 .. n + 1 |-> IF i = n + 1 THEN e ELSE s[i]]
<1> DEFINE S == {s[i] : i \in 1 .. n} \cup {e}
           w == [i \in 1 .. n + 1 |-> IF i = n + 1 THEN e ELSE s[i]]
<1>1. \A i \in 1 .. n : s[i] \in S
  OBVIOUS
<1>2. e \in S
  OBVIOUS
<1> HIDE DEF S
<1>3. s \in [1 .. n -> S]
  BY <1>1
<1>4. w \in [1 .. n + 1 -> S]
  BY <1>1, <1>2
<1>5. /\ \A i \in 1 .. n : w[i] = s[i]
      /\ w[n + 1] = e
  OBVIOUS
<1> HIDE DEF w
<1>6. s \in Seq(S) /\ Len(s) = n
  BY <1>3, FunctionIsSeq
<1>7. w \in Seq(S) /\ Len(w) = n + 1
  BY <1>4, FunctionIsSeq
<1>8. Append(s, e) = w
  BY <1>2, <1>5, <1>6, <1>7, AppendIs
<1>9. QED  BY <1>8 DEF w

\* What both ways of rewinding an output do to keychain and coins.
LEMMA Rewinds ==
    ASSUME ScanInv, NEW k \in 1 .. Len(payments), RewindAt(k)
    PROVE  /\ Own(keychain') /\ keychain'.counter >= keychain.counter
           /\ keychain'.counter \in Nat /\ keychain.counter \in Nat
           /\ coins' = [i \in 1 .. Len(payments) |-> coins'[i]]
           /\ \A i \in 1 .. Len(payments) : i # k => coins'[i] = coins[i]
           /\ coins'[k] # {} <=> Reached(payments[k], keychain.counter)
           /\ coins'[k] # {} => payments[k].to = "own" /\ payments[k].index <= keychain'.counter
<1> DEFINE found == RewindOutput(keychain, PayTo(k))
<1>1. k \in DOMAIN payments /\ payments \in Seq(Payments) /\ Own(keychain)
  BY DEF ScanInv
<1>2. Payment(payments[k])
  BY <1>1, PaymentOf
<1>3. keychain' = found.keychain /\ coins' = [coins EXCEPT ![k] = found.coin]
  BY <1>1, RewoundIn, Zenon DEF RewindAt
<1>4. /\ found.coin = IF Reached(payments[k], keychain.counter) THEN {CoinFor(k)} ELSE {}
      /\ Own(found.keychain) /\ found.keychain.counter >= keychain.counter
      /\ Reached(payments[k], keychain.counter) =>
           found.keychain.counter >= payments[k].index
  BY <1>1, <1>2, Rewound
<1>5. payments[k].index \in Nat /\ keychain.counter \in Nat
  BY <1>1, <1>2 DEF Payment, Own
<1> HIDE DEF found
<1>6. keychain'.counter \in Nat
  BY <1>3, <1>4 DEF Own
<1>7. DOMAIN coins = 1 .. Len(payments)
  BY DEF ScanInv
<1>8. /\ coins' = [i \in 1 .. Len(payments) |-> coins'[i]]
      /\ \A i \in 1 .. Len(payments) : i # k => coins'[i] = coins[i]
      /\ coins'[k] = found.coin
  BY <1>3, <1>7
<1>9. QED
  BY <1>3, <1>4, <1>5, <1>6, <1>8 DEF Reached

\* The empty chain, and one lemma for each action.
LEMMA ScanInitially == WalletInit => ScanInv
<1> SUFFICES ASSUME WalletInit PROVE ScanInv
  OBVIOUS
<1>1. Own(keychain) /\ keychain.counter = 0
  BY WalletAssumption DEF WalletInit, Own, NewKeychain
<1>2. payments \in Seq(Payments) /\ Len(payments) = 0
  BY DEF WalletInit
<1>3. coins = [k \in 1 .. Len(payments) |-> coins[k]]
  BY <1>2 DEF WalletInit
<1>4. loaded = 0 /\ scanned = 0
  BY DEF WalletInit
<1>5. QED
  BY <1>1, <1>2, <1>3, <1>4 DEF ScanInv, ScanFinds

\* Making an address keeps what scanning relies on,
LEMMA AddressScan ==
    ASSUME ScanInv, NEW index \in 0 .. MaxIndex, GetAddress(index)
    PROVE  ScanInv'
<1>1. Own(keychain) /\ index \in Nat /\ keychain.counter \in Nat
  BY WalletAssumption DEF ScanInv, Own
<1>2. Own(keychain') /\ keychain'.counter >= keychain.counter /\ keychain'.counter \in Nat
  BY <1>1, KeychainSteps DEF GetAddress
<1>3. payments' = payments /\ loaded' = loaded /\ scanned' = scanned /\ coins' = coins
  BY DEF GetAddress
<1>4. ScanFinds'
  BY <1>3 DEF ScanInv, ScanFinds
<1>5. ASSUME NEW k \in 1 .. Len(payments), coins[k] # {}
      PROVE  payments[k].to = "own" /\ payments[k].index <= keychain'.counter
  <2>1. payments[k].to = "own" /\ payments[k].index <= keychain.counter
    BY <1>5 DEF ScanInv
  <2>2. payments[k].index \in Nat
    BY PaymentOf DEF ScanInv, Payment
  <2>3. QED  BY <1>1, <1>2, <2>1, <2>2
<1>6. loaded <= keychain'.counter
  BY <1>1, <1>2 DEF ScanInv
<1>7. QED
  BY <1>2, <1>3, <1>4, <1>5, <1>6 DEF ScanInv

\* so does making an output,
LEMMA CreateScan ==
    ASSUME ScanInv, NEW to \in {"own", "other"}, NEW index \in Nat, NEW value \in Value,
           CreateOutput(to, index, value)
    PROVE  ScanInv'
<1> DEFINE n == Len(payments)
           p == [to |-> to, index |-> index, value |-> value]
<1>1. payments \in Seq(Payments) /\ n \in Nat /\ scanned \in Nat /\ scanned <= n
  BY DEF ScanInv
<1>2. p \in Payments
  BY WalletAssumption DEF Payments
<1>3. payments' = Append(payments, p) /\ coins' = Append(coins, {})
      /\ keychain' = keychain /\ loaded' = loaded /\ scanned' = scanned
  BY DEF CreateOutput
<1> HIDE DEF p
<1>4. /\ payments' \in Seq(Payments) /\ Len(payments') = n + 1
      /\ \A k \in 1 .. n : payments'[k] = payments[k]
  BY <1>1, <1>2, <1>3
<1>5. coins' = [i \in 1 .. n + 1 |-> IF i = n + 1 THEN {} ELSE coins[i]]
  BY <1>1, <1>3, Appended DEF ScanInv
<1> HIDE DEF n
<1>6. /\ coins' = [i \in 1 .. n + 1 |-> coins'[i]] /\ coins'[n + 1] = {}
      /\ \A k \in 1 .. n : coins'[k] = coins[k]
  BY <1>1, <1>5
<1>7. ASSUME NEW k \in 1 .. n + 1, coins'[k] # {}
      PROVE  payments'[k].to = "own" /\ payments'[k].index <= keychain.counter
  <2>1. k \in 1 .. n
    BY <1>1, <1>6, <1>7
  <2>2. QED  BY <1>4, <1>6, <1>7, <2>1 DEF ScanInv, n
<1>8. \A k \in 1 .. scanned : k \in 1 .. n /\ \A j \in 1 .. k - 1 : j \in 1 .. n
  BY <1>1
<1>9. ScanFinds'
  BY <1>3, <1>4, <1>6, <1>8 DEF ScanInv, ScanFinds
<1>10. Own(keychain) /\ loaded \in Nat /\ loaded <= keychain.counter
  BY DEF ScanInv
<1>11. scanned <= n + 1
  BY <1>1
<1>12. QED
  BY <1>1, <1>3, <1>4, <1>6, <1>7, <1>9, <1>10, <1>11 DEF ScanInv

\* loading the keychain,
LEMMA LoadScan ==
    ASSUME ScanInv, NEW counter \in Nat, LoadKeychain(counter)
    PROVE  ScanInv'
<1>1. Own(keychain') /\ keychain'.counter = counter
  BY WalletAssumption DEF LoadKeychain, NewKeychain, Own
<1>2. payments' = payments /\ loaded' = counter /\ scanned' = 0
  BY DEF LoadKeychain
<1>3. coins' = [k \in 1 .. Len(payments) |-> {}]
  BY DEF LoadKeychain, ScanInv
<1>4. /\ coins' = [k \in 1 .. Len(payments) |-> coins'[k]]
      /\ \A k \in 1 .. Len(payments) : coins'[k] = {}
  BY <1>3
<1>5. QED
  BY <1>1, <1>2, <1>4 DEF ScanInv, ScanFinds

\* Rewinding keeps the rest; what is left is the scan.
LEMMA RewindKeeps ==
    ASSUME ScanInv, NEW k \in 1 .. Len(payments), RewindAt(k), payments' = payments,
           loaded' = loaded, scanned' \in Nat, scanned' <= Len(payments), ScanFinds'
    PROVE  ScanInv'
<1>1. Own(keychain') /\ keychain'.counter >= keychain.counter
      /\ keychain'.counter \in Nat /\ keychain.counter \in Nat
  BY Rewinds
<1>2. coins' = [i \in 1 .. Len(payments) |-> coins'[i]]
  BY Rewinds
<1>3. ASSUME NEW i \in 1 .. Len(payments), coins'[i] # {}
      PROVE  payments[i].to = "own" /\ payments[i].index <= keychain'.counter
  <2>1. CASE i = k
    BY <1>3, <2>1, Rewinds
  <2>2. CASE i # k
    <3>1. coins'[i] = coins[i]
      BY <2>2, Rewinds
    <3>2. payments[i].to = "own" /\ payments[i].index <= keychain.counter
      BY <1>3, <3>1 DEF ScanInv
    <3>3. payments[i].index \in Nat
      BY PaymentOf DEF ScanInv, Payment
    <3>4. QED  BY <1>1, <3>2, <3>3
  <2>3. QED  BY <2>1, <2>2
<1>4. loaded <= keychain'.counter /\ loaded \in Nat /\ payments \in Seq(Payments)
  BY <1>1 DEF ScanInv
<1>5. QED  BY <1>1, <1>2, <1>3, <1>4 DEF ScanInv

\* and rewinding the output of a transaction.
LEMMA TxScan ==
    ASSUME ScanInv, NEW k, RewindTxOutput(k)
    PROVE  ScanInv'
<1>1. k \in 1 .. Len(payments) /\ k > scanned /\ RewindAt(k)
      /\ payments' = payments /\ loaded' = loaded /\ scanned' = scanned
  BY DEF RewindTxOutput, ScanInv
<1>2. scanned \in Nat /\ scanned <= Len(payments) /\ Len(payments) \in Nat
  BY DEF ScanInv
<1>3. \A i \in 1 .. Len(payments) : i # k => coins'[i] = coins[i]
  BY <1>1, Rewinds
<1>4. \A i \in 1 .. scanned : coins'[i] = coins[i]
  <2> SUFFICES ASSUME NEW i \in 1 .. scanned  PROVE coins'[i] = coins[i]
    OBVIOUS
  <2>1. i \in 1 .. Len(payments) /\ i # k
    BY <1>1, <1>2
  <2>2. QED  BY <1>3, <2>1
<1>5. \A i \in 1 .. scanned : \A j \in 1 .. i - 1 : j \in 1 .. scanned
  BY <1>2
<1>6. ScanFinds'
  BY <1>1, <1>4, <1>5 DEF ScanInv, ScanFinds
<1>7. QED  BY <1>1, <1>2, <1>6, RewindKeeps

\* The scan comes to an output: the keychain was loaded with a counter, or has
\* found a coin, that brings the index of the output into the window.
LEMMA BlockScan ==
    ASSUME ScanInv, RewindBlockOutput
    PROVE  ScanInv'
<1> DEFINE k == scanned + 1
           n == Len(payments)
           Near(index, i) == payments[i].index <= index + RestoreWindow
<1>1. scanned \in Nat /\ n \in Nat /\ k \in 1 .. n
  BY DEF ScanInv, RewindBlockOutput
<1>2. RewindAt(k) /\ payments' = payments /\ loaded' = loaded /\ scanned' = k
  BY DEF RewindBlockOutput
<1> HIDE DEF k
<1>3. /\ \A i \in 1 .. n : i # k => coins'[i] = coins[i]
      /\ coins'[k] # {} <=> Reached(payments[k], keychain.counter)
      /\ keychain.counter \in Nat
  BY <1>1, <1>2, Rewinds
<1>4. \A i \in 1 .. n : payments[i].index \in Nat
  <2> SUFFICES ASSUME NEW i \in 1 .. n  PROVE payments[i].index \in Nat
    OBVIOUS
  <2>1. QED  BY PaymentOf DEF ScanInv, Payment
<1>5. ASSUME payments[k].to = "own",
             \/ Near(loaded, k)
             \/ \E j \in 1 .. k - 1 : coins'[j] # {} /\ Near(payments[j].index, k)
      PROVE  coins'[k] # {}
  <2>1. payments[k].index \in Nat
    BY <1>1, <1>4
  <2>2. CASE Near(loaded, k)
    <3>1. loaded \in Nat /\ loaded <= keychain.counter
      BY DEF ScanInv
    <3>2. payments[k].index <= keychain.counter + RestoreWindow
      BY <1>3, <2>1, <2>2, <3>1, WalletAssumption
    <3>3. QED  BY <1>3, <1>5, <3>2 DEF Reached
  <2>3. CASE \E j \in 1 .. k - 1 : coins'[j] # {} /\ Near(payments[j].index, k)
    <3>1. PICK j \in 1 .. k - 1 : coins'[j] # {} /\ Near(payments[j].index, k)
      BY <2>3
    <3>2. j \in 1 .. n /\ j # k
      BY <1>1
    <3>3. coins[j] # {}
      BY <1>3, <3>1, <3>2
    <3>4. payments[j].index <= keychain.counter /\ payments[j].index \in Nat
      BY <1>4, <3>2, <3>3 DEF ScanInv
    <3>5. payments[k].index <= keychain.counter + RestoreWindow
      BY <1>3, <2>1, <3>1, <3>4, WalletAssumption
    <3>6. QED  BY <1>3, <1>5, <3>5 DEF Reached
  <2>4. QED  BY <1>5, <2>2, <2>3
<1>6. ASSUME NEW i \in 1 .. k, payments[i].to = "own",
             \/ Near(loaded, i)
             \/ \E j \in 1 .. i - 1 : coins'[j] # {} /\ Near(payments[j].index, i)
      PROVE  coins'[i] # {}
  <2>1. CASE i = k
    BY <1>5, <1>6, <2>1
  <2>2. CASE i # k
    <3>1. i \in 1 .. scanned /\ i \in 1 .. n
      BY <1>1, <2>2 DEF k
    <3>2. \A j \in 1 .. i - 1 : coins'[j] = coins[j]
      <4> SUFFICES ASSUME NEW j \in 1 .. i - 1  PROVE coins'[j] = coins[j]
        OBVIOUS
      <4>1. j \in 1 .. n /\ j # k
        BY <1>1, <3>1 DEF k
      <4>2. QED  BY <1>3, <4>1
    <3>3. coins[i] # {}
      BY <1>6, <3>1, <3>2 DEF ScanInv, ScanFinds
    <3>4. QED  BY <1>3, <2>2, <3>1, <3>3
  <2>3. QED  BY <2>1, <2>2
<1>7. ScanFinds'
  BY <1>2, <1>6 DEF ScanFinds
<1>8. QED
  BY <1>1, <1>2, <1>7, RewindKeeps

(* The keychain, the chain and the scan keep together as they should: the  *)
(* counter is never behind an index that has been found (Keychain.cpp).    *)
THEOREM ScanInvariance == WalletSpec => []ScanInv
<1>1. ScanInv /\ [WalletNext]_wvars => ScanInv'
  <2> SUFFICES ASSUME ScanInv, [WalletNext]_wvars PROVE ScanInv'
    OBVIOUS
  <2>1. ASSUME NEW index \in 0 .. MaxIndex, GetAddress(index)  PROVE ScanInv'
    BY <2>1, AddressScan
  <2>2. ASSUME NEW index \in 0 .. MaxIndex, NEW value \in Value,
               CreateOutput("own", index, value)
        PROVE  ScanInv'
    <3>1. index \in Nat
      BY WalletAssumption
    <3>2. QED  BY <2>2, <3>1, CreateScan
  <2>3. ASSUME NEW value \in Value, CreateOutput("other", 0, value)  PROVE ScanInv'
    BY <2>3, CreateScan
  <2>4. ASSUME NEW k \in 1 .. MaxOutputs, RewindTxOutput(k)  PROVE ScanInv'
    BY <2>4, TxScan
  <2>5. CASE RewindBlockOutput
    BY <2>5, BlockScan
  <2>6. ASSUME NEW counter \in {0, keychain.counter}, LoadKeychain(counter)  PROVE ScanInv'
    <3>1. counter \in Nat
      BY DEF ScanInv, Own
    <3>2. QED  BY <2>6, <3>1, LoadScan
  <2>7. CASE UNCHANGED wvars
    BY <2>7 DEF wvars, ScanInv, ScanFinds
  <2>8. QED  BY <2>1, <2>2, <2>3, <2>4, <2>5, <2>6, <2>7 DEF WalletNext
<1>2. QED  BY <1>1, ScanInitially, PTL DEF WalletSpec

(* A wallet finds, with amount, blinding factor and key, exactly the       *)
(* outputs that were paid to an address of its own within its window       *)
(* (Output.cpp:33-119, Wallet.cpp:4-53, WalletUtil.h:12-67), whatever the  *)
(* window is and whichever hashes begin with the same byte.                *)
THEOREM OwnFound == WalletSpec => []FindsOwn
<1>1. QED  BY ScanInvariance, FoundIsOwn, PTL

(* A scan in the order of the chain misses no output within the window of  *)
(* the counter it began with, or of a coin it found before                 *)
(* (Keychain.cpp:9-18, 32-50).                                             *)
THEOREM ScanComplete == WalletSpec => []ScanFinds
<1>1. ScanInv => ScanFinds
  BY DEF ScanInv
<1>2. QED  BY <1>1, ScanInvariance, PTL
=============================================================================
