------------------------- MODULE ExtBlockChainProofs -------------------------
(***************************************************************************)
(* The safety of the stack of states: its coins are sound, what is spent   *)
(* stays spent, and a header commits to its state.                         *)
(***************************************************************************)
EXTENDS ExtBlockChain, CoinsViewProofs

\* A state is the genesis or has the header that commits to it.
Committed(s) ==
    s = Genesis \/ s.hdr = HeaderOf(s.txos, s.kernels, s.leafset)

AllCommitted ==
    /\ Committed(tip)
    /\ Committed(saved)
    /\ \A i \in DOMAIN below : Committed(below[i])

\* The inductive invariant.
Inv == TypeOK /\ CoinsAreSound /\ SpentStaysSpent /\ AllCommitted

\* The invariant holds of the genesis state,
LEMMA InitInv == Init => Inv
<1> SUFFICES ASSUME Init PROVE Inv
  OBVIOUS
<1>1. tip = Genesis /\ below = <<>> /\ saved = Genesis
  BY DEF Init
<1>2. Genesis \in StateType /\ CoinsSound(Genesis)
  BY GenesisSound
<1>3. TypeOK
  BY <1>1, <1>2 DEF TypeOK
<1>4. CoinsAreSound /\ SpentStaysSpent /\ AllCommitted
  BY <1>1, <1>2 DEF CoinsAreSound, SpentStaysSpent, AllCommitted, Committed
<1> QED  BY <1>3, <1>4 DEF Inv

\* A block pushes a sound state that grew out of the tip.
LEMMA ConnectInv == Inv /\ Connect => Inv'
<1> SUFFICES ASSUME Inv, Connect PROVE Inv'
  OBVIOUS
<1>1. PICK b \in Body :
          /\ Extends(tip, b)
          /\ tip' = Apply(tip, b)
          /\ below' = Append(below, tip)
          /\ saved' = saved
  BY DEF Connect
<1>2. /\ tip \in StateType /\ below \in Seq(StateType) /\ saved \in StateType
      /\ CoinsSound(tip)
  BY DEF Inv, TypeOK, CoinsAreSound
<1>3. /\ tip' \in StateType
      /\ CoinsSound(tip') /\ Grows(tip, tip')
  BY <1>1, <1>2, ApplyType, ApplySound
<1>4. Committed(tip')
  BY <1>1, ApplyFields DEF Committed
<1>5. /\ DOMAIN below' = 1 .. Len(below) + 1
      /\ below'[Len(below) + 1] = tip
      /\ \A i \in DOMAIN below : below'[i] = below[i] /\ below[i] \in StateType
      /\ \A i \in DOMAIN below' : i \in DOMAIN below \/ i = Len(below) + 1
      /\ DOMAIN below = 1 .. Len(below)
  BY <1>1, <1>2
<1>6. TypeOK'
  BY <1>1, <1>2, <1>3 DEF TypeOK
<1>7. CoinsAreSound'
  BY <1>1, <1>3, <1>5 DEF Inv, CoinsAreSound
<1>8. AllCommitted'
  BY <1>1, <1>4, <1>5 DEF Inv, AllCommitted
<1>9. SpentStaysSpent'
  <2>1. \A i \in DOMAIN below' : Grows(below'[i], tip')
    <3> SUFFICES ASSUME NEW i \in DOMAIN below' PROVE Grows(below'[i], tip')
      OBVIOUS
    <3>1. CASE i \in DOMAIN below
      <4>1. Grows(below[i], tip)
        BY <3>1 DEF Inv, SpentStaysSpent
      <4> QED  BY <1>2, <1>3, <1>5, <3>1, <4>1, GrowsTransitive
    <3>2. CASE i = Len(below) + 1
      BY <1>3, <1>5, <3>2
    <3> QED  BY <1>5, <3>1, <3>2
  <2>2. \A i, j \in DOMAIN below' : i < j => Grows(below'[i], below'[j])
    <3> SUFFICES ASSUME NEW i \in DOMAIN below', NEW j \in DOMAIN below', i < j
                 PROVE  Grows(below'[i], below'[j])
      OBVIOUS
    <3>1. i \in DOMAIN below
      BY <1>2, <1>5
    <3>2. CASE j \in DOMAIN below
      BY <1>5, <3>1, <3>2 DEF Inv, SpentStaysSpent
    <3>3. CASE j = Len(below) + 1
      BY <1>5, <3>1, <3>3 DEF Inv, SpentStaysSpent
    <3> QED  BY <1>5, <3>2, <3>3
  <2> QED  BY <2>1, <2>2 DEF SpentStaysSpent
<1> QED  BY <1>6, <1>7, <1>8, <1>9 DEF Inv

\* A disconnect returns to a state of the stack.
LEMMA DisconnectInv == Inv /\ Disconnect => Inv'
<1> SUFFICES ASSUME Inv, Disconnect PROVE Inv'
  OBVIOUS
<1> DEFINE n == Len(below)
<1>1. /\ below # <<>> /\ tip' = below[n]
      /\ below' = SubSeq(below, 1, n - 1) /\ saved' = saved
  BY DEF Disconnect
<1>2. /\ below \in Seq(StateType) /\ saved \in StateType
  BY DEF Inv, TypeOK
<1>3. n \in Nat /\ n >= 1 /\ DOMAIN below = 1 .. n
  BY <1>1, <1>2
<1>4. /\ below' \in Seq(StateType)
      /\ DOMAIN below' = 1 .. n - 1
      /\ \A i \in 1 .. n - 1 : below'[i] = below[i]
  BY <1>1, <1>2, <1>3
<1> HIDE DEF n
<1>5. n \in DOMAIN below /\ \A i \in 1 .. n - 1 : i \in DOMAIN below /\ i < n
  BY <1>3
<1>6. TypeOK'
  BY <1>1, <1>2, <1>3, <1>4 DEF TypeOK
<1>7. CoinsAreSound'
  BY <1>1, <1>4, <1>5 DEF Inv, CoinsAreSound
<1>8. AllCommitted'
  BY <1>1, <1>4, <1>5 DEF Inv, AllCommitted
<1>9. SpentStaysSpent'
  BY <1>1, <1>4, <1>5 DEF Inv, SpentStaysSpent
<1> QED  BY <1>6, <1>7, <1>8, <1>9 DEF Inv

\* each block connected or disconnected keeps it,
LEMMA NextInv == Inv /\ [Next]_vars => Inv'
<1> SUFFICES ASSUME Inv, [Next]_vars PROVE Inv'
  OBVIOUS
<1>1. CASE Connect  BY <1>1, ConnectInv
<1>2. CASE Disconnect  BY <1>2, DisconnectInv
<1>3. CASE Save
  BY <1>3 DEF Save, Inv, TypeOK, CoinsAreSound, SpentStaysSpent, AllCommitted
<1>4. CASE UNCHANGED vars
  BY <1>4 DEF vars, Inv, TypeOK, CoinsAreSound, SpentStaysSpent, AllCommitted
<1> QED  BY <1>1, <1>2, <1>3, <1>4 DEF Next

\* so it holds of every state,
LEMMA Invariance == Spec => []Inv
<1> QED  BY InitInv, NextInv, PTL DEF Spec

\* Two states with the same header are the same: the header gives the outputs,
\* the kernels and the leaves, and a coin is a leaf with its output.
LEMMA SameHeader ==
    ASSUME NEW s \in StateType, NEW t \in StateType,
           CoinsSound(s), CoinsSound(t), Committed(s), Committed(t),
           s.hdr = t.hdr
    PROVE  s = t
<1>1. \A r \in StateType : Committed(r) /\ r # Genesis => r.hdr # NoHeader
  BY HeaderOfType DEF Committed, StateType
<1>2. Genesis.hdr = NoHeader
  BY DEF Genesis, State
<1>3. CASE s = Genesis \/ t = Genesis
  BY <1>1, <1>2, <1>3
<1>4. CASE s # Genesis /\ t # Genesis
  <2>1. HeaderOf(s.txos, s.kernels, s.leafset) = HeaderOf(t.txos, t.kernels, t.leafset)
    BY <1>4 DEF Committed
  <2>2. /\ s.txos = t.txos
        /\ s.kernels = t.kernels
        /\ s.leafset = t.leafset
    BY <2>1 DEF HeaderOf
  <2>3. \A p, q \in StateType :
            /\ CoinsSound(p) /\ CoinsSound(q)
            /\ p.txos = q.txos /\ p.leafset = q.leafset
            => p.utxos \subseteq q.utxos
    <3> SUFFICES ASSUME NEW p \in StateType, NEW q \in StateType,
                        CoinsSound(p), CoinsSound(q),
                        p.txos = q.txos, p.leafset = q.leafset,
                        NEW u \in p.utxos
                 PROVE  u \in q.utxos
      OBVIOUS
    <3>1. u[2] \in q.leafset
      BY DEF CoinsSound
    <3>2. PICK w \in q.utxos : w[2] = u[2]
      BY <3>1 DEF CoinsSound
    <3>3. w[1] = u[1]
      BY <3>2 DEF CoinsSound
    <3>4. u \in Commitment \X Nat /\ w \in Commitment \X Nat
      BY DEF StateType
    <3> QED  BY <3>2, <3>3, <3>4
  <2>4. s.utxos = t.utxos
    BY <2>2, <2>3
  <2> QED  BY <2>2, <2>4 DEF StateType
<1> QED  BY <1>3, <1>4

\* where it says that each header commits to its state.
LEMMA InvCommits == Inv => HeaderCommits
<1> SUFFICES ASSUME Inv PROVE HeaderCommits
  OBVIOUS
<1>1. \A s \in {tip, saved} \cup {below[i] : i \in DOMAIN below} :
          s \in StateType /\ CoinsSound(s) /\ Committed(s)
  BY DEF Inv, TypeOK, CoinsAreSound, AllCommitted
<1> QED  BY <1>1, SameHeader DEF HeaderCommits

\* The stack holds states.
THEOREM TypeCorrect == Spec => []TypeOK
<1>1. Inv => TypeOK
  BY DEF Inv
<1> QED  BY <1>1, Invariance, PTL

\* Every coin of every state is a mined output, marked in the leafset, and the
\* only coin of its commitment (ApplyBlock, UndoBlock, Flush).
THEOREM SoundCoins == Spec => []CoinsAreSound
<1>1. Inv => CoinsAreSound
  BY DEF Inv
<1> QED  BY <1>1, Invariance, PTL

\* Only a disconnect makes a spent coin unspent.
THEOREM NoResurrection == Spec => []SpentStaysSpent
<1>1. Inv => SpentStaysSpent
  BY DEF Inv
<1> QED  BY <1>1, Invariance, PTL

\* Checking a header, as ValidateMMRs does, checks the whole state.
THEOREM Commitments == Spec => []HeaderCommits
<1> QED  BY InvCommits, Invariance, PTL
=============================================================================
