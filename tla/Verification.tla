---------------------------- MODULE Verification ----------------------------
(***************************************************************************)
(* Threads that verify, sign and commit: the functions of Bulletproofs,    *)
(* Schnorr, MuSig and Crypto, with the caches of what was verified and the *)
(* locks of their contexts.  A function is the sequence of its accesses to *)
(* what threads share.  None uses two contexts, so that a behaviour is     *)
(* about one.                                                              *)
(***************************************************************************)
EXTENDS ContextLock, Sequences

CONSTANTS
    Item,           \* records of a key and what it belongs to: a commitment
                    \* and its proof, a public key and a signed message
    Valid,          \* the items that verify
    Parsed,         \* the items whose key libsecp256k1 parses
    Call,           \* what is called: records of context, op and items
    Capacity,       \* of a cache (3000 in the code)
    MaxCalls,       \* bound: calls of a thread
    NoCall, NoAnswer

ASSUME VerificationAssumption ==
    /\ Valid \subseteq Parsed /\ Parsed \subseteq Item
    /\ Capacity \in Nat \ {0} /\ MaxCalls \in Nat
    /\ NoCall \notin Call
    /\ \A call \in Call :
          /\ call.items \in Seq(Item)
          /\ call.op = "Bulletproofs::BatchVerify" => call.context = "BP_CONTEXT"

VARIABLES
    context,    \* the context that this behaviour is about
    lock,       \* its lock
    cache,      \* its cache: items, the last used first
    thread,     \* for every thread, the call it is in, the accesses it has
                \* yet to make, and the items it did not find in the cache
    answer,     \* for every thread, what its last call returned
    calls       \* for every thread, the calls it may still make

vars == <<context, lock, cache, thread, answer, calls>>

S == INSTANCE SequencesExt

Idle == [call |-> NoCall, todo |-> <<>>, missing |-> <<>>]
-----------------------------------------------------------------------------
(* The caches: BulletProofsCache finds a proof by its commitment and       *)
(* compares it, SchnorrCache finds a signed message by the whole of it.    *)

Key(x) == IF context = "BP_CONTEXT" THEN x.key ELSE x

Entry(x) == {i \in DOMAIN cache : Key(cache[i]) = Key(x)}

\* There is one entry of a key at most.
Others(x) == IF Entry(x) = {} THEN cache ELSE S!RemoveAt(cache, CHOOSE i \in Entry(x) : TRUE)

\* Mutant: the proof found is not compared.
ContainsKey(x) == Entry(x) # {}

Contains(x) == \E i \in Entry(x) : cache[i] = x

\* The cache after Contains: a proof that was got is the last used.
Touched(x) ==
    IF context = "BP_CONTEXT" /\ Entry(x) # {}
    THEN <<cache[CHOOSE i \in Entry(x) : TRUE]>> \o Others(x)
    ELSE cache

\* Put, which drops what was used least recently.
Put(x) ==
    LET items == <<x>> \o Others(x)
    IN  IF Len(items) > Capacity THEN S!Front(items) ELSE items
-----------------------------------------------------------------------------
(* The accesses.                                                           *)

Access(kind, n, items) == [kind |-> kind, readers |-> n, items |-> items]

\* An expression with n temporaries of Read(), and one with a writer.
Reads(n) == Access("reads", n, <<>>)
Randomized == Access("writes", 0, <<>>)

\* ConversionUtil: ToSecp256k1 throws if the item's key is not a point.
ToSecp256k1(x) == Access("parses", 1, <<x>>)
Serialized == Reads(1)

Each(Do(_), items) == [i \in DOMAIN items |-> Do(items[i])]

Repeat(n, access) == [i \in 1 .. n |-> access]

Looks(x) == Access("looks", 0, <<x>>)
Adds(x) == Access("adds", 0, <<x>>)
Verifies(n, items) == Access("verifies", n, items)

\* Mutant: the cache is filled before the items have been verified.
AddsFirst(call, missing) ==
    Each(ToSecp256k1, missing) \o Each(Adds, missing) \o <<Verifies(1, missing)>>

\* What follows when it is known which items are not in the cache.
\* Bulletproofs::BatchVerify parses a commitment as soon as it is not found,
\* and verifies with two readers at once: it adds again all it was given.
AfterLookup(call, missing) ==
    CASE call.op = "Bulletproofs::BatchVerify" ->
            IF missing = <<>> THEN <<>>
            ELSE <<Reads(1), Verifies(2, missing)>> \o Each(Adds, call.items)
      [] call.op = "Schnorr::Verify" ->
            IF missing = <<>> THEN <<>>
            ELSE Each(ToSecp256k1, missing) \o <<Verifies(1, missing)>> \o Each(Adds, missing)
      [] OTHER ->    \* Schnorr::BatchVerify
            Each(ToSecp256k1, missing) \o Repeat(Len(missing), Reads(1))
                \o <<Reads(1), Verifies(1, missing)>> \o Each(Adds, missing)

VerifyOps == {"Bulletproofs::BatchVerify", "Schnorr::Verify", "Schnorr::BatchVerify"}

\* Of commitments: the point is converted, too.
ToPublicKey(items) == Each(ToSecp256k1, items) \o <<Reads(1), Serialized>>

\* PublicKeys and Pedersen.
CalculatePublicKey == <<Reads(1), Reads(1), Serialized>>

PublicKeySum(keys, negated) ==
    Each(ToSecp256k1, keys \o negated)
        \o Repeat(Len(negated), Reads(1)) \o <<Reads(1), Serialized>>

PedersenCommit == <<Reads(1), Serialized>>

PedersenCommitSum(items) == Each(ToSecp256k1, items) \o <<Reads(1), Serialized>>

PedersenBlindSum == <<Reads(1)>>

\* The other functions.
Schnorr(op) ==
    IF op = "Schnorr::Sign" THEN <<Randomized, Serialized>>
    ELSE CalculatePublicKey \o <<Randomized, Serialized>>    \* SignMessage

Bulletproofs(op, items) ==
    IF op = "Bulletproofs::Generate" THEN <<Randomized>>
    ELSE Each(ToSecp256k1, items) \o <<Reads(1)>>            \* Rewind

MuSig(op, items) ==
    CASE op = "MuSig::GenerateSecureNonce" -> <<Reads(1)>>
      [] op = "MuSig::CalculatePartial" ->
            Each(ToSecp256k1, items) \o <<Randomized, Serialized>>
      [] op = "MuSig::VerifyPartial" ->
            <<Reads(1)>> \o Each(ToSecp256k1, items) \o <<Verifies(1, items)>>
      [] OTHER ->    \* MuSig::Aggregate, of two signatures
            Each(ToSecp256k1, items) \o Repeat(2, Reads(1)) \o <<Reads(1)>>

Crypto(op, items) ==
    CASE op = "Crypto::CalculatePublicKey" -> CalculatePublicKey
      [] op = "Crypto::CommitBlinded"      -> PedersenCommit
      [] op = "Crypto::AddCommitments"     ->
            IF items = <<>> THEN <<>> ELSE PedersenCommitSum(items)
      [] op = "Crypto::AddBlindingFactors" ->
            IF items = <<>> THEN <<>> ELSE PedersenBlindSum
      [] op = "Crypto::AddPublicKeys"      -> PublicKeySum(items, items)
      [] op \in {"Crypto::BlindSwitch", "Crypto::AddPrivateKeys"} -> <<Reads(1)>>
      [] op = "Crypto::ToPublicKey"        -> ToPublicKey(items)
      [] OTHER                             ->    \* Crypto::MultiplyKey
            Each(ToSecp256k1, items) \o <<Reads(1), Serialized>>

Accesses(call) ==
    CASE call.op \in VerifyOps -> IF call.items = <<>> THEN AfterLookup(call, <<>>)
                                  ELSE Each(Looks, call.items)
      [] call.context = "SCHNORR_CONTEXT" /\ call.op \notin VerifyOps -> Schnorr(call.op)
      [] call.context = "BP_CONTEXT" /\ call.op \notin VerifyOps ->
            Bulletproofs(call.op, call.items)
      [] call.context = "MUSIG_CONTEXT" /\ call.op \notin VerifyOps -> MuSig(call.op, call.items)
      [] OTHER -> Crypto(call.op, call.items)
-----------------------------------------------------------------------------
(* Threads.                                                                *)

Busy(t) == thread[t].call # NoCall

Does(t, kinds) ==
    Busy(t) /\ thread[t].todo # <<>> /\ Head(thread[t].todo).kind \in kinds

Waiting == {t \in Thread : Does(t, {"writes"}) /\ lock.writer # {t}}

GoesOn(t) == thread' = [thread EXCEPT ![t].todo = Tail(@)]

Ends(t, result) ==
    /\ thread' = [thread EXCEPT ![t] = Idle]
    /\ answer' = [answer EXCEPT ![t] = result]

Init ==
    /\ context \in {"BP_CONTEXT", "SCHNORR_CONTEXT", "MUSIG_CONTEXT", "SECP256K1_CONTEXT"}
    /\ lock = Unlocked
    /\ cache = <<>>
    /\ thread = [t \in Thread |-> Idle]
    /\ answer = [t \in Thread |-> NoAnswer]
    /\ calls = [t \in Thread |-> MaxCalls]

Begin(t) ==
    /\ ~Busy(t) /\ calls[t] > 0
    /\ \E call \in {c \in Call : c.context = context} :
          thread' = [thread EXCEPT ![t] =
                        [call |-> call, todo |-> Accesses(call), missing |-> <<>>]]
    /\ answer' = [answer EXCEPT ![t] = NoAnswer]
    /\ calls' = [calls EXCEPT ![t] = @ - 1]
    /\ UNCHANGED <<context, lock, cache>>

\* CACHE.Contains, and what is done about an item that is not there.
Look(t) ==
    /\ Does(t, {"looks"})
    /\ LET this    == thread[t]
           x       == Head(this.todo).items[1]
           missing == IF Contains(x) THEN this.missing ELSE Append(this.missing, x)
           parse   == IF ~Contains(x) /\ context = "BP_CONTEXT" THEN <<ToSecp256k1(x)>>
                      ELSE <<>>
           rest    == IF Len(this.todo) > 1 THEN Tail(this.todo)
                      ELSE AfterLookup(this.call, missing)
       IN  thread' = [thread EXCEPT ![t].missing = missing, ![t].todo = parse \o rest]
    /\ cache' = Touched(Head(thread[t].todo).items[1])
    /\ UNCHANGED <<context, lock, answer, calls>>

Acquire(t) ==
    /\ \/ /\ Does(t, {"reads", "parses", "verifies"})
          /\ lock.readers[t] < Head(thread[t].todo).readers
          /\ CanRead(lock, Waiting)
          /\ lock' = Read(lock, t)
       \/ /\ t \in Waiting
          /\ CanWrite(lock)
          /\ lock' = Write(lock, t)
    /\ UNCHANGED <<context, cache, thread, answer, calls>>

\* libsecp256k1 is called, and the expression ends.  What is no verification
\* may fail, and throws then.
Use(t) ==
    /\ Does(t, {"reads", "parses", "verifies", "writes"})
    /\ LET now == Head(thread[t].todo)
       IN  /\ lock.readers[t] = now.readers
           /\ now.readers = 0 => lock.writer = {t}
           /\ \/ /\ now.kind = "parses" /\ now.items[1] \notin Parsed
                 /\ Ends(t, "throws")
              \/ /\ now.kind = "verifies" /\ ~(S!ToSet(now.items) \subseteq Valid)
                 /\ Ends(t, "false")
              \/ /\ now.kind \in {"reads", "writes"} /\ thread[t].call.op \notin VerifyOps
                 /\ Ends(t, "throws")
              \/ /\ now.kind = "parses" => now.items[1] \in Parsed
                 /\ now.kind = "verifies" => S!ToSet(now.items) \subseteq Valid
                 /\ GoesOn(t) /\ UNCHANGED answer
    /\ lock' = Release(lock, t)
    /\ UNCHANGED <<context, cache, calls>>

\* CACHE.Add.
Add(t) ==
    /\ Does(t, {"adds"})
    /\ cache' = Put(Head(thread[t].todo).items[1])
    /\ GoesOn(t)
    /\ UNCHANGED <<context, lock, answer, calls>>

Return(t) ==
    /\ Busy(t) /\ thread[t].todo = <<>>
    /\ Ends(t, "true")
    /\ UNCHANGED <<context, lock, cache, calls>>

Step(t) == Look(t) \/ Acquire(t) \/ Use(t) \/ Add(t) \/ Return(t)

Next == \E t \in Thread : Begin(t) \/ Step(t)

\* The scheduler runs every thread that is not blocked.  It does not choose
\* who gets a lock that several wait for: calls end because they are finitely
\* many.
Spec == Init /\ [][Next]_vars /\ \A t \in Thread : WF_vars(Step(t))
-----------------------------------------------------------------------------
(* Properties.                                                             *)

\* A thread has readers and writers of the expression it is in, and none when
\* it is out of it, by an exception too; a context that is being randomized is
\* read by nobody.
LocksFollowCalls ==
    /\ \A t \in Thread :
          /\ lock.readers[t] > 0 => /\ Does(t, {"reads", "parses", "verifies"})
                                    /\ lock.readers[t] <= Head(thread[t].todo).readers
          /\ t \in lock.writer => Does(t, {"writes"})
    /\ lock.writer # {} => /\ Cardinality(lock.writer) = 1
                           /\ \A t \in Thread : lock.readers[t] = 0

\* What is in the cache verifies, though it is given what was looked up before
\* the verification and drops what others may be looking up.
OnlyVerified == S!ToSet(cache) \subseteq Valid

\* The answer does not depend on the cache: a verification returns true if all
\* items verify and throws if the key of one is not a point, whatever other
\* threads put into the cache or drop from it meanwhile.
RightAnswers(call) ==
    CASE call.op \notin VerifyOps -> {"true", "false", "throws"}
      [] call.op \in VerifyOps /\ ~(S!ToSet(call.items) \subseteq Parsed) -> {"throws"}
      [] call.op \in VerifyOps /\ S!ToSet(call.items) \subseteq Valid -> {"true"}
      [] OTHER -> {"false"}

Stateless == INSTANCE Verifier WITH
    Right    <- RightAnswers,
    asked    <- [t \in Thread |-> thread[t].call],
    answered <- answer

ImplementsVerifier == Stateless!Spec

\* Every call returns or throws: no thread waits for ever for a context, with
\* several readers of one thread and writers among the others.
EveryCallEnds == \A t \in Thread : Busy(t) ~> ~Busy(t)
=============================================================================
