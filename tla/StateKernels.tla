---------------------------- MODULE StateKernels ----------------------------
(***************************************************************************)
(* The kernels of a state that a node is given, compared with the headers  *)
(* of the chain: BuildAndValidateKernelMMR adds them to an MMR one by one, *)
(* and walks along the chain to see that each header's kernel root is      *)
(* that of the kernels up to it.  The chain has been validated as far as   *)
(* headers go, the kernels come from a peer.  The hash file is new.        *)
(***************************************************************************)
EXTENDS Integers, Sequences

Seqs == INSTANCE SequencesExt

CONSTANTS
    Kernel,        \* the kernels
    MaxHeaders,    \* bound: headers of the chain
    MaxKernels     \* bound: kernels of the chain

ASSUME StateKernelsAssumption == MaxHeaders \in Nat /\ MaxKernels \in Nat

VARIABLES
    headers,    \* the chain: of every header the kernels up to it, which its
                \* root and its number of kernels stand for
    given,      \* the state: its header's place in the chain, whether that
                \* header is the object the iterator returns, and its kernels
    added,      \* the kernels added so far
    iter,       \* the header the iterator is at, or the place behind the last
    walk        \* what has become of the state

sync == <<headers, given, added, iter, walk>>

NoState == [at |-> 0, same |-> FALSE, kernels |-> <<>>]

Unsynced ==
    /\ headers = <<>> /\ given = NoState
    /\ added = 0 /\ iter = 1 /\ walk = "none"

NewKernels == Seqs!SeqOf(Kernel, 2)

\* The next block has these kernels; it may have none.
Extend(kernels) ==
    LET before == IF headers = <<>> THEN <<>> ELSE Seqs!Last(headers)
    IN  /\ walk = "none" /\ Len(headers) < MaxHeaders
        /\ Len(before) + Len(kernels) <= MaxKernels
        /\ headers' = Append(headers, before \o kernels)
        /\ UNCHANGED <<given, added, iter, walk>>

\* A state arrives for the header at place at, with as many kernels as that
\* header has.  A new iterator is at the first header.
GiveState(at, same, kernels) ==
    /\ walk = "none"
    /\ at \in DOMAIN headers /\ Len(kernels) = Len(headers[at])
    /\ given' = [at |-> at, same |-> same, kernels |-> kernels]
    /\ iter' = 1 /\ added' = 0 /\ walk' = "walking"
    /\ UNCHANGED headers
-----------------------------------------------------------------------------
Valid(i) == i <= Len(headers)
IsStateHeader(i) == given.same /\ i = given.at

\* The loop at header i, with the kernels of mmr added, goes on to the next.
GoesOn(i, mmr) ==
    /\ Valid(i) /\ Len(headers[i]) = Len(mmr)
    /\ headers[i] = mmr
    /\ ~IsStateHeader(i)

\* Mutant: the iterator moves past one header at most.
StopOnce(i, mmr) == IF GoesOn(i, mmr) THEN i + 1 ELSE i

\* Where the loop that begins at header i stops.
Stop(i, mmr) ==
    CHOOSE j \in i .. Len(headers) + 1 :
        ~GoesOn(j, mmr) /\ \A k \in i .. j - 1 : GoesOn(k, mmr)

Mismatch(i, mmr) == Valid(i) /\ Len(headers[i]) = Len(mmr) /\ headers[i] # mmr

\* The next kernel is added, and the iterator moves past all headers that have
\* no more kernels than those added; one with another root refuses the state,
\* and so does a chain that has ended.
AddKernel ==
    LET mmr  == SubSeq(given.kernels, 1, added + 1)
        stop == Stop(iter, mmr)
    IN  /\ walk = "walking" /\ added < Len(given.kernels)
        /\ IF ~Valid(iter)
           THEN walk' = "refused" /\ UNCHANGED <<added, iter>>
           ELSE /\ added' = added + 1 /\ iter' = stop
                /\ walk' = IF Mismatch(stop, mmr) THEN "refused" ELSE walk
        /\ UNCHANGED <<headers, given>>

\* All kernels are added; their signatures verify.
Accept ==
    /\ walk = "walking" /\ added = Len(given.kernels)
    /\ walk' = "accepted"
    /\ UNCHANGED <<headers, given, added, iter>>

\* The node turns to another state.
NextState ==
    /\ walk \in {"accepted", "refused"}
    /\ given' = NoState /\ added' = 0 /\ iter' = 1 /\ walk' = "none"
    /\ UNCHANGED headers

WalkNext ==
    \/ \E kernels \in NewKernels : Extend(kernels)
    \/ \E at \in 1 .. MaxHeaders, same \in BOOLEAN,
          kernels \in Seqs!SeqOf(Kernel, MaxKernels) :
             GiveState(at, same, kernels)
    \/ AddKernel
    \/ Accept
    \/ NextState

WalkSpec == Unsynced /\ [][WalkNext]_sync
-----------------------------------------------------------------------------
(* Properties.                                                             *)

TheChains == given.kernels = headers[given.at]

\* The kernels of a state that is accepted are those of the chain, whichever
\* blocks of it have kernels: "We have to loop here because some blocks may not
\* have any new kernels" (CoinsViewFactory.cpp:153).
KernelsOfChain == walk = "accepted" => TheChains

\* Where the first block of the chain has kernels, whether later ones have any
\* or not: the kernels of a state are accepted only if they are the chain's.
\* And wherever they are the chain's, they are never refused, also when the
\* iterator's header is another object than the state's and the walk goes on
\* behind it.
WalkDecides ==
    /\ walk = "accepted" /\ headers[1] # <<>> => TheChains
    /\ walk = "refused" => ~TheChains
=============================================================================
