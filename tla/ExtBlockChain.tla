---------------------------- MODULE ExtBlockChain ----------------------------
(***************************************************************************)
(* What a coins view promises its caller, whatever caches it is built of:  *)
(* the state of the extension block chain is a stack of states.  Block b   *)
(* pushes Apply(tip, b), disconnecting pops, and saving makes the tip the  *)
(* state the database holds.                                               *)
(***************************************************************************)
EXTENDS ChainState

VARIABLES
    tip,        \* the state after the last connected block
    below,      \* the states under it, oldest first
    saved       \* the state the database holds

vars == <<tip, below, saved>>
-----------------------------------------------------------------------------
Init ==
    /\ tip = Genesis
    /\ below = <<>>
    /\ saved = Genesis

Connect ==
    \E b \in Body :
        /\ Extends(tip, b)
        /\ Len(below) < MaxBlocks
        /\ Len(tip.txos) + Len(b.outs) <= MaxTXOs
        /\ tip' = Apply(tip, b)
        /\ below' = Append(below, tip)
        /\ UNCHANGED saved

Disconnect ==
    /\ below # <<>>
    /\ tip' = below[Len(below)]
    /\ below' = SubSeq(below, 1, Len(below) - 1)
    /\ UNCHANGED saved

Save ==
    /\ saved' = tip
    /\ UNCHANGED <<tip, below>>

Next == Connect \/ Disconnect \/ Save

Spec == Init /\ [][Next]_vars
-----------------------------------------------------------------------------
(* Properties.                                                             *)

\* The type of every state on the stack.
TypeOK ==
    /\ tip \in StateType
    /\ below \in Seq(StateType)
    /\ saved \in StateType

\* The coins of the tip, of every state a disconnect can return to, and of the
\* saved state are sound (ApplyBlock, UndoBlock and Flush).
CoinsAreSound ==
    /\ CoinsSound(tip)
    /\ CoinsSound(saved)
    /\ \A i \in DOMAIN below : CoinsSound(below[i])

\* Each block of the chain only adds outputs and only spends older coins.
SpentStaysSpent ==
    /\ \A i \in DOMAIN below : Grows(below[i], tip)
    /\ \A i, j \in DOMAIN below : i < j => Grows(below[i], below[j])

\* A header commits to its state: two states of the chain or of the database
\* with the same header have the same coins (what ValidateMMRs relies on).
HeaderCommits ==
    LET states == {tip, saved} \cup {below[i] : i \in DOMAIN below}
    IN  \A s, t \in states : s.hdr = t.hdr => s = t
=============================================================================
