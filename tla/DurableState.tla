----------------------------- MODULE DurableState -----------------------------
(***************************************************************************)
(* What the store promises: the node has a saved state; a commit replaces  *)
(* it, at once and as a whole, by the state that was flushed before; and   *)
(* after a crash, wherever it struck, the node is in the saved state.      *)
(***************************************************************************)
EXTENDS Naturals

CONSTANT MaxState       \* bound: states of the chain

VARIABLES
    tip,        \* the state the node shows
    flushed,    \* the state in an uncommitted batch, or 0
    saved       \* the state on disk

vars == <<tip, flushed, saved>>

Init == tip = 0 /\ flushed = 0 /\ saved = 0

Change == tip' \in 0 .. MaxState /\ UNCHANGED <<flushed, saved>>

Flush ==
    /\ flushed' = tip
    /\ UNCHANGED <<tip, saved>>

\* A flush before the last one was committed fails and drops the batch.
Fail == flushed' = 0 /\ UNCHANGED <<tip, saved>>

Commit ==
    /\ flushed # 0
    /\ saved' = flushed
    /\ flushed' = 0
    /\ UNCHANGED tip

Crash ==
    /\ tip' = saved
    /\ flushed' = 0
    /\ UNCHANGED saved

Next == Change \/ Flush \/ Fail \/ Commit \/ Crash

Spec == Init /\ [][Next]_vars
=============================================================================
