----------------------------- MODULE MCLeafSet -----------------------------
(***************************************************************************)
(* LeafSet, PrunedMMR and StateKernels side by side: they share no         *)
(* variable, and a behaviour takes the steps of one of them.               *)
(***************************************************************************)
EXTENDS LeafSet, PrunedMMR, StateKernels

MCInit == Init /\ Unmined /\ Unsynced

MCNext ==
    \/ Next /\ Unmined /\ Unsynced /\ UNCHANGED <<mmr, sync>>
    \/ Step /\ Init /\ Unsynced /\ UNCHANGED <<vars, sync>>
    \/ WalkNext /\ Init /\ Unmined /\ UNCHANGED <<vars, mmr>>

MCSpec == MCInit /\ [][MCNext]_<<vars, mmr, sync>>
=============================================================================
