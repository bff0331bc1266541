------------------------------ MODULE LeafLists ------------------------------
(***************************************************************************)
(* What an MMR promises under its caches: three lists of leaves, that of   *)
(* the temporary cache, that of the cache under it and that on disk.  A    *)
(* leaf is added to the top list or its end is cut off; a flush makes the  *)
(* list below equal to the one above.                                      *)
(***************************************************************************)
EXTENDS Sequences, Integers

CONSTANT Data           \* what a leaf may hold

VARIABLES top, middle, saved

Init == top = <<>> /\ middle = <<>> /\ saved = <<>>

Add == \E d \in Data : top' = Append(top, d) /\ UNCHANGED <<middle, saved>>

Rewind ==
    /\ \E n \in 0 .. Len(top) : top' = SubSeq(top, 1, n)
    /\ UNCHANGED <<middle, saved>>

FlushTop == middle' = top /\ UNCHANGED <<top, saved>>

DropTop == top' = middle /\ UNCHANGED <<middle, saved>>

Save == top = middle /\ saved' = middle /\ UNCHANGED <<top, middle>>

Next == Add \/ Rewind \/ FlushTop \/ DropTop \/ Save

Spec == Init /\ [][Next]_<<top, middle, saved>>
=============================================================================
