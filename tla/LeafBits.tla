------------------------------ MODULE LeafBits ------------------------------
(***************************************************************************)
(* What a leafset promises under its caches: three sets of unspent leaves  *)
(* with the index of the next leaf, that of the temporary cache, that of   *)
(* the cache under it and that on disk.                                    *)
(***************************************************************************)
EXTENDS Integers

VARIABLES top, middle, saved    \* records of bits and next

Empty == [bits |-> {}, next |-> 0]

Init == top = Empty /\ middle = Empty /\ saved = Empty

\* The next leaf is mined.
Add ==
    /\ top' = [bits |-> top.bits \cup {top.next}, next |-> top.next + 1]
    /\ UNCHANGED <<middle, saved>>

Remove ==
    /\ \E l \in top.bits : top' = [top EXCEPT !.bits = @ \ {l}]
    /\ UNCHANGED <<middle, saved>>

\* Back to n leaves, of which some that had been spent are added again.
Rewind ==
    /\ \E n \in 0 .. top.next : \E leaves \in SUBSET (0 .. n - 1) :
          top' = [bits |-> (top.bits \cap (0 .. n - 1)) \cup leaves, next |-> n]
    /\ UNCHANGED <<middle, saved>>

FlushTop == middle' = top /\ UNCHANGED <<top, saved>>

DropTop == top' = middle /\ UNCHANGED <<middle, saved>>

Save == top = middle /\ saved' = middle /\ UNCHANGED <<top, middle>>

Next == Add \/ Remove \/ Rewind \/ FlushTop \/ DropTop \/ Save

Spec == Init /\ [][Next]_<<top, middle, saved>>
=============================================================================
