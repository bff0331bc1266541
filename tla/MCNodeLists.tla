---------------------------- MODULE MCNodeLists ----------------------------
(***************************************************************************)
(* The node, and the actions of one commitment as lists, side by side:     *)
(* they share no variable, and a behaviour takes the steps of one of them. *)
(***************************************************************************)
EXTENDS MCNode, CoinActions

MCInit == Init /\ EmptyLists

MCNext ==
    \/ Next /\ entry = NoCoin /\ log = <<>> /\ temp = <<>> /\ UNCHANGED lists
    \/ ListsNext /\ Init /\ UNCHANGED vars

MCSpec == MCInit /\ [][MCNext]_<<vars, lists>>
=============================================================================
