---------------------------- MODULE RejectedState ----------------------------
(***************************************************************************)
(* The store, when the node is also given states that it rejects.          *)
(* ApplyState: "Validates the chainstate and replaces the existing state   *)
(* if valid".                                                              *)
(***************************************************************************)
EXTENDS Store

\* ApplyState of a state it rejects: the new number is in the table, in a batch
\* of its own, before anything is validated.  The leafset has been written, and
\* opened, without the eight bytes that hold its length, which is why every
\* state with outputs is rejected here.
ApplyState ==
    /\ at = <<"idle">>
    /\ batch = NoBatch
    /\ Target <= MaxIndex
    /\ table' = [table EXCEPT !.index = Target]
    /\ files' = [files EXCEPT !["leaf"][Target] = Torn]
    /\ UNCHANGED <<open, base, tip, batch, at>>

RejectedNext == Next \/ ApplyState

RejectedSpec == Init /\ [][RejectedNext]_vars
=============================================================================
