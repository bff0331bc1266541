------------------------------ MODULE Verifier ------------------------------
(***************************************************************************)
(* What the verification functions promise to threads that call them: an   *)
(* answer that depends on what was asked alone, and not on what was        *)
(* verified before or is being verified by others.                         *)
(***************************************************************************)
CONSTANTS
    Thread,
    Call,           \* what may be asked
    Right(_),       \* the answers that are right
    NoCall, NoAnswer

VARIABLES
    asked,      \* for every thread, the call it is in
    answered    \* for every thread, what its last call returned

Init ==
    /\ asked = [t \in Thread |-> NoCall]
    /\ answered = [t \in Thread |-> NoAnswer]

Ask(t) ==
    /\ asked[t] = NoCall
    /\ \E call \in Call : asked' = [asked EXCEPT ![t] = call]
    /\ answered' = [answered EXCEPT ![t] = NoAnswer]

Answer(t) ==
    /\ asked[t] # NoCall
    /\ \E answer \in Right(asked[t]) : answered' = [answered EXCEPT ![t] = answer]
    /\ asked' = [asked EXCEPT ![t] = NoCall]

Next == \E t \in Thread : Ask(t) \/ Answer(t)

Spec == Init /\ [][Next]_<<asked, answered>>
=============================================================================
