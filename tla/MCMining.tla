------------------------------ MODULE MCMining ------------------------------
(***************************************************************************)
(* Mining with eight requests: two peg-ins, two that spend the first of    *)
(* them (of which one makes the output of the second peg-in), a peg-out of *)
(* the second to the script of another peg-out, two peg-outs that leave no *)
(* output, and one that does not balance.  Blinding factors and random     *)
(* numbers have digits of their own, so that no two sums of a few of them  *)
(* agree.  In another run two peg-outs pay one amount to one script, and a *)
(* third pays another script.                                              *)
(***************************************************************************)
EXTENDS Mining

CONSTANTS script, otherScript

MCCommitment == 1 .. 4
MCAmount == [c \in MCCommitment |-> <<5, 3, 4, 1>>[c]]
MCBlind == [c \in MCCommitment |-> 10 ^ (c - 1)]
MCSpendKey == [c \in MCCommitment |-> 2 * 10 ^ (c - 1)]
MCSenderKey == [c \in MCCommitment |-> 3 * 10 ^ (c - 1)]

Pays(n) == <<[key |-> script, amount |-> n]>>

PegInFirst ==
    [ins |-> <<>>, outs |-> <<1>>, fee |-> 1, pegin |-> <<6>>, pegout |-> <<>>,
     kernel_offset |-> 10 ^ 4, owner_key |-> 1]
PegInThird ==
    [ins |-> <<>>, outs |-> <<3>>, fee |-> 1, pegin |-> <<5>>, pegout |-> <<>>,
     kernel_offset |-> 2 * 10 ^ 4, owner_key |-> 2]
PayAndPegOut ==
    [ins |-> <<1>>, outs |-> <<2>>, fee |-> 1, pegin |-> <<>>, pegout |-> Pays(1),
     kernel_offset |-> 10 ^ 5, owner_key |-> 3]
Pay ==
    [ins |-> <<1>>, outs |-> <<3>>, fee |-> 1, pegin |-> <<>>, pegout |-> <<>>,
     kernel_offset |-> 10 ^ 6, owner_key |-> 4]
PegOutThird ==
    [ins |-> <<3>>, outs |-> <<4>>, fee |-> 1, pegin |-> <<>>, pegout |-> Pays(2),
     kernel_offset |-> 10 ^ 7, owner_key |-> 5]
PegOutAll ==
    [ins |-> <<3>>, outs |-> <<>>, fee |-> 1, pegin |-> <<>>, pegout |-> Pays(3),
     kernel_offset |-> 2 * 10 ^ 7, owner_key |-> 6]
PegThrough ==
    [ins |-> <<>>, outs |-> <<>>, fee |-> 1, pegin |-> <<4>>, pegout |-> Pays(3),
     kernel_offset |-> 3 * 10 ^ 7, owner_key |-> 7]
PayTooMuch ==
    [ins |-> <<2>>, outs |-> <<1>>, fee |-> 1, pegin |-> <<>>, pegout |-> <<>>,
     kernel_offset |-> 10 ^ 8, owner_key |-> 8]

MCRequests ==
    {PegInFirst, PegInThird, PayAndPegOut, Pay, PegOutThird, PegOutAll,
     PegThrough, PayTooMuch}
MCOtherRequests == {PegInFirst, PayAndPegOut}

PegOutAgain ==
    [ins |-> <<3>>, outs |-> <<4>>, fee |-> 2, pegin |-> <<>>, pegout |-> Pays(1),
     kernel_offset |-> 10 ^ 7, owner_key |-> 5]
PegOutElsewhere ==
    [ins |-> <<3>>, outs |-> <<4>>, fee |-> 1, pegin |-> <<>>,
     pegout |-> <<[key |-> otherScript, amount |-> 2]>>,
     kernel_offset |-> 2 * 10 ^ 7, owner_key |-> 6]

MCPegOutRequests ==
    {PegInFirst, PegInThird, PayAndPegOut, PegOutAgain, PegOutElsewhere}

MCKernel == {KernelOf(r) : r \in MCRequests \cup MCPegOutRequests}
=============================================================================
