\* Two peg-outs of one amount to one script in a block.
SPECIFICATION Spec
CONSTANTS
    script = script
    otherScript = otherScript
    Commitment <- MCCommitment
    Kernel <- MCKernel
    Amount <- MCAmount
    Blind <- MCBlind
    SpendKey <- MCSpendKey
    SenderKey <- MCSenderKey
    Requests <- MCPegOutRequests
    OtherRequests <- MCOtherRequests
    MaxWeight = 45
    MaxOutputs = 2
    MaxKernels = 2
    MaxBlocks = 3
    MaxTXOs = 4
    ByteBits = 2

INVARIANT
    PegOutsPaid
