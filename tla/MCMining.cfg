\* Builders with the transactions that fit 45 units of weight, three blocks.
SPECIFICATION Spec
CONSTANTS
    script = script
    otherScript = otherScript
    Commitment <- MCCommitment
    Kernel <- MCKernel
    Amount <- MCAmount
    Blind <- MCBlind
    SpendKey <- MCSpendKey
    SenderKey <- MCSenderKey
    Requests <- MCRequests
    OtherRequests <- MCOtherRequests
    MaxWeight = 45
    MaxOutputs = 2
    MaxKernels = 2
    MaxBlocks = 3
    MaxTXOs = 4
    ByteBits = 2

INVARIANTS
    TemplatesConnect
    ConflictsCaught
    ConnectsWhereBuilt
    StateSums
    PegsAgree
    WalletTxsTaken
