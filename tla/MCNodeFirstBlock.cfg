\* A disconnect of the first block leaves the cache as it was.
SPECIFICATION Spec
CONSTANTS
    Commitment = {1, 2}
    k1 = k1
    Kernel <- MCKernel
    MaxOutputs = 2
    MaxKernels = 1
    MaxBlocks = 3
    MaxTXOs = 3
    ByteBits = 2
    UniqueOutputs = TRUE
    ReorgFlush = FALSE
    KeepBlocks = 0
INVARIANT
    ViewAtTip
