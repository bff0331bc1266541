\* A flush after a reorg of flushed leaves corrupts the hash files.
SPECIFICATION Spec
CONSTANTS
    Commitment = {1, 2}
    k1 = k1
    Kernel <- MCKernel
    MaxOutputs = 2
    MaxKernels = 1
    MaxBlocks = 3
    MaxTXOs = 3
    ByteBits = 2
    UniqueOutputs = TRUE
    ReorgFlush = TRUE
    KeepBlocks = 1
INVARIANT
    HeaderMatchesView
