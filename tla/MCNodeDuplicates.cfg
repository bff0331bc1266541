\* Blocks that re-create unspent outputs, down to the first block.
SPECIFICATION Spec
CONSTANTS
    Commitment = {1}
    k1 = k1
    Kernel <- MCKernel
    MaxOutputs = 1
    MaxKernels = 1
    MaxBlocks = 3
    MaxTXOs = 3
    ByteBits = 2
    UniqueOutputs = FALSE
    ReorgFlush = TRUE
    KeepBlocks = 0

INVARIANT
    LeafsetFollowsMMR
