\* Blocks, reorgs and flushes, but no flush after a reorg of flushed leaves.  And
\* every list of up to five actions, split between two caches in every way.
SPECIFICATION MCSpec
CONSTANTS
    Commitment = {1, 2}
    k1 = k1
    Kernel <- MCKernel
    MaxOutputs = 2
    MaxKernels = 1
    MaxBlocks = 3
    MaxTXOs = 3
    ByteBits = 2
    UniqueOutputs = TRUE
    ReorgFlush = FALSE
    KeepBlocks = 1
    Leaf = {0, 1, 2}
    MaxActions = 5

INVARIANTS
    TypeOK
    CoinsMatchLeafset
    NoUnderflow
    CacheKnowsNewCoins
    EveryOfferConnects
    EveryUndoDisconnects
    HeaderCommits
    SpentStaysSpent
    NormalFormReads
    NormalFormComposes
    NormalFormWrites
PROPERTIES
    FlushKeepsCoins
    ImplementsChain
