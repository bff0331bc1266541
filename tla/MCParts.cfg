\* Outputs of two wallets in and out of a window; objects that are cut at any
\* byte; an MMR of four leaves of two kinds, in two caches and a file: every
\* way in which a leaf may be replaced by another while some cache still has
\* the first.  And the first positions, past the leaf that ends a mountain of 64.
SPECIFICATION MCSpec
CONSTANTS
    Value = {1, 2}
    MaxIndex = 3
    MaxOutputs = 3
    RestoreWindow = 1
    FirstByte <- MCFirstByte
    Bits = 5
    MaxProof = 33
    Size <- MCSize
    Messages <- MCMessages
    Data = {"a", "b"}
    MaxLeaves = 4
    ReorgFlush = FALSE
    MaxPosition = 150
    MaxRoot = 22
INVARIANTS
    FindsOwn
    ScanFinds
    ReadsBack
    HashesOfTree
    IndicesOfTree
    RootOfLeaves
PROPERTY
    ImplementsLists
CHECK_DEADLOCK FALSE
