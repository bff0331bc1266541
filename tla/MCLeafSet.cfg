\* Four leaves in bytes of two bits: a byte that is full, one that is not.  And
\* states of up to seven outputs, with what is mined and undone after them.
\* And chains of three headers, of which some may have no new kernels.
SPECIFICATION MCSpec
CONSTANTS
    MaxLeaves = 4
    ByteBits = 2
    MaxMined = 8
    Kernel = {k1, k2}
    MaxHeaders = 3
    MaxKernels = 3
INVARIANTS
    RootsAgree
    SyncedMMR
    PrunesExactly
    WalkDecides
PROPERTY
    ImplementsBits
