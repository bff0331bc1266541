\* Chains of which the first block may have no kernels.
SPECIFICATION WalkSpec
CONSTANTS
    Kernel = {k1, k2}
    MaxHeaders = 3
    MaxKernels = 3
INVARIANT
    KernelsOfChain
