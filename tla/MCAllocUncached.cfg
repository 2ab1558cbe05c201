CONSTANTS
    Blocks = 5
    Bitmapped = 5
    UseBlockCache = FALSE
    Sparse = TRUE
    BlockSize = 4
    BlockMeta = 1
    CounterModulus = 1024
    Files = {root, f, g}
    Root = root
    MaxChain = 4
SPECIFICATION Spec
SYMMETRY FileSymmetry
INVARIANTS
    MarkedWhileSound
    ChainsOnDisk
PROPERTIES
    GrowsByOne
    ImplementsBlockPool
CHECK_DEADLOCK FALSE
