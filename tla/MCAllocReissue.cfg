CONSTANTS
    Blocks = 5
    Bitmapped = 5
    UseBlockCache = TRUE
    Sparse = FALSE
    BlockSize = 4
    BlockMeta = 1
    CounterModulus = 1024
    Files = {root, f, g}
    Root = root
    MaxChain = 4
SPECIFICATION Spec
SYMMETRY FileSymmetry
INVARIANT Exclusive
CHECK_DEADLOCK FALSE
