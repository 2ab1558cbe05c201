CONSTANTS
    Blocks = 6
    Bitmapped = 5
    UseBlockCache = TRUE
    Sparse = TRUE
    BlockSize = 4
    BlockMeta = 1
    CounterModulus = 1024
    Files = {root, f, g}
    Root = root
    MaxChain = 3
SPECIFICATION Spec
SYMMETRY FileSymmetry
INVARIANTS
    ExclusiveWhileSound
    FreeCountExact
    HeadersWritten
CHECK_DEADLOCK FALSE
