CONSTANTS
    Name = {a, b}
    Block = {1, 2, 3}
    Root = 0
    MaxDepth = 3
    MaxSize = 1
    Misuse = {}
    MaxCalls = 4
SPECIFICATION Spec
SYMMETRY Symmetry
INVARIANTS
    CachedFoldersCurrent
    CachedFileCurrent
    SizesReported
PROPERTIES
    ImplementsFileTree
