CONSTANTS
    Block = {b1, b2, b3, b4, b5, b6}
    Root = root
    CONTENT_SIZE = 2
SPECIFICATION Spec
SYMMETRY Symmetry
INVARIANT OnlyEmptiedBucketsAreLost
PROPERTY RemovesTheWholeFolder
