CONSTANTS
    Space = 2
    MaxBlocks = 3
    Bytes = {0, 1}
    Zero = 0
    Foreign = Foreign
    Requests <- MCRequests
    MaxRequest = 3
    MaxOffset = 3
    Misuse = {}
SPECIFICATION Spec
INVARIANTS
    PositionExact
    SizeExact
PROPERTY ImplementsByteFile
