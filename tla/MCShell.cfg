CONSTANTS
    Name = {a, b}
    Block = {1, 2, 3}
    Root = 0
    MaxDepth = 3
    MaxSize = 2
    Source <- MCSource
    Misuse = {}
    MaxCommands = 4
SPECIFICATION Spec
SYMMETRY Symmetry
INVARIANTS
    AddedAsOnDisk
