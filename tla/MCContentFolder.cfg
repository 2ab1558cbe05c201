CONSTANTS
    Name = {a, b, c}
    Block = {p, q, r, s}
    NoBlock = NoBlock
    MaxEntries = 3
    MaxUncounted = 1
    Misuse = {}
SPECIFICATION Spec
SYMMETRY Symmetry
INVARIANTS
    LookUpFindsAlive
    InfosAgree
    EntriesOwnTheirBlocks
    NoSlotPassedOver
PROPERTY ImplementsFolderMap
