CONSTANTS
    Name = {a, b}
    Block = {1, 2, 3, 4}
    NoBlock = 0
    CONTENT_SIZE = 2
    TableBlock = {1, 2}
    MaxElsewhere = 1
    MaxUncounted = 1
    Misuse = {}
SPECIFICATION Spec
SYMMETRY Symmetry
INVARIANTS
    BucketsAreTheIndex
    NothingIsShared
    LookUpsAnswer
    ListingComplete
    NoBucketUnderstated
    EntriesAreOnDisk
PROPERTY
    ImplementsFolderMap
