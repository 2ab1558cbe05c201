CONSTANTS
    Blocks = 12
    ByteWidth = 4
    NoBlock = NoBlock
SPECIFICATION Spec
INVARIANTS
    CountAgrees
    NextIsLowestAvailable
    NAvailableAreLowest
PROPERTY UpdatesOnlyItsBlock
