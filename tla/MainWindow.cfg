CONSTANTS
    MaxQueue = 2
    MaxPosted = 2
    MaxLoads = 2
SPECIFICATION Spec
CHECK_DEADLOCK FALSE
INVARIANTS
    PopFindsWork
    ClosingIsPrompt
    WorkIsHeld
    ReadyFindsSpinner
    
PROPERTIES
    QueuedWorkStarts
    DestructorReturns
