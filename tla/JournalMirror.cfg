SPECIFICATION FairSpec
CONSTANTS
    Nil = Nil
    Keys <- TwoKeys
    Value <- TwoValues
    MaxCalls = 3
    MaxFaults = 1
INVARIANTS
    NothingIsLost
PROPERTIES
    ImplementsWriteBehind
    EventuallyDurable
CHECK_DEADLOCK FALSE
