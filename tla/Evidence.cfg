SPECIFICATION FairSpec
CONSTANTS
    Items <- TwoItems
    MaxItems = 1
    MaxPages = 2
    PageSizes <- ShortPages
    MaxBackoff = 2
    MaxScans = 2
    MaxLives = 2
    MaxRefreshes = 1
    MaxFaults = 2
INVARIANTS
    OnePublication
    AbsenceIsConcluded
PROPERTIES
    EventuallyCurrent
CHECK_DEADLOCK FALSE
