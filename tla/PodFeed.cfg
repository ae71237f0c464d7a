SPECIFICATION FairSpec
CONSTANTS
    None = None
    Names <- TwoNames
    Changes <- AllButOrphan
    MaxPods = 1
    PageSize = 1
    BackoffMax = 3
    MaxRev = 3
    MaxFaults = 2
INVARIANTS
    ShownIsOneMoment
    CutIsFlagged
PROPERTIES
    ImplementsView
    Converges
CHECK_DEADLOCK FALSE
