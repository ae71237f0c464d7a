SPECIFICATION Spec
CONSTANTS
    None = None
    Names <- ThreeNames
    Changes <- AllButModify
    MaxPods = 1
    PageSize = 1
    BackoffMax = 3
    MaxRev = 4
    MaxFaults = 1
INVARIANTS
    StaleWhenOutOfContact
    NoGhostPod
CHECK_DEADLOCK FALSE
