SPECIFICATION Spec
CONSTANTS
    Instances <- TwoInstances
    MinAge = 2
    Horizon = 1
    Span = 2
    Checks <- AllChecks
    MaxNow = 3
INVARIANTS
    ClearIsTrue
    MatchIsCurrent
    ClockIsAFloor
    EachFindingIsShownOnce
CHECK_DEADLOCK FALSE
