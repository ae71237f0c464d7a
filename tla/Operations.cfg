SPECIFICATION Spec
CONSTANTS
    Posts = {p1, p2}
    Users = {u, v}
    Levels <- TwoLevels
    Instances <- TwoInstances
    Names <- OneName
    Links <- SomeLinks
    Picks <- SomePicks
    Deployments <- OneEach
    MaxAge = 1
    MaxForms = 2
    MaxNow = 2
    MaxLives = 2
    MaxFaults = 1
INVARIANTS
    ConfirmedInTime
    AcceptedIsDone
    DecisionIsOne
SYMMETRY Same
CHECK_DEADLOCK FALSE
