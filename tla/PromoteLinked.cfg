SPECIFICATION SpecSeen
CONSTANTS
    Posts = {p1}
    Users = {u, v}
    Levels <- TwoLevels
    Instances <- TwoInstances
    Names <- OneName
    Links <- ConsoleLinks
    Picks <- SomePicks
    Deployments <- OnlyOperations
    MaxAge = 1
    MaxForms = 2
    MaxNow = 2
    MaxLives = 2
    MaxFaults = 1
PROPERTY
    TurnedBackForItsAge
CHECK_DEADLOCK FALSE
