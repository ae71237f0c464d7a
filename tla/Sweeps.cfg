SPECIFICATION Spec
CONSTANTS
    RawCap = 2
    RollCap = 1
    RollupEvery = 2
    MaxInstances = 1
    Deployments <- OneSweep
    Names <- TwoNames
    Addresses = {1, 2}
    MaxNow <- LastNow
    MaxPodChanges <- PodChanges
    MaxFlushes = 1
    MaxCrashes <- Crashes
INVARIANTS
    SweepAccountsForAll
    ReportIsItsPods
    NoRateAcrossAnOutage
    WindowIsTheLastRates
CHECK_DEADLOCK FALSE
