SPECIFICATION FairSpec
CONSTANTS
    Profiles <- EveryFeed
    Names <- ThreeNames
    Starting <- Two
    MaxShown = 1
    MaxEvents = 4
INVARIANTS
    UnflaggedIsComplete
    BlindSpotsAreKnown
    EvictedIsOffThePage
PROPERTY HalfAWatchEnds
CHECK_DEADLOCK FALSE
