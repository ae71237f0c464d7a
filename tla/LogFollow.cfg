SPECIFICATION FairSpec
CONSTANTS
    Members <- One
    PerContainer = 5
    Total = 4
    MaxFollowers = 3
    MaxLines <- ThreeLines
    MaxBreaks = 2
    MaxRosters = 3
INVARIANTS
    UnreadIsAdmitted
    JoinsAreMarked
    ReturnedMeansSilent
PROPERTIES
    EveryMemberIsFollowed
    RunReturns
CHECK_DEADLOCK FALSE
