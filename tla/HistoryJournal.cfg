SPECIFICATION HistorySpec
CONSTANTS
    Gone = Gone
    Uids <- OneUid
    Scopes <- OneScope
    Home <- PodsOnly
    Persisted = TRUE
    PerObjects <- OneOrThree
    MaxRevisions = 3
    MaxBytes = 3
    MaxRev = 3
    MaxLapses = 0
    Orderly = FALSE
    MaxRestarts = 1
    MaxFailures = 1
INVARIANTS
    MirrorIsExact
    LimitsAfterRestart
PROPERTIES
    SequencesNeverReturn
CHECK_DEADLOCK FALSE
