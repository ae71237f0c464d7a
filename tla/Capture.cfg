SPECIFICATION CaptureSpec
CONSTANTS
    Gone = Gone
    Uids <- TwoUids
    Scopes <- OneScope
    Home <- PoolerOnly
    Persisted = FALSE
    PerObjects <- UpToTwo
    MaxRevisions = 3
    MaxBytes = 4
    MaxRev = 4
    MaxLapses = 2
INVARIANTS
    BooksBalance
    LivesAreCoherent
    EvictedIsHonest
    KnowsTheServer
PROPERTIES
    GenerationTells
