SPECIFICATION SyncSpec
CONSTANTS
    k1 = k1
    none = none
    w1 = w1
    w2 = w2
    r1 = r1
    r2 = r2
    Keys <- MCKeys
    NoKey = none
    Workers <- MCWorkers
    Requests <- MCRequests
    Kinds <- MCEvents
    MaxItems = 2
    MaxAttempts = 2
    StaleAfter = 1
    ClaimTTL = 1
    MaxLosses = 1
    MaxVersion = 2
    Ticketed = TRUE
SYMMETRY ActorSymmetry
INVARIANTS
    FailedIsOver
    CompletedDescribesData
PROPERTIES
    NewerJobWins
    LateNoteKeepsCompletion
