SPECIFICATION QueueFairSpec
CONSTANTS
    k1 = k1
    none = none
    w1 = w1
    w2 = w2
    Keys <- MCKeys
    NoKey = none
    Workers <- MCWorkers
    Kinds <- MCAllKinds
    MaxItems = 2
    MaxAttempts = 2
    StaleAfter = 1
    ClaimTTL = 2
    MaxLosses = 2
    Ticketed = TRUE
INVARIANTS
    OneHolder
    ClaimIsLive
PROPERTIES
    ImplementsLifecycle
    ClaimFreedByOwner
    ItemsSettle
