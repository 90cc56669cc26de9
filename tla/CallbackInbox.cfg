SPECIFICATION InboxFairSpec
CONSTANTS
    e1 = e1  e2 = e2  w1 = w1  w2 = w2  f1 = f1  f2 = f2
    Events = {e1}
    Fingerprints = {f1, f2}
    Workers = {w1, w2}
    MaxAttempts = 2
    ProcessingTimeout = 2
    LeaseGrace = 1
    RetryDelay = 1
    MaxDeferDelay = 3
    MaxDefers = 2
    MaxRevivals = 1
INVARIANTS
    InboxTypeOK
    AckedIsStored
    OneLiveOwner
    CompletedByLastOwner
    RetryBudget
PROPERTIES
    ImplementsLifecycle
    AcceptedIsResolved
