SPECIFICATION Spec
CONSTANTS
    e1 = e1  e2 = e2  w1 = w1  w2 = w2  f1 = f1  r1 = r1  r2 = r2
    Events = {e1, e2}
    Fingerprints = {f1}
    Workers = {w1}
    MaxAttempts = 2
    ProcessingTimeout = 1
    LeaseGrace = 1
    RetryDelay = 1
    MaxDeferDelay = 1
    MaxDefers = 0
    MaxRevivals = 1
    NumActions = 1
    Requests = {}
    Quarantine = 2
    RequestLife = 1
    Payloads = {"v1"}
    Nothing = Nothing
    Campaigns <- OneCampaign
INVARIANTS
    UnknownBlocksCompletion
