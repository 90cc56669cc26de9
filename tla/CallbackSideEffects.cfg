SPECIFICATION Spec
CONSTANTS
    e1 = e1  e2 = e2  w1 = w1  w2 = w2  f1 = f1  r1 = r1  r2 = r2
    Events = {e1}
    Fingerprints = {f1}
    Workers = {w1, w2}
    MaxAttempts = 1
    ProcessingTimeout = 1
    LeaseGrace = 1
    RetryDelay = 1
    MaxDeferDelay = 1
    MaxDefers = 1
    MaxRevivals = 2
    NumActions = 2
    Requests = {r1, r2}
    Quarantine = 2
    RequestLife = 1
    Payloads = {"v1", "v2"}
    Nothing = Nothing
    Campaigns <- EditedCampaigns
SYMMETRY ActorSymmetry
INVARIANTS
    LedgerIsTruthful
    CompletedSentWhatWasDue
    InvitationsCountOnce
PROPERTIES
    ReplayWaitsForEveryAction
    ImplementsInbox
    ImplementsDelivery
