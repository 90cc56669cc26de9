SPECIFICATION FairSpec
CONSTANTS
    w1 = w1
    w2 = w2
    batch1 = batch1
    Operations <- OneBatch
    MaxDispatch = 1
    OperationOf <- OneChunk
    Targets = {t1, t2}
    Workers = {w1, w2}
    NoWorker = NoWorker
    PageLimit = 50
    MaxGeneration = 2
    MaxFaults = 2
INVARIANTS
    CancelledWasNotSent
    ReportedSuccessIsTrue
PROPERTIES
    ImplementsDelivery
    DispatchSettles
CHECK_DEADLOCK FALSE
