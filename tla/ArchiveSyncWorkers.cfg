SPECIFICATION Spec
CONSTANTS
    w1 = w1
    w2 = w2
    Workers = {w1, w2}
    Schedulers = {s1}
    Requesters = {u1}
    NoWorker = NoWorker
    Limit = 2
    MaxSeq = 2
    MaxRuns = 2
    Reserve = 0
    MaxFaults = 1
    Strangers = {2}
SYMMETRY WorkerSymmetry
INVARIANTS
    NothingBelowCursorMissing
    SucceededIsComplete
PROPERTY
    SucceededIsFinal
