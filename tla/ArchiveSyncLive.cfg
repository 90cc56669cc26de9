SPECIFICATION FairSpec
CONSTANTS
    w1 = w1
    w2 = w2
    Workers = {w1, w2}
    Schedulers = {s1}
    Requesters = {}
    NoWorker = NoWorker
    Limit = 1
    MaxSeq = 2
    MaxRuns = 2
    Reserve = 2
    MaxFaults = 2
    Strangers = {1}
PROPERTY
    EveryMessageArchived
