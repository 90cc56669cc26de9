SPECIFICATION FairSpec
CONSTANTS
    r1 = r1
    r2 = r2
    s1 = s1
    s2 = s2
    k1 = k1
    k2 = k2
    p1 = p1
    p2 = p2
    none = none
    Runners <- MCRunners
    Sources <- MCSources
    Keys <- MCKeys
    Payloads <- MCPayloads
    Backlogs <- MCBacklogs
    None = none
    MaxStragglers = 1
INVARIANTS
    RemovedIsStored
    OneImporter
    CompletedIsDrained
PROPERTY
    RunningEnds
CHECK_DEADLOCK FALSE
