SPECIFICATION FairSpec
CONSTANTS
    w1 = w1
    w2 = w2
    Workers = {w1, w2}
    Chunks = 2
    Absent = Absent
    MaxFaults = 3
INVARIANTS
    ReadyIsWhole
    CheckpointIsBacked
    CorruptIsExplained
PROPERTY
    MediaSettles
CHECK_DEADLOCK FALSE
