SPECIFICATION Spec
CONSTANTS
    k1 = k1
    k2 = k2
    r1 = r1
    r2 = r2
    r3 = r3
    Keys = {k1, k2}
    Requests = {r1, r2, r3}
    KeyOf <- TwoKeys
    Recipients = {e1, e2}
    NoRequest = NoRequest
    MaxFaults = 3
INVARIANT
    RemindedOnce
CHECK_DEADLOCK FALSE
