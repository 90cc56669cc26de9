SPECIFICATION Spec
CONSTANTS
    p1 = p1
    p2 = p2
    Processes = {p1, p2}
    Limit = 2
    MaxSeq = 4
    MaxRows = 3
    MaxFaults = 3
SYMMETRY ProcessSymmetry
INVARIANT
    NoMessageSkipped
