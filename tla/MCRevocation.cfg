SPECIFICATION Spec
CONSTANTS
    Keys = {k1, k2}
    k1 = k1
    k2 = k2
    Replicas = {r1}
    r1 = r1
    TTL = 1
    MaxEntries = 1
    Buffer = 1
    KeyLife = 2
    Grace = 1
    ResyncSkew = 1
    Stall = 1
    MaxTime = 5
    MaxRevokes = 1
SYMMETRY Symmetry
CHECK_DEADLOCK FALSE
INVARIANTS
    StalenessBounded
    
