SPECIFICATION Spec
CONSTANTS
    Codes = {c1}
    c1 = c1
    Families = {f1}
    f1 = f1
    Tokens = {t1, t2}
    t1 = t1
    t2 = t2
    Procs = {p1, p2}
    p1 = p1
    p2 = p2
    Clients = {k1}
    k1 = k1
    People = {u1}
    u1 = u1
    CodeTTL = 1
    RefreshTTL = 1
    MaxLifetime = 3
    Backend = "postgres"
    MaxTime = 2
    MaxFailures = 0
SYMMETRY Symmetry
INVARIANTS
    CodeReplayEndsSession
