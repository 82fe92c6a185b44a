SPECIFICATION FairSpec
CONSTANTS
    Codes = {c1}
    c1 = c1
    Families = {f1}
    f1 = f1
    Tokens = {t1, t2}
    t1 = t1
    t2 = t2
    Procs = {p1}
    p1 = p1
    Clients = {k1, k2}
    k2 = k2
    k1 = k1
    People = {u1}
    u1 = u1
    CodeTTL = 0
    RefreshTTL = 1
    MaxLifetime = 2
    Backend = "sqlite"
    MaxTime = 4
    MaxFailures = 1
INVARIANTS
    ReapedStaysDead
PROPERTIES
    DeadRowsReclaimed
