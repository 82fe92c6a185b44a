SPECIFICATION Spec
CONSTANTS
    Codes = {c1}
    c1 = c1
    Families = {f1, f2}
    f1 = f1
    f2 = f2
    Tokens = {t1, t2, t3}
    t1 = t1
    t2 = t2
    t3 = t3
    Procs = {p1, p2}
    p1 = p1
    p2 = p2
    Clients = {k1}
    k1 = k1
    People = {u1}
    u1 = u1
    CodeTTL = 1
    RefreshTTL = 1
    MaxLifetime = 2
    Backend = "postgres"
    MaxTime = 3
    MaxFailures = 1
SYMMETRY Symmetry
INVARIANTS
    TypeOK
    SingleLineage
    RevokedStaysDead
    SessionNeverExtended
    OneFamilyPerCode
    
PROPERTIES
    ReaperSparesUsable
    KeepsContract
