SPECIFICATION Spec
CONSTANTS
    m1 = m1
    m2 = m2
    s1 = s1
    p1 = p1
    p2 = p2
    p3 = p3
    f1 = f1
    f2 = f2
    t1 = t1
    t2 = t2
    t3 = t3
    c1 = c1
    c2 = c2
    r1 = r1
    o1 = o1
    cli = cli
    l1 = l1
    q1 = q1
    h1 = h1
    b1 = b1
    a1 = a1
    nobody = nobody
CHECK_DEADLOCK FALSE
INVARIANTS
    WholeReleases
    ServesCurrentSchema
    ReplaysComeOfFailures
    KeptTokensUsable
PROPERTIES
    DialsSpaced
    ProcessesEnd
    Heals
    RetiredKeyFallsIdle
    LoginEnds
