SPECIFICATION Spec
CONSTANTS
    Codes = {d1}
    d1 = d1
    Sids = {s1, s2}
    s1 = s1
    s2 = s2
    Browsers = {b1}
    b1 = b1
    Requests = {q1}
    q1 = q1
    Handlers = {h1, h2}
    h1 = h1
    h2 = h2
    People = {u1, u2}
    u1 = u1
    u2 = u2
    CodeTTL = 3
    SessionTTL = 2
    StateTTL = 0
    NoSid = NoSid
    Nobody = Nobody
    MaxTime = 5
    MaxFailures = 1
CHECK_DEADLOCK FALSE
SYMMETRY Symmetry
INVARIANTS
    TokensFollowTheDecision
    ApprovedAsShown
    
    DecisionReachesDevice
