SPECIFICATION Spec
CONSTANTS
    Logins = {f1, f2}
    States = {s1, s2}
    Browsers = {b1, b2}
    Openers = {b1}
    Handlers = {h1, h2}
    Admitted = {m}
    Ungranted = {u}
    Outsiders = {o}
    Answers = {m, u}
    RequestTTL = 1
    CodeTTL = 1
    CallbackTimeout = 1
    Batch = 1
    Backends = {"postgres", "sqlite"}
    MaxTime = 3
    MaxFailures = 1
    f1 = f1
    f2 = f2
    s1 = s1
    s2 = s2
    b1 = b1
    b2 = b2
    h1 = h1
    h2 = h2
    m = m
    u = u
    o = o
CHECK_DEADLOCK FALSE
INVARIANTS
    OneCodePerSignIn
    LoginGetsItsOwn
