SPECIFICATION Spec
CONSTANTS
    Kids = {1, 2}
    Cli = cli
    Replicas = {r1, r2}
    r1 = r1
    r2 = r2
    Operators = {o1}
    o1 = o1
    Parties = {}
    PublishDelay = 1
    Grace = 0
    Reload = 1
    Refresh = 1
    Latency = 0
    TokenTTL = 0
    MaxTime = 1
    MaxFailures = 1
    MaxStops = 1
    MaxTokens = 1
SYMMETRY Symmetry
INVARIANTS
    ServingCanSign
    OneBootstrapKey
