SPECIFICATION Spec
CONSTANTS
    Kids = {1, 2}
    Replicas = {r1}
    r1 = r1
    Cli = cli
    Operators = {o1}
    o1 = o1
    Parties = {p1}
    p1 = p1
    PublishDelay = 3
    Grace = 2
    Reload = 1
    Refresh = 1
    Latency = 0
    TokenTTL = 2
    MaxTime = 5
    MaxFailures = 0
    MaxStops = 0
    MaxTokens = 1
INVARIANTS
    MintedTokensAccepted
    RetiredKeyLeavesJWKS
