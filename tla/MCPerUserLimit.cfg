SPECIFICATION GateSpec
CONSTANTS
    r1 = r1
    r2 = r2
    c1 = c1
    c2 = c2
    Requests = {r1, r2}
    Tokens = {t1}
    Lives = {3}
    Forever = 3
    CacheTTL = 2
    Failures = FALSE
    None = None
    Clients = {c1, c2}
    AddressOf <- MCAddressOf
    Limit = 2
    Window = 2
INVARIANT LimitPerUser
