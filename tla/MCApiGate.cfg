SPECIFICATION GateFairSpec
CONSTANTS
    c1 = c1
    Requests = {r1, r2}
    Tokens = {t1}
    Lives = {1, 3}
    Forever = 3
    CacheTTL = 2
    Failures = TRUE
    None = None
    Clients = {c1}
    AddressOf <- MCAddressOf
    Limit = 2
    Window = 2
INVARIANTS
    TokensTypeOK
    LimitTypeOK
    SlidingWindow
    QuietClientAdmitted
PROPERTIES
    RefusalFinal
    RevocationTakesEffect
