SPECIFICATION LockFairSpec
CONSTANTS
    Clients = {c1, c2, c3}
    Tokens = {t1, t2, t3, t4}
    MaxTTL = 2
    Evictions = TRUE
    None = None
INVARIANTS
    LockTypeOK
    MutualExclusion
PROPERTIES
    OthersKeepOut
    AbandonedLockFreed
    ImplementsLease
