SPECIFICATION Spec
CONSTANTS
    Procs = {p1, p2}
    Users = {u1, u2}
    Tokens = {t1}
    Roles = {r1}
    None = None
    SessionTTL = 2
    MaxNow = 3
    Failures = TRUE
    Evictions = TRUE
SYMMETRY Symmetry
INVARIANTS
    TypeOK
    SessionMatchesIssue
    BulkRevocationScoped
PROPERTIES
    RevocationFinal
    NoAuthorizationAfterExpiry
