SPECIFICATION HistSpec
CONSTANTS
    Procs = {p1, p2}
    Users = {u1}
    Tokens = {t1}
    Roles = {r1}
    None = None
    SessionTTL = 2
    MaxNow = 1
    Failures = FALSE
    Evictions = FALSE
INVARIANT RoleChangeFinal
