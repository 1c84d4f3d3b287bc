SPECIFICATION EntityFairSpec
CONSTANTS
    a = a
    b = b
    k = k
    Requests = {r1, r2}
    Ids = {i1}
    Fields = {a, b, k}
    Values = {0, 1, 2}
    Immutable = {k}
    Accepted <- MCAccepted
    Hooks <- MCHooks
    Policies = {"suppress", "propagate", "off"}
    PoolReads = TRUE
    None = None
INVARIANTS
    EntityTypeOK
    StoredRecordsValid
    WorkflowsOnlyForCommitted
PROPERTIES
    ImmutableFieldsKept
    NoResurrection
    EveryRequestEnds
