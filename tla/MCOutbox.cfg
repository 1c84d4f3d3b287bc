SPECIFICATION OutboxFairSpec
CONSTANTS
    Instances = {i1, i2}
    Events = {e1, e2}
    s1 = s1
    s2 = s2
    Subscribers = {s1, s2}
    Typed <- MCTyped
    Wildcard <- MCWildcard
    Times = {1}
    None = None
    MaxAttempts = 2
    BatchLimit = 1
    MaxFaults = 1
INVARIANTS
    OutboxTypeOK
    DeliveredMeansHandled
    NoStaleBatch
PROPERTIES
    ImplementsQueue
    EventuallySettled
