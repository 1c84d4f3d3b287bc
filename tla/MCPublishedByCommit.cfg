SPECIFICATION OutboxSpec
CONSTANTS
    Instances = {i1}
    Events = {e1}
    s1 = s1
    s2 = s2
    Subscribers = {s1, s2}
    Typed <- MCTyped
    Wildcard <- MCWildcard
    Times = {1}
    None = None
    MaxAttempts = 2
    BatchLimit = 1
    MaxFaults = 0
INVARIANT PublishedByCommit
