SPECIFICATION LedgerFairSpec
CONSTANTS
    e1 = e1  e2 = e2  e3 = e3  p1 = p1
    y1 = y1  y2 = y2  q1 = q1  q2 = q2
    Actors = {a1, a2}
    Entries <- MCEntries
    Payments = {p1}
    Years <- MCYears
    Periods <- MCPeriods
    Books <- MCBooks
    None = None
INVARIANTS
    LedgerTypeOK
    ReversalsPaired
PROPERTIES
    ClosingsAtomic
    FinalUnlessOverlapped
    EveryActionEnds
