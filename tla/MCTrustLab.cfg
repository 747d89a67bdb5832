CONSTANTS
    r1 = r1
    r2 = r2
    c1 = c1
    Runs = {r1, r2}
    Customers = {c1}
    Sessions = 1
    Casts <- MCCasts
    None = None
SPECIFICATION MetricsSpec
INVARIANTS IdsAreUnique EvidenceIsComplete SalesAreOrganic MetricsAreTrue
PROPERTIES EveryRunEnds
CHECK_DEADLOCK FALSE
