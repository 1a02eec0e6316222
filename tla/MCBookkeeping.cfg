SPECIFICATION Spec
CONSTANTS
    a = a
    b = b
    c = c
    g = g
    h = h
    t = t
    u = u
    Legacy = Legacy
    Nobody = Nobody
    Call <- MCCall
    Replica <- MCReplica
    Id <- MCId
    Tenant <- MCTenant
    Cap = 2
    MaxEntries = 1
    Ttl = 1
    MaxClock = 3
INVARIANTS CountWithinOverlap ShadowVisible HalfRecordsExplained
PROPERTY ProbesCatchUp
\* Every call is over and the clock is at its bound.
CHECK_DEADLOCK FALSE
