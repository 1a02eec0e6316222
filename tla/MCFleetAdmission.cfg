SPECIFICATION Spec
CONSTANTS
    a = a
    b = b
    c = c
    g = g
    h = h
    Req <- MCReq
    Gateway <- MCGateway
    Home <- MCHome
    Limit = 1
    MaxQueued = 1
    Ttl = 3
    Interval = 1
    Lag = 1
INVARIANTS LeasesBounded HeldWhileRenewing FleetWithinExcess CountersExact
PROPERTIES OnlyAcquireWrites WaiterLeaves
