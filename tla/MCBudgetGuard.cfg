SPECIFICATION Spec
CONSTANTS
    a = a
    b = b
    c = c
    Req <- MCReq
    Estimate <- MCEstimate
    MCCost = 1
    MaxCharge = 2
    Budget = 2
    Window = 2
    Ttl = 2
    PurgeLife = 1
    Lag = 1
    MaxClock = 9
SYMMETRY MCSymmetry
INVARIANTS ReservedIsHeld BooksMatchBills CapWithinExcess HoldKept RecordKept
PROPERTIES RefusalJustified ImplementsLedger
\* Every request was served and the clock is at its bound.
CHECK_DEADLOCK FALSE
