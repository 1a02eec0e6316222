SPECIFICATION Spec
CONSTANTS
    a = a
    b = b
    tok = tok
    Req <- MCReq
    Token <- MCToken
    NoToken = NoToken
    Estimate <- MCEstimate
    Exp <- MCTokenExp
    Bound <- MCBound
    MCCost = 1
    MCExp = 4
    MaxCharge = 2
    Day = 3
    Window = 2
    Lag = 1
    MaxClock = 6
SYMMETRY MCSymmetry
INVARIANTS QuotaWithinDrift UsedOnceWhileValid
PROPERTY RateSeen
\* Every request is over and the clock is at its bound.
CHECK_DEADLOCK FALSE
