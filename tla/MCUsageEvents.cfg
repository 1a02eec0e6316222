SPECIFICATION EmitterSpec
CONSTANTS
    e1 = e1
    e2 = e2
    e3 = e3
    e4 = e4
    NoEvent = NoEvent
    Event <- MCEvent
    BufferMax = 2
    MaxAttempts = 2
INVARIANT Accounted
PROPERTIES PostedWithinAttempts EventSettles
\* The gateway has shut down.
CHECK_DEADLOCK FALSE
