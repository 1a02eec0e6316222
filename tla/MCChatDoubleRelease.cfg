SPECIFICATION Spec
CONSTANTS
    a = a
    b = b
    c = c
    Req <- MCReq
    Streams <- MCStreams
    WithFallback <- MCWithFallback
    MaxInflight = 1
    MaxQueued = 1
    RenderMayFail = TRUE
    CutAt <- MCNowhere
    BodyMayNotStart = FALSE
INVARIANT InflightBounded
\* Every request is over and the gateway drains.
CHECK_DEADLOCK FALSE
