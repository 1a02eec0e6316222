SPECIFICATION Spec
CONSTANTS
    a = a
    b = b
    c = c
    Req <- MCReq
    Streams <- MCStreams
    WithFallback <- MCWithFallback
    MaxInflight = 1
    MaxQueued = 1
    RenderMayFail = TRUE
    CutAt <- MCEverywhere
    BodyMayNotStart = TRUE
INVARIANTS BackedWhileRunning LeaksExplained ChargeFits
PROPERTIES SettledOnce UsesAdmission 
\* Every request is over and the gateway drains.
CHECK_DEADLOCK FALSE
