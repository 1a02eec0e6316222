SPECIFICATION Spec
CONSTANTS
    p = p
    q = q
    s = s
    c = c
    b1 = b1
    b2 = b2
    None = None
    Req <- MCReq
    Streams <- MCStreams
    CostAware <- MCCostAware
    Backend <- MCBackend
    Threshold = 2
    MaxProbes = 1
INVARIANT HalfOpenIsProbed
