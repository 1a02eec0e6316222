SPECIFICATION HealthSpec
CONSTANTS
    a = a
    b = b
    c = c
    d = d
    g = g
    Call <- MCCall
    Replica <- MCReplica
    Cap = 3
PROPERTY HealthyPrimaryIsChosen
\* Every call is over.
CHECK_DEADLOCK FALSE
