SPECIFICATION AdmissionSpec
CONSTANTS
    a = a
    b = b
    c = c
    d = d
    e = e
    Req <- MCReq
    MaxInflight = 2
    MaxQueued = 1
INVARIANTS PermitsConserved CountersExact
PROPERTIES ShedJustified NoOvertaking WaiterServed
