SPECIFICATION CorrelationSpec
CONSTANTS
    r1 = r1
    r2 = r2
    Requests = {r1, r2}
    Nobody = Nobody
    c1 = c1
    ClientIds = {c1}
    NoId = NoId
    Faults = {"service", "worker"}
    MaxFaults = 2
SYMMETRY Symmetry
INVARIANTS
    LinesCarryTheReturnedId
    OneQueryFollowsTheOrder
    QueryFindsNoOtherRequest
CHECK_DEADLOCK FALSE
