SPECIFICATION EdgeSpec
CONSTANTS
    r1 = r1
    r2 = r2
    Requests = {r1, r2}
    Faults = {"service"}
    MaxFaults = 1
INVARIANT ClientFaultBurnsNoBudget
CHECK_DEADLOCK FALSE
