SPECIFICATION EdgeSpec
CONSTANTS
    r1 = r1
    r2 = r2
    r3 = r3
    Requests = {r1, r2, r3}
    Faults = {"service"}
    MaxFaults = 2
SYMMETRY Symmetry
INVARIANTS
    EdgeTypeOK
    SliCountsWhatClientsSaw
    SliMissesNoServiceError
    GaugesOffByAborts
CHECK_DEADLOCK FALSE
