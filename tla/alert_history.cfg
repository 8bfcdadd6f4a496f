SPECIFICATION HistorySpec
CONSTANTS
    n1 = n1
    n2 = n2
    n3 = n3
    Notifications = {n1, n2, n3}
    MaxHistory = 2
    MaxDeliveries = 5
    MaxRestarts = 1
SYMMETRY Symmetry
INVARIANTS
    HistoryTypeOK
    HistoryIsNewestFirst
CHECK_DEADLOCK FALSE
