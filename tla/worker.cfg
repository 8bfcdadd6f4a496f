SPECIFICATION WorkerSpec
CONSTANTS
    o1 = o1
    o2 = o2
    o3 = o3
    Orders = {o1, o2, o3}
    MaxAttempts = 2
    Prefetch = 2
    Faults = {"worker", "broker", "cancel"}
    MaxFaults = 2
INVARIANTS
    ActiveJobsBoundedByPrefetch
    ReadyMeansConnected
PROPERTIES
    WorkerReturns
    QueueDrains
CHECK_DEADLOCK FALSE
