SPECIFICATION ServiceSpec
CONSTANTS
    o1 = o1
    o2 = o2
    o3 = o3
    Orders = {o1, o2, o3}
    Warm = Warm
    NoChannel = NoChannel
    Prefetch = 1
    Faults = {"service", "broker"}
    MaxFaults = 2
INVARIANT PublishFailureIsSilent
CHECK_DEADLOCK FALSE
