SPECIFICATION FairPipelineSpec
CONSTANTS
    o1 = o1
    o2 = o2
    Orders = {o1, o2}
    Warm = Warm
    NoChannel = NoChannel
    Prefetch = 1
    MaxAttempts = 2
    Faults = {"service", "worker", "broker"}
    MaxFaults = 1
INVARIANTS
    NothingIsStranded
PROPERTIES
    EveryRequestIsAnswered
    AcceptedIsProcessed
CHECK_DEADLOCK FALSE
