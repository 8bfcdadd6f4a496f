SPECIFICATION MeteredSpec
CONSTANTS
    o1 = o1
    o2 = o2
    Orders = {o1, o2}
    Warm = Warm
    NoChannel = NoChannel
    Prefetch = 1
    MaxAttempts = 2
    Faults = {"service", "worker", "broker", "cancel"}
    MaxFaults = 2
SYMMETRY Symmetry
INVARIANTS
    MeteredTypeOK
    FailedNeverProcessed
    AcceptedExactlyWhenPublished
    AckedOnlyWhenCompleted
    PublishedMinusConsumedIsBacklog
    ErrorsAreStrandedOrders
    BacklogAlertIsNeverSilenced
PROPERTIES
    ImplementsLifecycle
    PublishFailsOnlyByOutage
CHECK_DEADLOCK FALSE
