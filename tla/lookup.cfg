SPECIFICATION MeteredFairSpec
CONSTANTS
    l1 = l1
    l2 = l2
    Lookups = {l1, l2}
    c1 = c1
    Checks = {c1}
    u1 = u1
    Users = {u1}
    NoUser = NoUser
    MaxRetries = 1
    MaxOutages = 2
INVARIANTS
    RegisteredUserIsFound
    OneDialAtATime
    MissesAreTheLoad
    NoSilentDegradation
    CallErrorsAreFailedLookups
PROPERTIES
    RedisFailsNoLookup
    ImplementsDirectory
    EveryLookupEnds
    HealthChecksEnd
CHECK_DEADLOCK FALSE
