SPECIFICATION FairAccountsSpec
CONSTANTS
    r1 = r1
    r2 = r2
    r3 = r3
    r4 = r4
    Requests = {r1, r2, r3, r4}
    e1 = e1
    e2 = e2
    Emails = {e1, e2}
    NoOne = NoOne
    PoolMax = 2
    Faults = {"service", "postgres"}
    MaxFaults = 1
INVARIANTS
    AccountsTypeOK
    ReplyTellsWhoseRow
    NobodyWaitsForAFreePlace
PROPERTY EveryRegistrationIsAnswered
CHECK_DEADLOCK FALSE
