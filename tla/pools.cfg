SPECIFICATION MCSpec
CONSTANTS
    p1 = p1
    p2 = p2
    k1 = k1
    k2 = k2
    NoKey = NoKey
    Pools = {p1, p2}
    Keys <- MCKeys
    Publishable <- OnlyRequests
    PoolSize = 1
    BatchSize = 3
    MaxLen = 3
    MaxEvents = 3
    MaxCrashes = 1
    MaxFaults = 1
    MaxStops = 1
CHECK_DEADLOCK FALSE
INVARIANTS TypeOK PermitsBalanced Custody AtMostOneRun TakenIsAnswered OneAnswer OrphansHaveACause
PROPERTIES Implements LastStart EventuallyAcked ShutdownEnds
