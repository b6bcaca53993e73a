SPECIFICATION ExitSpec
CONSTANTS
    p1 = p1
    p2 = p2
    k1 = k1
    k2 = k2
    NoKey = NoKey
    Pools = {p1}
    Keys <- MCKeys
    Publishable <- SameKey
    PoolSize = 2
    BatchSize = 2
    MaxLen = 5
    MaxEvents = 2
    MaxCrashes = 0
    MaxFaults = 0
    MaxStops = 1
CHECK_DEADLOCK FALSE
PROPERTY InProgressCompletes
