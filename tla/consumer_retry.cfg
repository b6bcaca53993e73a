SPECIFICATION RetrySpec
CONSTANTS
    c1 = c1
    c2 = c2
    k1 = k1
    k2 = k2
    NoKey = NoKey
    Consumers = {c1}
    Keys <- MCKeys
    Publishable <- SameKey
    BatchSize = 1
    PageSize = 100
    MaxLen = 100
    MaxEvents = 2
    MaxCrashes = 0
    MaxFaults = 0
    MaxRetries = 1
    MaxStops = 0
CHECK_DEADLOCK FALSE
PROPERTY RetryRedelivered
