SPECIFICATION MCSpec
CONSTANTS
    c1 = c1
    c2 = c2
    k1 = k1
    k2 = k2
    NoKey = NoKey
    Consumers <- MCConsumers
    Keys <- MCKeys
    Publishable <- MCPublishable
    BatchSize = 2
    PageSize = 2
    MaxLen = 1
    MaxEvents = 3
    MaxCrashes = 1
    MaxFaults = 1
    MaxRetries = 1
    MaxStops = 1
CHECK_DEADLOCK FALSE
INVARIANTS TypeOK NeverDropped OrphansHaveACause OverlapBound
PROPERTIES Implements EventuallyAcked HandoverRecovers StopEndsLoop
