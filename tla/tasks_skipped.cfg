SPECIFICATION Spec
CONSTANTS
    Managers = {m1}
    Tasks = {t1}
    Threshold = 4
    Publishable = {"dispatched", "rejected"}
    Variants = {"bare"}
    Calls = {"block"}
    MaxEvents = 4
    MaxCalls = 2
    MaxAborts = 0
    MaxClaims = 0
CHECK_DEADLOCK FALSE
INVARIANT RejectionsCount
