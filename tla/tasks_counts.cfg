SPECIFICATION Spec
CONSTANTS
    Managers = {m1, m2}
    Tasks = {t1}
    Threshold = 4
    Publishable = {"dispatched", "failed"}
    Variants = {"none"}
    Calls = {}
    MaxEvents = 3
    MaxCalls = 0
    MaxAborts = 0
    MaxClaims = 0
CHECK_DEADLOCK FALSE
INVARIANT NoLostCounts
