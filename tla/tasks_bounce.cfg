SPECIFICATION Spec
CONSTANTS
    Managers = {m1}
    Tasks = {t1}
    Threshold = 4
    Publishable = {"dispatched", "completed"}
    Variants = {"bare", "epic"}
    Calls = {}
    MaxEvents = 3
    MaxCalls = 0
    MaxAborts = 0
    MaxClaims = 0
CHECK_DEADLOCK FALSE
PROPERTY TestsDecide
