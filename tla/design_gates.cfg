SPECIFICATION StageSpec
CONSTANTS
    MaxStageCalls = 3
    MaxStageFaults = 0
CHECK_DEADLOCK FALSE
INVARIANT PlannedIsApproved
