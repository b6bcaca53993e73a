SPECIFICATION GitSpec
CONSTANTS
    Tasks = {t1, t2}
    MaxGitFaults = 1
CHECK_DEADLOCK FALSE
INVARIANT FailedLeavesClean
