SPECIFICATION MCSpec
CONSTANTS
    a1 = a1
    a2 = a2
    a3 = a3
    b1 = b1
    b2 = b2
    g1 = g1
    g2 = g2
    c1 = c1
    c2 = c2
    s1 = s1
    Ideas = {a1, a2}
    BatchWorkers = {b1, b2}
    MaxRetries = 1
    MaxBatchFaults = 1
    MaxRestarts = 1
    Swarms = {a1, a2}
    Reviewers = {b1, b2}
    MaxActive = 1
    MaxSwarmMishaps = 1
    Msgs = {a1, a2, a3}
    Broadcasts = {a3}
    NeedAck = {a1, a2}
    Ackers = {b1, b2}
    PopLimits = {1, 2}
    MaxMailFaults = 1
    MaxMailExpiries = 1
    Tasks = {a1, a2, a3}
    MaxGitFaults = 1
    MaxStageCalls = 5
    MaxStageFaults = 1
    Tests = {a1, a2, a3}
    Parametrized = {a2}
    MaxCodingRetries = 1
    Explorations = {a1, a2}
    Prompts = {b1, b2}
    MaxTotal = 3
    MaxPerIteration = 2
    MaxIterations = 2
    MaxToolCalls = 3
    MaxMessages = 3
    QueryLimit = 1
    TimelineSize = 3
    MaxSecond = 2
    Gates = {g1, g2}
    Expiring = {g1}
    Callers = {c1, c2}
    Sweepers = {s1}
    MaxCalls = 3
    MaxAborts = 1
    Clicks <- MCClicks
    Allowed <- MCAllowed
    Unrouted = {g2}
    BatchSize = 2
    MaxFaults = 1
    MaxExpiries = 1
CHECK_DEADLOCK FALSE
INVARIANTS BatchesAreTrue PatchesAreTrue WorkIsJudged MailIsKept LimitsHold DeskTypeOK RequestsAreTrue BridgeIsTrue
PROPERTY EndsAreReached DeskMovesOn
