SPECIFICATION MCSpec
CONSTANTS
    m1 = m1
    t1 = t1
    g1 = g1
    c1 = c1
    c2 = c2
    s1 = s1
    c3 = c3
    k1 = k1
    k2 = k2
    Managers = {m1}
    Tasks = {t1}
    Threshold = 1
    Publishable = {"dispatched", "completed", "work", "failed", "approved", "rejected", "patch"}
    Variants = {"bare", "epic"}
    Calls = {"dispatch", "dispatch_rlm", "review", "block"}
    MaxEvents = 4
    MaxCalls = 2
    MaxAborts = 1
    MaxClaims = 1
    Gates = {g1}
    TaskOf <- MCTaskOf
    Expiring = {g1}
    Callers = {c1}
    Sweepers = {s1}
    MaxGateCalls = 2
    MaxGateAborts = 0
    Critics = {c1, c2}
    MaxKind = 3
    MaxLine = 2
    MaxSeverity = 2
    MaxFindings = 3
    Keys = {k1, k2}
    Models = {m1}
    ConfigCalls = {c1, c2}
    Correlated = {t1, g1}
    EdgeTypes = {k1}
    GraphCalls = {c1, c2, c3}
    Chats = {c1, c2}
    Categories = {k1, k2}
    Scores = {1, 2}
    HistoryLimit = 3
    PromptWindow = 1
    MaxDrafts = 1
    LineSizes = {1, 3}
    MaxLines = 4
    MaxChunkSize = 4
    Overlaps = {0, 1, 2}
    MaxFileSize = 9
    MaxEdits = 1
    SourceFiles = {c1, c2, c3}
    TokensOf <- MCTokensOf
    Budget = 2
    MaxDepth = 2
    MaxRetries = 2
    MaxRuns = 2
    MaxTorn = 1
    IssueIds = {c1, c2}
    MaxLines0 = 4
    LineCounts = {0, 2, 3}
    MaxFiles = 3
    Auditors = {c1, c2}
    AuditTasks = {t1}
    MaxSeconds = 2
    MaxAudits = 3
    StoreClients = {k1, k2}
    Tenants = {m1, t1}
    StoreCalls = {c1, c2}
    MaxReadings = 2
    MaxFlips = 2
    PodCount = 2
    ClusterTTL = 2
    ServiceTTL = 2
    SparklineTTL = 2
    MaxFailed = 1
    MaxTicks = 3
    TelemetryAgents = {c1, c2}
    LogLimit = 1
    MaxLogs = 2
    MaxReports = 3
    Texts <- MCTexts
    SoughtNames = {k1}
    MaxToolSteps = 2
    MaxModuleEdits = 1
    QueryWords = {k1}
    MaxKeywordCalls = 3
    MaxExtracted = 2
    MaxPlaced = 2
    MaxTraced = 2
    AspectCount = 2
    Marks = {5, 7, 9}
    SubmitAt = 8
    GapBelow = 4
    Browsers = {c1, c2}
    MaxTalks = 3
    InRegistry = {k1, k2}
    NotInRegistry = {g1}
    Targets = {"inside", "upward"}
    MaxPolls = 1
    MaxRaises = 1
    Secrets <- MCSecrets
    SecretValues = {c1, c2}
    KnownPrefixes = {"dev"}
    MaxSets = 2
    MaxOutages = 1
    CredentialKinds <- MCKinds
    CredentialCalls = {c1, c2}
    Questions = {c1, c2, c3}
    QueryBudget = 5
    PerIteration = 3
    CacheSize = 2
    QueryRetries = 1
    MaxAsked = 4
    IdeaClasses = {k1}
    Labels = {k1}
    IdeaCalls = {c1, c2}
    LabelIds = {k1, k2}
    DefaultId = k1
    TaxonomyCalls = {c1, c2}
CHECK_DEADLOCK FALSE
INVARIANTS TypeOK EffectBeforeAck RlmJustified GovernedCompletion ReviewsAreTrue IdeasAreTrue CodeIsRead ViewsAreTrue StoresAreTrue
PROPERTIES Implements ReadinessIsLostForACause
