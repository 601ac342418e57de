CONSTANTS
    Channels = {"c1", "c2"}
    GwRequests = {"r1", "r2", "r3"}
    NoChannel = "-"
    Threshold = 2
    FailOpen = TRUE
    Limit <- MCLimit
    Cost <- MCCost
    Callers = {"a", "b", "c"}
    Writers = {"w"}
    MaxRetries = 2
    Mixes <- MCMixes
    N = 2
    Queries = {"q1", "q2"}
    RetryAttempts = 1
    Statements <- MCStatements
    LoneId = a
    ToolIds = {a, b}
    MaxLength = 4
    ChunkIds = {100}
    Contents = {"x", "y"}
    Domains = {"d", "e"}
    MaxEntries = 1
    MaxWrites = 4
    MaxMishaps = 2
    IdServers = {"p", "q"}
    WorkerIds = {0, 1}
    StaleAfter = 2
    MaxSkew = 1
    MaxTime = 4
    Batches <- MCBatches
    NoKey = "-"
    Identity <- MCIdentity
    ListCap = 3
    OldList <- MCOldList
    Bodies = {"x", "y"}
    Tabs = {"t", "u"}
    Retained = 1
    MaxVersion = 2
    MaxSkillFaults = 1
    OrderIds = {"o"}
    Editors = {"e", "f"}
    Scope <- MCScope
    Root = {"f"}
    OrderTenants = {"t1", "t2"}
    OrderStatuses = {"paid", "pending"}
    McpCalls = {"c1", "c2"}
    Manager = "m"
    Cursors = {"k1", "k2"}
    MaxPages = 2
    MaxLines = 2
    PipePieces = 2
    MaxNotes = 1
    DocSessions = {1, 2, 3}
    ProjectOf <- MCProjectOf
    ProfileOf <- MCProfileOf
    DocTexts = {"x", "y"}
    DocChunks = 1
    MaxDocs = 3
    MaxFileEdits = 2
    MaxDocFaults = 1
SPECIFICATION Spec
INVARIANTS GatewayHolds CacheHolds ReadsSurviveReplicaLoss TranscriptHolds
    EngineHolds BatchHolds WorkerIdsUnique SkillPackageHolds ProjectDocsHold
    AnswersReachTheirCall
PROPERTIES FailedChangeUndone PaidOrdersKeepTheirTime
CHECK_DEADLOCK FALSE
