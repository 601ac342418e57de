CONSTANTS
    Procs = {"p1", "p2"}
    CodeProcs = {"p1", "p2"}
    CaptchaProcs = {"p1", "p2"}
    Tenants = {"default", "acme"}
    Default = "default"
    Home = "acme"
    Workloads <- MCWorkloads
    MaxRequests = 3
    MaxTries = 1
    MaxCodes = 2
    MaxGuesses = 3
    Followers = {"f", "g"}
    CaptchaCodes = {"A", "B"}
    MaxAttempts = 2
    MaxGrants = 2
    UpCapacity = 1
    SseCapacity = 1
    MaxStreamEvents = 3
    Answers <- MCAnswers
    ChatRequests <- MCRequests
    EmbeddingBatches <- MCBatches
    InputEstimate = 5
SPECIFICATION Spec
INVARIANTS SessionsHold CodesAreBounded AnswersAreFaithful
PROPERTIES VersionCacheConverges RequestsEnd ResetIsOneTime CaptchaIsOneTime
    GoneClientReleasesProvider
CHECK_DEADLOCK FALSE
