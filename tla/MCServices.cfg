SPECIFICATION Spec
CONSTANTS
    None = None
    MaxDeadline = 30
    MaxScopeRecordIds = 2
    MaxCitations = 1
    UuidOf <- MCUuidOf
    DayLength = 2
    MaxScopeRecords = 2
    MaxSpanDays = 2
    CandidateLimit = 2
    DayQueryLimit = 3
    MaxTimelineLimit = 3
    Requests = {"u", "v", "d"}
    RequestOf <- MCRequestOf
    MaxPending = 2
    MaxWorkers = 1
    MaxUrgentPending = 1
    UrgentWorkers = 1
    MaxSessions = 2
    Configurations <- MCConfigurations
    BrokenConfiguration <- MCBroken
    Contexts <- MCContexts
    PolicyJobs = {"j"}
    Hours = 4
    MaxPolicyGeneration = 4
    MaxPolicyTime = 2
    MaxCaptureGeneration = 2
    Scopes = {1, 2}
    Keys = {"a", "b", "c"}
    Bits = {1, 2}
    Threshold = 1
    Cadence = 2
    Debounce = 1
    MaxBackoff = 2
    MaxTicks = 3
    HashRows = 8
    HashColumns = 9
    VaultRecords = {v1}
    MaxVersion = 3
    MaxKeys = 3
    Fallback = "gpg"
    Crypter = TRUE
    AuditRecords = {a1, a2}
    EventBytes = 2
    MaxFileBytes = 3
    MaxFiles = 1
    AnswerRecords = {1, 2, 3}
    RecordOf <- MCRecordOf
    Questions <- MCQuestions
    Authorizations <- MCAuthorizations
    ProviderOf <- MCProviderOf
    RoutingModes = {"local-first", "remote-explicit"}
    MinimumScore = 2
    MaxAttempts = 2
    MaxRevision = 2
    MaxSignals = 2
    DecryptBudget = 2
    LowConfidence = 60
    MaxInputBytes = 100
    Replacement = Replacement
    Watched = {"encryption-keys", "storage-integrity", "indexes"}
    MinFreeBytes = 1
    Raised = Raised
    RepairCommands = {"index-rebuild", "provider-reprobe"}
    RepairPorts = {"index-rebuild"}
    Repairers = {1, 2}
    MaxChanges = 2
INVARIANTS
    IpcTruthful TrailKept AnswersJudged DiagnosticsTruthful
    SelectionsExact ClientTruthful DecisionsSound
PROPERTIES
    VaultSound CaptureFaithful PolicyGoverns DetectionSound
CHECK_DEADLOCK FALSE
