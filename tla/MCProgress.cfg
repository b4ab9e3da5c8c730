SPECIFICATION Spec
CONSTANTS
    None = None
    MaxDeadline = 30
    MaxScopeRecordIds = 2
    MaxScopeRecords = 2
    MaxCitations = 1
    UuidOf <- MCUuidOf
    DayLength = 2
    MaxSpanDays = 2
    CandidateLimit = 2
    DayQueryLimit = 3
    MaxTimelineLimit = 3
    Requests = {"u", "d"}
    RequestOf <- MCRequestOf
    MaxPending = 2
    MaxWorkers = 1
    MaxUrgentPending = 1
    UrgentWorkers = 1
    MaxSessions = 2
PROPERTIES StaleVanishes DeletionCompletes UrgentProgress
CHECK_DEADLOCK FALSE
