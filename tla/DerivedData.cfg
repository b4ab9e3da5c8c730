CONSTANTS
    Records = {1, 2}
    Days = {{1}, {2}}
    Requests = {"q"}
    ScopeLimit = 2
    DayLimit = 2
    CandidateLimit = 1
    FeatureLimit = 2
    MaxCalls = 2
    MaxFailures = 1
SPECIFICATION Spec
INVARIANTS DeletionTruthful
