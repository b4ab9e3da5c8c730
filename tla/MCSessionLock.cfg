CONSTANTS
    r1 = r1
    Workers <- WorkersNone
    Revisions <- RevisionsOne
    MaxEpoch = 4
    Environments <- OnlyLocking
    MaxRequests = 2
SPECIFICATION SafetySpec
INVARIANTS LockStopsRecording
