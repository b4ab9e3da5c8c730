CONSTANTS
    r1 = r1
    Workers <- WorkersNone
    Revisions <- RevisionsOne
    MaxEpoch = 4
    Environments <- LockingOrIdling
    MaxRequests = 2
SPECIFICATION SafetySpec
CONSTRAINT EpochBound
INVARIANTS FailsClosed IdleStopsRecording
