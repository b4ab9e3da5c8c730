CONSTANTS
    w1 = w1
    w2 = w2
    r1 = r1
    Workers <- WorkersOne
    Revisions <- RevisionsOne
    MaxEpoch = 4
SPECIFICATION Spec
INVARIANTS
    RecordingVerified
