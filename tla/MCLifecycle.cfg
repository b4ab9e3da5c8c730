CONSTANTS
    w1 = w1
    w2 = w2
    r1 = r1
    Workers <- WorkersTwo
    Revisions <- RevisionsOne
    MaxEpoch = 6
SPECIFICATION Spec
SYMMETRY WorkersSymmetry
INVARIANTS
    TypeOK
    PersistenceBarrier
    StaleWorkCancelled
    InFlightExact
    EventsSound
    BlocksHold
PROPERTIES
    LegalTransitions
    BarrierDrained
    RefinesFence
