CONSTANTS
    StageCount = 2
    RawCapacity = 1
    StageCapacity = 1
    Coalesce = TRUE
    MaxRecords = 2
    MaxEpoch = 4
SPECIFICATION FairSpec
INVARIANTS PipelineTypeOK ItemOnce CreditsExact
PROPERTIES DrainComplete StoredCurrent PipelineSettles
