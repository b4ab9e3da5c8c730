CONSTANTS
    a = a
    b = b
    c1 = c1
    c2 = c2
    Records <- RecordsTwo
    Contents <- ContentsTwo
    Quota = 3
    Environments <- AllEnvironments
    MaxJunk = 3
SPECIFICATION Spec
SYMMETRY StorageSymmetry
INVARIANTS StorageTypeOK WrittenIsDurable DeletedStaysDeleted QuotaHolds RestartCompletesDelete
