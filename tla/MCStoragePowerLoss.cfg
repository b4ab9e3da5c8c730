CONSTANTS
    a = a
    b = b
    c1 = c1
    c2 = c2
    Records <- RecordsTwo
    Contents <- ContentsTwo
    Quota = 3
    Environments <- PowerLosses
    MaxJunk = 3
SPECIFICATION Spec
INVARIANTS InterruptedDeleteCompletes
