SPECIFICATION Spec
CONSTANTS
    a1 = a1
    a2 = a2
    a3 = a3
    Torn = Torn
    Records <- ThreeRecords
    QueueCapacity = 2
    BatchMax = 2
    MaxSpillLines = 1
    MaxCount = 4
    MaxCrashes = 1
    DiskFails = TRUE
    DrainTimesOut = FALSE
SYMMETRY RecordSymmetry
INVARIANTS
    TypeOK
    
CHECK_DEADLOCK FALSE
