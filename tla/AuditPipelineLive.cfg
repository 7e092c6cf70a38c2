SPECIFICATION FairSpec
CONSTANTS
    a1 = a1
    a2 = a2
    a3 = a3
    Torn = Torn
    Records <- ThreeRecords
    QueueCapacity = 3
    BatchMax = 2
    MaxSpillLines = 3
    MaxCount = 4
    MaxCrashes = 1
    DiskFails = FALSE
    DrainTimesOut = FALSE

    
PROPERTIES
    EventuallyShipped
    DrainEnds
CHECK_DEADLOCK FALSE
