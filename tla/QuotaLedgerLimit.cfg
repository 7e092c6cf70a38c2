SPECIFICATION Spec
CONSTANTS
    w1 = w1
    w2 = w2
    Writers <- TwoWriters
    Targets <- OneBucket
    Quotaed <- BucketLevel
    Limits = {2}
    Sizes = {1, 2}
    Tracking = {FALSE, TRUE}
    SpecKinds = {"limit", "unreadable"}
    MaxU64 = 7
    MaxSettledSlots = 1
    TicksPerSecond = 2
    MaxTime = 3
    MaxGen = 2
    MaxLag = 0
    MaxStepBack = 0
    LateLanding = FALSE
SYMMETRY WriterSymmetry
INVARIANTS
    
    StoredWithinLimit
    CountedUntilCovered
