SPECIFICATION Spec
CONSTANTS
    w1 = w1
    w2 = w2
    Writers <- TwoWriters
    Targets <- TwoBuckets
    Quotaed <- BothBuckets
    Limits = {2}
    Sizes = {1, 2}
    Tracking = {FALSE}
    SpecKinds = {"limit"}
    MaxU64 = 7
    MaxSettledSlots = 2
    TicksPerSecond = 2
    MaxTime = 3
    MaxGen = 2
    MaxLag = 1
    MaxStepBack = 0
    LateLanding = FALSE
SYMMETRY WriterSymmetry
INVARIANTS
    StoredWithinLimit
