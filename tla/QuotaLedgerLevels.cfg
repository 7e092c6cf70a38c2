SPECIFICATION Spec
CONSTANTS
    w1 = w1
    w2 = w2
    Writers <- TwoWriters
    Targets <- TwoBuckets
    Quotaed <- BucketAndTenant
    Limits = {1}
    Sizes = {1}
    Tracking = {FALSE}
    SpecKinds = {"absent", "limit", "unreadable"}
    MaxU64 = 7
    MaxSettledSlots = 1
    TicksPerSecond = 2
    MaxTime = 2
    MaxGen = 2
    MaxLag = 1
    MaxStepBack = 1
    LateLanding = TRUE
SYMMETRY WriterSymmetry
INVARIANTS
    TypeOK
    InFlightExact
PROPERTIES
    BasisNeverTurnsBack
