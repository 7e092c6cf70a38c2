SPECIFICATION Spec
CONSTANTS
    r1 = r1
    r2 = r2
    Documents <- TwoDocuments
    FailClosed = FailClosed
    NoModule = "none"
    DefaultModule = "default"
    BootDocument <- BootOfTwo
    Inputs = {"i"}
    OnDemand = {}
    Requests <- TwoRequests
    Returns = TRUE
SYMMETRY RequestSymmetry
INVARIANTS
    NeverStale
