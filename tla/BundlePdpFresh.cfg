SPECIFICATION Spec
CONSTANTS
    r1 = r1
    r2 = r2
    Documents <- FourDocuments
    FailClosed = FailClosed
    NoModule = "none"
    DefaultModule = "default"
    BootDocument <- Boot
    Inputs = {"i", "tags"}
    OnDemand = {"tags"}
    Requests <- TwoRequests
    Returns = FALSE
SYMMETRY RequestSymmetry
INVARIANTS
    TypeOK
    RevisionBacked
    NeverStale
    ReadyMeansInstalled
