SPECIFICATION FairSpec
CONSTANTS
    r1 = r1
    r2 = r2
    Documents <- FiveDocuments
    FailClosed = FailClosed
    NoModule = "none"
    DefaultModule = "default"
    BootDocument <- Boot
    Inputs = {"i"}
    OnDemand = {}
    Requests = {}
    Returns = TRUE
PROPERTIES
    RevocationLands
