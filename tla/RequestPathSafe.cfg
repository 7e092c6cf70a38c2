SPECIFICATION Spec
CONSTANTS
    t1 = t1
    t2 = t2
    b1 = b1
    b2 = b2
    r1 = r1
    NoRoute = NoRoute
    NoBackend = NoBackend
    Nobody = Nobody
    NoClient = NoClient
    NoBucket = NoBucket
    Account = Account
    AccessPoint = AccessPoint
    MaxDeleteKeys = 2
    Targets = {b1}
    Tenants <- TwoTenants
    Buckets <- TwoBuckets
    Configs <- SomeConfigs
    Documents <- SomeDocuments
    Requests <- OneRequest
    Callers <- SomeCallers
INVARIANTS
    TypeOK
    
    TenantsKeptApart
    
    
    ToldAsRecorded
    ReservationFollowsCall
