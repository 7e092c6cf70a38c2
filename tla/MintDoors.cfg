SPECIFICATION FairSpec
CONSTANTS
    c1 = c1
    c2 = c2
    Callers <- TwoCallers
    Calls <- SomeCalls
    KeySets <- Rotation
    Bundles <- TwoBundles
    Tables <- TwoTables
    NoOrg = NoOrg
    NoKid = NoKid
    NoClaim = NoClaim
    NoCall = NoCall
    Nobody = Nobody
    Audience = "s0"
    WebAudiences = {"web"}
    Lower <- Spellings
INVARIANTS
    TypeOK
PROPERTIES
    RefusedOnlyIfUnpublished
    RoutesAreHidden
    
    BundleVouchesForAccount
    RetiredKeyForgotten
    CallsAreAnswered
