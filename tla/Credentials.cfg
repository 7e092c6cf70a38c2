SPECIFICATION Spec
CONSTANTS
    p1 = p1
    p2 = p2
    Replicas <- TwoReplicas
    Plan <- FivePlan
    Off = Off
    NoOrg = NoOrg
    SessionTtl = 2
    MaxSessionTtl = 3
    MaxDuration = 1
    Durations = {0, 1, 3, 4}
    Leeway = 1
    MaxEpoch = 1
    Seeds <- TwoSeeds
    Statics <- SomeStatics
    NoSession = NoSession
    NoKey = NoKey
SYMMETRY ReplicaSymmetry
INVARIANTS
    TypeOK
    SessionSurvivesRotation
    ConsumerNeverCutOff
    RevocationSticks
PROPERTIES
    NamespaceKeepsItsOwner
