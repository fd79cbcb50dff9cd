SPECIFICATION FairSpec
CONSTANTS
    v1 = v1
    v2 = v2
    Version <- MCVersion
    FirstVersions <- OneVersion
    Service = service
    Foreign = foreign
    NoSpec = nospec
    MaxUid = 2
    Kinds <- AllKinds
    MaxDisturbances = 2
INVARIANTS TypeOK Settled
PROPERTIES ClaimKept Restored
