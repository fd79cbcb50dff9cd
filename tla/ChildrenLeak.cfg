SPECIFICATION Spec
CONSTANTS
    v1 = v1
    v2 = v2
    Version <- OneVersion
    FirstVersions <- OneVersion
    Service = service
    Foreign = foreign
    NoSpec = nospec
    MaxUid = 1
    Kinds <- DeletionOnly
    MaxDisturbances = 1
INVARIANTS NoLeftovers
