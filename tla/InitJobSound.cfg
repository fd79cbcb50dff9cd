SPECIFICATION Spec
CONSTANTS
    base = base
    crm = crm
    Module <- MCModule
    BackoffLimit = 1
    MaxDisturbances = 2
    Disturbances <- KeptJobs
SYMMETRY ModuleSymmetry
INVARIANTS Sound BatchAccounted
PROPERTIES Promised
