SPECIFICATION Spec
CONSTANTS
    base = base
    crm = crm
    Module <- MCModule
    BackoffLimit = 2
    MaxDisturbances = 1
    Disturbances <- OneEdit
INVARIANTS NoReinstall
