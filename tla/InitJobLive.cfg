SPECIFICATION FairSpec
CONSTANTS
    base = base
    crm = crm
    Module <- MCModule
    BackoffLimit = 2
    MaxDisturbances = 2
    Disturbances <- Undisturbed
INVARIANTS NoReinstall
PROPERTIES WantedInstalled
