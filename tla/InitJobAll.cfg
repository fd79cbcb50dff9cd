SPECIFICATION Spec
CONSTANTS
    base = base
    crm = crm
    Module <- MCModule
    BackoffLimit = 1
    MaxDisturbances = 2
    Disturbances <- AllKinds
SYMMETRY ModuleSymmetry
INVARIANTS TypeOK RolloutGate Settled
PROPERTIES NeverForgets HonestSuccess
