SPECIFICATION FairSpec
CONSTANTS
    shop = shop
    shop2 = shop2
    init = init
    CR <- MCCR
    JobName <- SameName
    Modules <- TwoAndOne
    Pods <- FourAndTwo
    BackoffLimit = 1
    Workers = 2
    Kinds <- AllKinds
    MaxDisturbances = 1
INVARIANTS TypeOK RecordedRan  Settled
PROPERTIES OwnRunKept 
CHECK_DEADLOCK FALSE
