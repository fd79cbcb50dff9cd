SPECIFICATION Spec
CONSTANTS
    shop = shop
    shop2 = shop2
    init = init
    CR <- MCCR
    JobName <- SameName
    Modules <- TwoAndOne
    Pods <- FourAndTwo
    BackoffLimit = 1
    Workers = 2
    Kinds <- NoKinds
    MaxDisturbances = 0
PROPERTIES DeletesOwnPods
