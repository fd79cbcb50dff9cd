SPECIFICATION FairSpec
CONSTANTS
    shop = shop
    blog = blog
    shared = shared
    shopAdm = shopAdm
    blogAdm = blogAdm
    CR <- MCCR
    Name <- MCName
    DefaultName <- Generated
    NoName = noName
    Specs <- SharedOrNot
    Password = {p1, p2}
    Missing = missing
    NoOwner = noOwner
    Touched = {shared}
    Workers = 2
    Kinds <- AllKinds
    MaxDisturbances = 1
INVARIANTS TypeOK Agreed
PROPERTIES FirstWins Converges
