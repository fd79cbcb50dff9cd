SPECIFICATION FairSpec
CONSTANTS
    db = db
    own = own
    adm = adm
    noName = noName
    v1 = v1
    v2 = v2
    junk = junk
    gen = gen
    default = default
    missing = missing
    Name <- MCName
    DefaultAdmin = adm
    NoName = noName
    Value <- MCValue
    Junk = junk
    Generated = {gen}
    Default = default
    Missing = missing
    Specs <- MCSpecs
    UserData <- MCUserData
    Touched <- UserSecrets
    Kinds <- AllKinds
    MaxDisturbances = 2
INVARIANTS TypeOK Settled
PROPERTIES PasswordKept Converges
