SPECIFICATION FairSpec
CONSTANTS
    kStorageKeyClientKey = clientKey
    kStorageKeyUser = user
    Keys = {clientKey, user}
    MaxValue = 3
    MaxQueue = 1
    Attempts = 5
    MaxCrashes = 3
INVARIANTS
    TypeOK
    StoredUserVerified
    StoredUserHasKey
    ConnectedIsDurable
PROPERTY InitializationEnds
CHECK_DEADLOCK FALSE
