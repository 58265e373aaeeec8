SPECIFICATION DatabaseSpec
CONSTANTS
    Keys = {k1, k2}
    MaxValue = 3
    MaxQueue = 3
INVARIANTS
    StoreTypeOK
    NeverGoesBack
    FileCatchesUp
