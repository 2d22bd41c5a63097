CONSTANTS
    Providers = {"mock", "stripe"}
    MaxKeys = 2
    MaxReloads = 1
SPECIFICATION FairSpec
INVARIANTS ChargedOnce RawCardOnlyToMock
PROPERTY PageSettles
CHECK_DEADLOCK FALSE
