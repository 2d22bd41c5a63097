CONSTANTS
    Providers = {"mock", "stripe"}
    MaxKeys = 2
    MaxReloads = 1
SPECIFICATION Spec
CHECK_DEADLOCK FALSE
INVARIANTS NothingCharged
