SPECIFICATION Spec
CONSTANTS
    Claimant = {b1}
    Bulk = {b1}
    Single = {}
    Wanted <- MCWanted
    Token <- MCToken
    Owner <- MCOwner
    Max = 2
    UnitMaxAttempts = 2
    MaxFaults = 1
    MaxCrashes = 0
INVARIANT MintedOnce
CHECK_DEADLOCK FALSE
