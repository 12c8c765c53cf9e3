CONSTANTS
    MaxSessions = 2
    MaxWorkers = 2
    MaxBurns = 4
    MaxFaults = 3
    LookupsMayFail = FALSE
SPECIFICATION FairSpec
INVARIANTS HolderOwnsClaim OneFreeMint BurnedOnce
PROPERTIES DebtIsBurned
CHECK_DEADLOCK FALSE
