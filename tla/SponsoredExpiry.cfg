CONSTANTS
    MaxSessions = 2
    MaxWorkers = 1
    MaxBurns = 1
    MaxFaults = 2
    LookupsMayFail = TRUE
SPECIFICATION Spec
INVARIANT OneFreeMint
CHECK_DEADLOCK FALSE
