SPECIFICATION Spec
CONSTANTS
    Offers = {o1}
    Campaigns = {1}
    Budgets = {1}
    Covers = {1}
    MaxAttempts = 3
    MaxFaults = 1
    MaxClock = 0
    Sweep = Sweep
    Beside = Beside
    None = None
    SpanningRecovery = TRUE
INVARIANTS PaidOnce
CHECK_DEADLOCK FALSE
