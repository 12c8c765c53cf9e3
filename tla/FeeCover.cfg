SPECIFICATION FairSpec
CONSTANTS
    Offers = {o1}
    Campaigns = {1}
    Budgets = {1, 2}
    Covers = {1}
    MaxAttempts = 2
    MaxFaults = 2
    MaxClock = 3
    Sweep = Sweep
    Beside = Beside
    None = None
    SpanningRecovery = FALSE
INVARIANTS PaidOnce VerdictsAreFinal SoldIsNeverReleased QuoteTellsTheTruth
PROPERTIES CoverIsHonoured
CHECK_DEADLOCK FALSE
