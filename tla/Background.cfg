SPECIFICATION BackgroundSpec
CONSTANTS
    Claimant = {b1, s1}
    Bulk = {b1}
    Single = {s1}
    Wanted <- MCWanted
    Token <- MCToken
    Owner <- MCOwner
    Max = 2
    UnitMaxAttempts = 2
    MaxFaults = 1
    MaxCrashes = 1
    Margin = 2
    Slack = 2
    Horizon = 6
    MaxAttempts = 2
    OneServerPerScan = TRUE
    Holders = {w1}
    Tokens = {t1, t2, t3}
    Listed = Listed
    NoOwner = NoOwner
    LastDay = 2
    DeferDen = 3
INVARIANTS
    TypeOK NoOvershoot PaidIsHonoured SettledOnce
    AtMostOnce NeverForgotten
    AccruedBehindCursor
PROPERTIES
    UsesHeadroomWell PaidIsWorkedOff
    IntentResolves PaysOnce
    EveryEpochAccrues
CHECK_DEADLOCK FALSE
