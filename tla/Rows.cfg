SPECIFICATION RowsSpec
CONSTANTS
    Wallets = {w1}
    Keys = {k1, k2}
    Requests = {r1, r2}
    None = None
    MaxClaims = 2
    Horizon = 3
    MaxLag = 1
    Margin = 1
    Generous = 1
    Slack = 1
    MonotoneReads = TRUE
    Unit = {w, l, e}
    Worn = {w}
    Loose = {l}
    MaxOps = 2
    MaxFaults = 1
INVARIANTS
    NoDoublePay ConfirmedIsBacked PayoutHoldsRows
    TypeOK JournalIsTrue MirrorIsItsVersion
PROPERTY KnownIsKept
CHECK_DEADLOCK FALSE
SYMMETRY Symmetry
