SPECIFICATION Spec
CONSTANTS
    Unit = {w, l, e}
    Worn = {w}
    Loose = {l}
    MaxOps = 2
    MaxFaults = 0
PROPERTY NeverRolledBack
CHECK_DEADLOCK FALSE
