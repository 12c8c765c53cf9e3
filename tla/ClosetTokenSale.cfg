SPECIFICATION Spec
CONSTANTS
    Unit = {w, l, e}
    Worn = {w}
    Loose = {l}
    MaxOps = 2
    MaxFaults = 1
INVARIANT AccountedFor
CHECK_DEADLOCK FALSE
