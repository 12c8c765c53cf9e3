SPECIFICATION Spec
CONSTANTS
    Unit = {w, l, e}
    Worn = {w}
    Loose = {l}
    MaxOps = 2
    MaxFaults = 1
PROPERTY NoLostUpdate
CHECK_DEADLOCK FALSE
