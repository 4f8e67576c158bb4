SPECIFICATION Spec
CONSTANTS
    Ids = {i1, i2}
    LastPath = 2
    Versions = {v1, v2}
    Recent = {i1}
    Writers = {w1}
    Nothing = nothing
    Torn = torn
    Never = never
    Gone = gone
    Faults <- AllFaults
    MaxEdits = 2
    MaxFaults = 1
    MaxQueue = 2
SYMMETRY Symmetry
CHECK_DEADLOCK FALSE
INVARIANTS SettledIndexIsCurrent LedgerHasTheIndexsWord
