SPECIFICATION Spec
CONSTANTS
    None = None
    Cases <- MCCases
    Limit = 1
    OverFetch = 2
    FtsTop = 3
    ScanCap = 4
    ProbeLimit = 3
    RrfK = 60
CHECK_DEADLOCK FALSE
INVARIANTS
    NeighboursAreFused
