SPECIFICATION LateFaultSpec
CONSTANTS
    Items = {w1}
    Attempts = {a1}
    Requests = {r1}
    Callers = {c1}
    MaxReceipts = 1
    MaxClock = 3
    MaxCrashes = 1
    MaxFaults = 1
INVARIANTS
    ReopenRecovers
CHECK_DEADLOCK FALSE
