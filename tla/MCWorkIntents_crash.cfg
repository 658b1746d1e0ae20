SPECIFICATION FairSpec
CONSTANTS
    Items = {w1}
    Attempts = {a1, a2}
    Requests = {r1, r2}
    Callers = {c1, c2}
    MaxReceipts = 1
    MaxClock = 4
    MaxCrashes = 2
    MaxFaults = 0
INVARIANTS
    ReopenRecovers
    FailedMeansNoEffect
PROPERTIES
    ClaimsSettle
    AtomicMutations
CHECK_DEADLOCK FALSE
