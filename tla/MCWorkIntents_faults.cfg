SPECIFICATION FaultySpec
CONSTANTS
    Items = {w1}
    Attempts = {a1, a2}
    Requests = {r1, r2}
    Callers = {c1, c2}
    MaxReceipts = 2
    MaxClock = 4
    MaxCrashes = 1
    MaxFaults = 2
SYMMETRY Interchangeable
INVARIANTS
    AnswersAreCommits
    DecisionsPrecedeItems
PROPERTIES
    NothingRollsBack
CHECK_DEADLOCK FALSE
