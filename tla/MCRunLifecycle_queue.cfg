SPECIFICATION FairSpec
CONSTANTS
    r1 = r1
    r2 = r2
    r3 = r3
    d = d
    l1 = l1
    l2 = l2
    a = a
    None = None
    Agents = {a}
    Runs = {r1, r2}
    Desktop = {}
    Lanes = {l1}
    LaneOf <- OneLane
    AgentOf <- OneAgent
    Results = {"Completed"}
    Watched = {r1}
    Unwanted = {r1}
    Limit = 2
    MaxQueue = 1
    MaxObs = 1
    MaxEdits = 1
    MaxCrashes = 1
    MaxFaults = 1
INVARIANTS
    CrashesAreRecovered
    CancelledBeforeStart
PROPERTIES
    OutcomeIsFinal
    NothingIsLost
    CapacityReturns
CHECK_DEADLOCK FALSE
