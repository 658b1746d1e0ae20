SPECIFICATION FairSpec
CONSTANTS
    r1 = r1
    r2 = r2
    r3 = r3
    d = d
    l1 = l1
    l2 = l2
    a = a
    None = None
    Agents = {a}
    Runs = {r1, r2, d}
    Desktop = {d}
    Lanes = {l1, l2}
    LaneOf <- TwoLanes
    AgentOf <- OneAgent
    Results = {"Completed"}
    Watched = {d}
    Unwanted = {d}
    Limit = 1
    MaxQueue = 1
    MaxObs = 1
    MaxEdits = 0
    MaxCrashes = 1
    MaxFaults = 0
INVARIANTS
    OneActiveRun
PROPERTIES
    ReleasedWhenOver
    AgentIsFreed
CHECK_DEADLOCK FALSE
