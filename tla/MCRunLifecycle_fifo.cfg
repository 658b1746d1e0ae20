SPECIFICATION Spec
CONSTANTS
    r1 = r1
    r2 = r2
    r3 = r3
    d = d
    l1 = l1
    l2 = l2
    a = a
    None = None
    Agents = {a}
    Runs = {r1, r2, r3}
    Desktop = {}
    Lanes = {l1}
    LaneOf <- OneLane
    AgentOf <- OneAgent
    Results = {"Completed"}
    Watched = {}
    Unwanted = {}
    Limit = 2
    MaxQueue = 2
    MaxObs = 0
    MaxEdits = 0
    MaxCrashes = 0
    MaxFaults = 0
PROPERTY SessionOrderIsKept
CHECK_DEADLOCK FALSE
