SPECIFICATION FairSpec
CONSTANTS
    Triggers <- SomeTriggers
    Requests = {}
    MaxTime = 3
    MaxActivations = 3
    MaxCrashes = 0
    MaxInFlight = 1
    CatchUpLimit = 2
    History = 2
    Capacity = 2
    CircuitFailures = 2
    Backoff = 1
    MaxBackoff = 3
PROPERTY NoSlotIsLost
CHECK_DEADLOCK FALSE
