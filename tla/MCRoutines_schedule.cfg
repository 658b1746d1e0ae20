SPECIFICATION FairSpec
CONSTANTS
    Triggers <- SomeTriggers
    Requests = {r1}
    MaxTime = 3
    MaxActivations = 3
    MaxCrashes = 1
    MaxInFlight = 1
    CatchUpLimit = 2
    History = 2
    Capacity = 2
    CircuitFailures = 2
    Backoff = 1
    MaxBackoff = 3
INVARIANTS
    OneWorkPerOccurrence
    
PROPERTIES
    ProgressIsKept
    ListedSlotsAreAnswered
    ScheduleMovesOn
CHECK_DEADLOCK FALSE
