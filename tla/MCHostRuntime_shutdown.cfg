SPECIFICATION FairSpec
CONSTANTS
    Tasks = {t1}
    ExpectedAbort = {}
    Servers = {s1}
    Hooks = {k1}
    Handles = {h1}
    MaxQueued = 1
    MaxCalls = 2
INVARIANTS
    SingleWriter
    ReleaseMeansQuiet
    ReleaseMeansComplete
PROPERTIES
    ShutdownConcludes
CHECK_DEADLOCK FALSE
