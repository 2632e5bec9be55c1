\* Two iterations, three runs of the flow; both backends, crashes.
SPECIFICATION LoopFairSpec
CONSTANTS
    Steps = {"actor", "critic"}
    MaxIters = 2
    Keywords <- MCKeywords
    CloseReasons <- MCReasons
    Required = {}
    Backends = {"dolt", "br"}
    Survive = FALSE
    Pool = 1
    MaxCalls = 12
    ProbeFaults = FALSE
    MapFaults = FALSE
    Resurrects = TRUE
    MaxRuns = 3
CONSTRAINT Typed
PROPERTIES
    KeepsContract
    RunEnds
\* The runs are used up.
CHECK_DEADLOCK FALSE
