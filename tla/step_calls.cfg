\* One role-step, three calls; both backends, every fault.
SPECIFICATION FairSpec
CONSTANTS
    Steps = {"critic"}
    MaxIters = 1
    Keywords <- MCKeywords
    CloseReasons <- MCReasons
    Required = {"critic"}
    Backends = {"dolt", "br"}
    Survive = TRUE
    Pool = 2
    MaxCalls = 3
    ProbeFaults = TRUE
    MapFaults = TRUE
    Resurrects = FALSE
CONSTRAINT Typed
INVARIANTS
    AnsweredStepsRest
    VerdictStable
    SessionKept
PROPERTIES
    AllSlotsTried
    StepEnds
\* The formula has made its calls.
CHECK_DEADLOCK FALSE
