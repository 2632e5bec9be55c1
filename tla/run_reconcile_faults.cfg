\* Two issues, two reconcilers, every fault: what survives them.
SPECIFICATION Spec
CONSTANTS
    Issues = {i1, i2}
    Scoped = {}
    Clis = {}
    Reconcilers = {a1, a2}
    MaxRuns = 3
    MaxClaimed = 3
    MaxKills = 2
    Commands = {}
    Foregrounds = {}
    Forces = {}
    SubmitFaults = TRUE
    Crashes = TRUE
    LookupFaults = TRUE
SYMMETRY Interchangeable
INVARIANTS ResumedRunsAreOver
CONSTRAINT Quiet
