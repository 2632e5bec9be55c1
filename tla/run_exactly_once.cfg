\* A lookup that raises for one issue unlinks the marker of another.
SPECIFICATION Spec
CONSTANTS
    Issues = {i1, i2}
    Scoped = {}
    Clis = {}
    Reconcilers = {a1, a2}
    MaxRuns = 4
    MaxClaimed = 4
    MaxKills = 2
    Commands = {}
    Foregrounds = {}
    Forces = {}
    SubmitFaults = FALSE
    Crashes = FALSE
    LookupFaults = TRUE
SYMMETRY Interchangeable
INVARIANTS ResumedAtMostOnce
CONSTRAINT Quiet
