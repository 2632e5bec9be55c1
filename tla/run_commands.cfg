\* Two commands of one issue, no reconciler: the launch section and its lock.
SPECIFICATION Spec
CONSTANTS
    Issues = {i1}
    Scoped = {}
    Clis = {c1, c2}
    Reconcilers = {}
    MaxRuns = 3
    MaxClaimed = 3
    MaxKills = 1
    Commands = {"resume", "retry", "cancel"}
    Foregrounds = {TRUE, FALSE}
    Forces = {TRUE, FALSE}
    SubmitFaults = TRUE
    Crashes = TRUE
    LookupFaults = FALSE
SYMMETRY Interchangeable
CONSTRAINT Typed
INVARIANT LockMutex
PROPERTIES ForegroundUndisturbed
\* Commands end and nothing else may be left to do.
CHECK_DEADLOCK FALSE
