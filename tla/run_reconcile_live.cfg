\* The timer's reconciler and a manual one, faultless: exactly once, eventually.
SPECIFICATION FairSpec
CONSTANTS
    Issues = {i1}
    Scoped = {}
    Clis = {}
    Reconcilers = {a1, a2}
    MaxRuns = 3
    MaxClaimed = 2
    MaxKills = 2
    Commands = {}
    Foregrounds = {}
    Forces = {}
    SubmitFaults = FALSE
    Crashes = FALSE
    LookupFaults = FALSE
CONSTRAINT FreshLocks
INVARIANTS ResumedAtMostOnce
PROPERTIES DeadRunTerminalized AbandonedIsResumed
