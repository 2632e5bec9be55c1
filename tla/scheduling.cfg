\* Two submissions and their successors, one worker place, a waiter.
SPECIFICATION SchedFairSpec
CONSTANTS
    Pools = {po}
    Places = {here}
    Here = here
    AutoWorker = TRUE
    Clients = {c1, c2}
    First = c1
    Deployments = {agentstep, software}
    DefaultPool = po
    MaxRefusals = 1
    Issue = issue
    Others = {other}
    Waiters = {w1}
    Calls <- MCCalls
    Declared = {agentstep}
    Limits = {agentstep}
    MaxTroubles = 1
    MaxCrashes = 2
CONSTRAINTS Small Typed
INVARIANTS
    ClaimReleased
PROPERTIES
    ScheduledIsClaimed
    FailureIsNoticed
CHECK_DEADLOCK FALSE
