SPECIFICATION FairSpec
CONSTANTS
    Turns = {1, 2}
    Roles = {tester}
    Setups <- MCSetups
    Forks = {TRUE, FALSE}
    Priors = {TRUE, FALSE}
    MaxFaults = 1
CONSTRAINT Typed
INVARIANTS
    OwnAnswer
    NoPaneLeft
PROPERTIES
    PeersSpared
    TurnEnds
CHECK_DEADLOCK FALSE
