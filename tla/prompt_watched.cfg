\* Two runs of the `prompt` formula, or one and a watch, with one mishap.
SPECIFICATION FeedFairSpec
CONSTANTS
    p1 = p1
    p2 = p2
    Runs = {p1, p2}
    Labels = {"l"}
    Asks <- MCAsks
    Rigs <- MCRigs
    MaxSecond = 1
    MaxWrites = 5
    MaxFaults = 1
    Watched <- MCWatched
    Tasks = {1, 2}
    TaskLimit = 1
CONSTRAINTS Small Typed
INVARIANTS
    OwnBead
    ClosedIsAnswered
PROPERTIES
    ChangesShown
    OutcomeShown
CHECK_DEADLOCK FALSE
