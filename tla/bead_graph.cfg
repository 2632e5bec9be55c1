\* Two walks or a watch over small graphs, with one call that times out.
SPECIFICATION WatchFairSpec
CONSTANTS
    w1 = w1
    w2 = w2
    v1 = v1
    Beads = {0, 1, 2, 3}
    Rigs <- MCRigs
    Walkers = {w1, w2}
    Starts <- MCStarts
    Watchers = {v1}
    MaxHops = 3
    MaxFaults = 1
    MaxEdits = 1
CONSTRAINTS Small Typed
INVARIANTS
    SeedShared
    BlockersFirst
    OpenTailFound
    OnlyBelow
    CyclesAreReal
PROPERTIES
    CloseIsSeen
CHECK_DEADLOCK FALSE
