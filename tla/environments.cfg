SPECIFICATION EnvFairSpec
CONSTANTS
    e1 = e1
    j1 = j1
    j2 = j2
    j3 = j3
    h = h
    d = d
    v = v
    n = n
    i1 = i1
    i2 = i2
    Pools = {e1}
    Places = {here, h, d, v, n}
    Here = here
    AutoWorker = TRUE
    Clients = {j1, j2, j3}
    Deployments = {e1}
    DefaultPool = e1
    MaxRefusals = 0
    Kind <- Kinds
    Issues = {i1, i2}
    Foreign = {}
    Envs = {e1}
    Installed <- MCInstalled
    Setups <- MCSetups
    MaxFaults = 1
CONSTRAINTS Small Typed
INVARIANTS
    MachineFindable
    SecretsReachWorker
PROPERTIES
    DispatchEnds
CHECK_DEADLOCK FALSE
