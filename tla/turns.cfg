\* Two roles of one seed, their turns, the mail and the account registry.
SPECIFICATION FairSpec
CONSTANTS
    Roles = {"builder", "plan-critic"}
    BdKey <- TwoKeys
    Sids = {1, 2}
    StoreFaults = TRUE
    Admins = {m1}
    Addable <- TwoAccounts
    RuleAddable <- TwoRules
    ProcessEnv <- NoEnv
    Primary = "claude"
    Policies <- Chains
    Mails = {1, 2}
    MaxInbox = 1
    Forks = {TRUE, FALSE}
    MaxTurns = 2
    MaxCrashes = 1
CONSTRAINTS FewAtOnce Typed
INVARIANTS
    CapacityExhaustive
    SameProviderInProcess
    ReadsOwnWrites
    RestoredAtHome
PROPERTIES
    MailNotLost
    TurnEnds
CHECK_DEADLOCK FALSE
