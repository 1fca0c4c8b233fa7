SPECIFICATION FairSpec
CONSTANTS
    N = 4
    MaxSlots = 2
    Retried = {2, 4}
    Repaired = {1}
    MaxAttempts = 2
    Limit = 2
    MaxCost = 2
INVARIANT BatchAccounts
PROPERTY BatchEnds
CHECK_DEADLOCK FALSE
