CONSTANTS
    Items = {0, 1}
    Workers = {w1, w2}
    MaxAttempts = 2
    Limit = 2
    MaxCost = 2
    MaxRuns = 2
SPECIFICATION FairSpec
INVARIANTS SpendBounded ItemsAccounted ReplayableUnlessKilled
PROPERTIES CancelStopsCalls RunEnds ImplementsContract
CHECK_DEADLOCK FALSE
