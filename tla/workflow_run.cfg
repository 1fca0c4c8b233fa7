CONSTANTS
    a = a
    b = b
    night = night
    day = day
    Lineages <- MCItems
    Feed <- MCFeed
    Kept <- MCKept
    Steps <- AllKinds
    Branches <- MCBranches
    Batches <- MCBatches
    MaxStarts = 3
    Focuses = {"workflow", "demo"}
    TuneSet <- MCTuneSet
    GateSet <- MCGateSet
    Temps <- MCTemps
    Hot = 10
    LoopBound = 3
    RefineMax = 2
    AcceptAt = 1
    Parts = 2
    MaxDepth = 3
    QuorumK = 2
    CalibrateRuns = 2
    PerCall = 5
    Fees <- MCFees
    Ceilings <- MCCeilings
    Tempers <- MCTempers
    MaxInvocations = 2
SPECIFICATION PipelinesSpec
SYMMETRY BatchSymmetry
INVARIANTS EffectsAreExact DemoIsHonest
CHECK_DEADLOCK FALSE
