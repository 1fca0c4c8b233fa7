CONSTANTS
    c1 = c1
    c2 = c2
    c3 = c3
    w1 = w1
    w2 = w2
    q1 = q1
    q2 = q2
    Improvers <- MCImprovers
    Versions = {"a", "b", "c"}
    Metrics = {"x", "y"}
    ScoresOf <- MCScoresOf
    CostOf <- MCCostOf
    Proposals <- MCProposals
    TuneModes = {"quality", "linear_pareto"}
    QualityFloor = 3
    Tolerance = 0
    MaxTrials = 2
    TrialCost = 1
    TuneLimit = 3
    BreakerMax = 1
    Callers <- MCCallers
    CallPrices = {1, 2}
    EventCap = 4
    FloodMax = 3
    FloodWindow = 1
    SpikeUsd = 2
    SpikeWindow = 1
    FailPercent = 50
    StuckAfter = 1
    WatchLimit = 5
    WatchEnd = 2
    MaxEvents = 6
    Curators <- MCCurators
    Corrections = {"a", "b", "c"}
    CorrectionOf <- MCCorrectionOf
    KindSets <- MCKindSets
    CaseLabels <- MCCaseLabels
    GuardProposals <- MCGuardProposals
    Bars <- MCBars
    Accepts <- MCAccepts
    MinPrecision = 50
SPECIFICATION MCSpec
SYMMETRY ImprovementSymmetry
INVARIANTS ImprovementIsExact CorpusIsSound
PROPERTY NothingIsTakenBack
CHECK_DEADLOCK FALSE
