CONSTANTS
    LoopItems = 2
    FluidSeeds = {2}
    MaxVisits = 3
    Patience = 2
    LoopLimit = 3
    LoopAnswers <- MCAnswers
    LoopStarts = 2
    m1 = m1
    m2 = m2
    m3 = m3
    p1 = p1
    p2 = p2
    yes = yes
    no = no
    Models <- MCModels
    Providers <- MCProviders
    Registered <- MCRegistered
    Alias <- MCAlias
    Supports <- MCSupports
    Permitted <- MCProviders
    AgentModels <- MCAgentModels
    PrimaryModel = m1
    StrongModel = m2
    RoutedRole = 2
    RoutedModel = m1
    StackLimit = 7
    LeafCosts = {1, 2}
    VoteKeys = {yes, no}
    SampleK = 4
    MinK = 3
    PriceTables <- MCPriceTables
    OtherShapes <- MCOtherShapes
    TypeDefs <- MCTypeDefs
    Json <- MCJson
    WireTypes <- MCTypes
    WireValues <- MCValues
    WireNames = {"item", "n"}
    Jobs <- MCJobs
    Texts <- MCAnswered
    Sure = 10
    MaxRouted = 2
    LiveItems = {"a", "b", "c"}
    HashOf <- MCHashOf
    Epsilon = 3
    Decay = 1
    SampleSize = 1
    MinLift = 1
    RewardsOf = {0, 2}
    ServePrice = 1
    ServeLimit = 2
    MaxServed = 3
    MaxOutcomes = 2
    Styles <- MCStyles
    Sizes = {1, 3}
    DigestSize = 2
    MaxTurns = 6
    Teams <- MCTeams
    StaticNames = {"config"}
    CarryKeep = 3
    Minute = 4
    MinSleep = 2
    Period = 3
    Horizon = 7
    MaxCycle = 6
    MaxLate = 1
    MaxRuns = 2
    RunCost = 1
    FailAbove = 50
    FailWindow = 6
    SpendLimit = 2
    SpendWindow = 6
    StuckFor = 2
    Lookback = 6
    JudgeTicks = 1
    ObserverEnd = 12
SPECIFICATION RunsSpec
INVARIANTS LoopIsFaithful ServingIsSound SpendIsForeseen ValuesAreSound ContextIsKept MinutesFire TroubleIsFound
PROPERTY VoteHasSupport
CHECK_DEADLOCK FALSE
