CONSTANTS
    n1 = n1
    o1 = o1
    o2 = o2
    k1 = k1
    k2 = k2
    p1 = p1
    p2 = p2
    d1 = d1
    d2 = d2
    u1 = u1
    u2 = u2
    Names = {n1}
    Ops <- MCOps
    MaxPid = 3
    MaxRun = 1
    Callers <- MCCallers
    N = 3
    MaxCalls = 4
    Pipelines <- MCPipelines
    Projects <- MCProjects
    Operators <- MCOps
    MaxDeployed = 3
    Units <- MCUnits
    UnitPrices = {0, 2}
    MaxStream = 5
    Fleet = {1, 2}
    Tenants = {"local", "other"}
    Local = "local"
    MaxSpawned = 3
    MaxCycles = 2
    MaxEdits = 1
    Deployers <- MCOps
    Rules = {"cost_spike", "stuck"}
    MaxScaffolds = 3
SPECIFICATION DeploymentsSpec
INVARIANTS RecordsTruthful FeedIsExact OperatorIsServed
CHECK_DEADLOCK FALSE
