SPECIFICATION PromotionsSpec
CONSTANTS
    s1 = s1
    s2 = s2
    s3 = s3
    c1 = c1
    c2 = c2
    NoSha = NoSha
    Shas = {s1, s2, s3}
    Cmds = {c1, c2}
    MaxCmds = 3
    MaxEdits = 2
    Benchers = {c1, c2}
    Metrics = {"x", "y"}
    Primary = "x"
    Measurements = 2
    Unit = 12
    RunPrice = 1
    CalibrationLimit = 3
    Candidates <- MCCandidates
    FreshSamples <- MCFreshSamples
    BandFactor = 384
    MaxReports = 0
SYMMETRY Symmetry
INVARIANTS RejectedNotActive
CHECK_DEADLOCK FALSE
