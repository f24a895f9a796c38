SPECIFICATION FairSpecGate
CONSTANTS
    p1 = p1
    p2 = p2
    decisions = decisions
    server = server
    Packages = {p1, p2}
    Files = {decisions, server}
    Exempt = {server}
    Baselines <- MCBaselines
    Concurrencies = {1, 2}
    Strict = TRUE
    Durations = {130, 140}
    MaxEdits = 2
INVARIANTS
    GateTypeOK
    PassMeansDetected
    FailureHasCause
PROPERTIES
    EveryCommandEnds
