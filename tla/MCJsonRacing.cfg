SPECIFICATION Spec
CONSTANTS
    MaxValue = 2
    CounterIds = {c1}
    UserIds = {}
    ArticleIds = {a1}
    Catalog = {a1}
    Workers = {w1, w2}
    MaxCommands = 5
    Faults = TRUE
    a1 = a1
    c1 = c1
    w1 = w1
    w2 = w2
SYMMETRY WorkerSymmetry
INVARIANTS
    LogIsOrderly
    AnyLogReplays
CHECK_DEADLOCK FALSE
