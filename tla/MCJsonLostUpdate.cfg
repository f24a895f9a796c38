SPECIFICATION Spec
CONSTANTS
    MaxValue = 1
    CounterIds = {c1}
    UserIds = {u1}
    ArticleIds = {a1}
    Catalog = {a1}
    Workers = {w1, w2}
    MaxCommands = 4
    Faults = FALSE
    a1 = a1
    c1 = c1
    u1 = u1
    w1 = w1
    w2 = w2
SYMMETRY WorkerSymmetry
INVARIANTS
    AcknowledgedSurvive
CHECK_DEADLOCK FALSE
