SPECIFICATION Spec
CONSTANTS
    Callers = {c1, c2}
    Repositories = {r1}
    AggregateIds = {a1}
    Preemptive = TRUE
    MaxEvents = 3
    MaxPending = 2
    c1 = c1
    c2 = c2
    r1 = r1
    a1 = a1
SYMMETRY RepositorySymmetry
INVARIANTS
    StableOrder
CHECK_DEADLOCK FALSE
