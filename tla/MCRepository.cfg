SPECIFICATION Spec
CONSTANTS
    Callers = {c1, c2}
    Repositories = {r1, r2}
    AggregateIds = {a1}
    Preemptive = FALSE
    MaxEvents = 4
    MaxPending = 2
    c1 = c1
    c2 = c2
    r1 = r1
    r2 = r2
    a1 = a1
SYMMETRY RepositorySymmetry
INVARIANTS
    StableOrder
    CopiesAreHistory
    EventsStoredOnce
PROPERTIES
    SavesAreAtomic
CHECK_DEADLOCK FALSE
