SPECIFICATION Spec
CONSTANTS
    Projectors = {p1, p2}
    KeyValueStores = {"waits", "at once"}
    Limit = 2
    MaxEvents = 3
    MaxFaults = 2
    p1 = p1
    p2 = p2
INVARIANTS
    CheckpointFaithful
PROPERTIES
    SavesInOrder
    CatchesUp
CHECK_DEADLOCK FALSE
