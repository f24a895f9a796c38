SPECIFICATION Spec
CONSTANTS
    Projectors = {p1, p2}
    KeyValueStores = {"waits"}
    Limit = 1
    MaxEvents = 2
    MaxFaults = 0
    p1 = p1
    p2 = p2
PROPERTIES
    SavesInOrderOverAny
CHECK_DEADLOCK FALSE
