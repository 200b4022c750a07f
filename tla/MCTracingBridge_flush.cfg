\* An event sent just before shutdown().
SPECIFICATION Spec
CONSTANTS
    e1 = e1
    e2 = e2
    e3 = e3
    Emitters = {m1, m2}
    Events = {e1, e2}
    LevelOf <- MCTwoLevels
    Thresholds = {2, 4}
    Capacity = 1
    Width = 2
    NoEvent = NoEvent
INVARIANTS
    ShutdownFlushes
CHECK_DEADLOCK FALSE
