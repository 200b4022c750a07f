\* Three events of two threads over a channel of one place; the sink may hang.
SPECIFICATION FairSpec
CONSTANTS
    e1 = e1
    e2 = e2
    e3 = e3
    Emitters = {m1, m2}
    Events = {e1, e2, e3}
    LevelOf <- MCThreeLevels
    Thresholds = {2, 4}
    Capacity = 1
    Width = 2
    NoEvent = NoEvent
INVARIANTS
    TypeOK
    DropsAccounted
    InFlightAgrees
    LossIsLast
PROPERTIES
    ShutdownReturns
    DrainEnds
CHECK_DEADLOCK FALSE
