\* A cancelled attempt unwinds after the retry has begun.
SPECIFICATION Spec
CONSTANTS
    MaxAttempts = 2
    MaxDisconnects = 0
    Paths <- DirectPath
PROPERTY
    CancelledFinishIsNoOp
CHECK_DEADLOCK FALSE
