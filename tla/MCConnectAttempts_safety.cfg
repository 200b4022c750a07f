\* Three attempts and a disconnect, both ways to connect.
SPECIFICATION FairSpec
CONSTANTS
    MaxAttempts = 3
    MaxDisconnects = 1
    Paths <- BothPaths
INVARIANTS
    TypeOK
    PendingHasOwner
    TasksSettle
    OneAttempt
    PostHooksSeeClosed
PROPERTY
    DisconnectProceeds
CHECK_DEADLOCK FALSE
