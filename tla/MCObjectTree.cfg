\* The list of databases, the schema of one and the details of its table.
SPECIFICATION FairSpec
CONSTANTS
    app = app
    Databases = {app}
    NoDatabase = NoDatabase
    MaxRequests = 8
INVARIANTS
    TypeOK
    WaitersAgree
    SpinnerHasAttempt
    NoStrayMark
PROPERTIES
    RefreshOutlivesAttempt
    NeverSticks
CHECK_DEADLOCK FALSE
