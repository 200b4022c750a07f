\* Two databases, two jobs at a time, connection objects that come back.
SPECIFICATION Spec
CONSTANTS
    h1 = h1
    h2 = h2
    j1 = j1
    j2 = j2
    Databases = {app, other}
    Primary = app
    Handles = {h1, h2}
    NoHandle = NoHandle
    Jobs = {j1, j2}
    Strategies = {"perdb", "lazy"}
    MaxRequests = 5
INVARIANTS
    TypeOK
    FenceIsExact
    SessionOwned
    MarkerHasOneOwner
SYMMETRY Symmetry
CHECK_DEADLOCK FALSE
