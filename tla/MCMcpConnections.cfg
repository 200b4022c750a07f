\* Two calls, one disconnect and the end of the server, over two keys.
SPECIFICATION FairSpec
CONSTANTS
    p1 = p1
    base = base
    variant = variant
    c1 = c1
    c2 = c2
    Profiles = {p1}
    Keys = {base, variant}
    ProfileOf <- MCProfileOf
    Calls = {c1, c2}
    Asked <- MCAsked
    Discs = {d1}
    Told <- MCTold
    Main = Main
    Nobody = Nobody
INVARIANTS
    TypeOK
    ConnectionAccounted
    DispatchedOnce
    ShutdownHasClaimant
    SetupExclusive
    ProcessesOwned
PROPERTIES
    NoneLeftBehind
    ShutdownReturns
CHECK_DEADLOCK FALSE
