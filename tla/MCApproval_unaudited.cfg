\* An approval whose audit record fails still authorizes its call.
SPECIFICATION Spec
CONSTANTS
    c1 = c1
    c2 = c2
    s1 = s1
    s2 = s2
    p1 = p1
    p2 = p2
    GUIs = {g1}
    Servers = {s1}
    Calls = {c1, c2}
    ServerOf <- MCOneServer
    Ids = {i1}
    Plans = {p1}
    PlansOf <- MCPlansOfSame
    RequestTool = request_execution
    Governances <- MCAskOnly
    TTL = 1
    MaxTime = 1
    NoId = NoId
    NoCall = NoCall
    NoPlan = NoPlan
INVARIANT ApprovedRunIsAudited
