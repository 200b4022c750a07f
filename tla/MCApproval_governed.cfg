\* Two calls racing for the runtime guard of one server, equal or not, any
\* verdict.
SPECIFICATION FairSpec
CONSTANTS
    c1 = c1
    c2 = c2
    s1 = s1
    s2 = s2
    p1 = p1
    p2 = p2
    GUIs = {g1}
    Servers = {s1}
    Calls = {c1, c2}
    ServerOf <- MCOneServer
    Ids = {i1}
    Plans = {p1, p2}
    PlansOf <- MCPlansOfBoth
    RequestTool = request_execution
    Governances <- MCAnyVerdict
    TTL = 1
    MaxTime = 1
    NoId = NoId
    NoCall = NoCall
    NoPlan = NoPlan
INVARIANTS
    RunIsAudited
    GrantMatchesApproval
PROPERTIES
    CallReturns
