\* Two servers, one app, expiring requests, every failure and crash.
SPECIFICATION Spec
CONSTANTS
    c1 = c1
    c2 = c2
    s1 = s1
    s2 = s2
    p1 = p1
    p2 = p2
    GUIs = {g1}
    Servers = {s1, s2}
    Calls = {c1, c2}
    ServerOf <- MCTwoServers
    Ids = {i1, i2}
    Plans = {p1}
    PlansOf <- MCPlansOfSame
    RequestTool = request_execution
    Governances <- MCAskOnly
    TTL = 1
    MaxTime = 1
    NoId = NoId
    NoCall = NoCall
    NoPlan = NoPlan
INVARIANTS
    TypeOK
    OneRunPerApproval
    GrantExclusive
    RejectedNeverRuns
    RejectionIsAudited
PROPERTIES
    DecisionIsFinal
    RefinesApprovalSpec
SYMMETRY Symmetry
