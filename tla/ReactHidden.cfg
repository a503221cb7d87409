SPECIFICATION Spec
CHECK_DEADLOCK FALSE
CONSTANTS
    Params = {p1, p2}
    Data = {d1, d2}
    Null = null
    FirstParams = p1
    Servers <- MCServers
    p1 = p1
    p2 = p2
    d1 = d1
    d2 = d2
    MaxRequests = 3
    MaxRenders = 2
    MaxToggles = 3
    MaxWrites = 1
INVARIANTS
    ShownIsSubscribed
