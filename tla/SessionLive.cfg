SPECIFICATION FairSpec
CONSTANTS
    d1 = d1
    d2 = d2
    Devices = {d1, d2}
    Sessions = {s1, s2}
    From <- MCFrom
    To <- MCTo
    MaxHistory = 0
    Files = 1
    MaxCalls = 2
    None = None
PROPERTIES
    RequestEnds
    CancelTakesEffect
CHECK_DEADLOCK FALSE
