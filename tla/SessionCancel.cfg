SPECIFICATION Spec
CONSTANTS
    d1 = d1
    d2 = d2
    Devices = {d1, d2}
    Sessions = {s1}
    From <- MCFrom
    To <- MCTo
    MaxHistory = 1
    Files = 2
    MaxCalls = 3
    None = None
INVARIANT CancelReachesUpload
CHECK_DEADLOCK FALSE
