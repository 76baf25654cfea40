SPECIFICATION Spec
CONSTANTS
    d1 = d1
    d2 = d2
    Devices = {d1, d2}
    Sessions = {s1, s2}
    From <- MCFrom
    To <- MCTo
    MaxHistory = 1
    Files = 2
    MaxCalls = 3
    None = None
SYMMETRY SessionSymmetry
INVARIANTS
    SessionTypeOK
    LiveOrOver
    UploadNeedsConsent
    CompletedIsSent
    EngineHeldBySender
PROPERTY ProceedsOnce
CHECK_DEADLOCK FALSE
