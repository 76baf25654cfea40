SPECIFICATION DevicesSpec
CONSTANTS
    Options <- MCOptions
    OthersSample = TRUE
    MaxAdjust = 2
    MaxResets = 1
    Nodes = {a, b}
    p1 = p1
    p2 = p2
    RequestIds = {p1, p2}
    TTL = 1
    MaxRestarts = 1
    MaxBlocks = 1
    NoPrint = NoPrint
    Stations = {s1, s2, s3}
    me = s1
    NoUuid = {s2}
    ZeroId = zero
    LongNames = {s3}
    Expiry = 1
    MaxStarts = 2
    b1 = b1
    b2 = b2
    r1 = r1
    r2 = r2
    Transfers = {b1, b2}
    Requests = {r1, r2}
    Owner <- MCOwner
    NoTransfer = NoTransfer
    NoRequest = NoRequest
    MaxTaken = 1
    CpuCount = 2
    Throughputs = {0, 1}
    ScoreLevels = {0, 6, 60}
    MaxCycles = 4
    NoOverride = NoOverride
    Overrides = {NoOverride, "Quic"}
    q1 = q1
    q2 = q2
    q3 = q3
    q4 = q4
    q5 = q5
    q6 = q6
    Shares = {q1, q2, q3, q4, q5, q6}
    ShareKind <- MCShareKind
    TmpName <- MCTmpName
    Blocks = 2
    NoNode = NoNode
    NoBlock = NoBlock
    j1 = j1
    j2 = j2
    j3 = j3
    Jobs = {j1, j2, j3}
    JobKind <- MCJobKind
    Chunks = 1
    MaxPending = 1
    NoJob = NoJob
    c1 = c1
    c2 = c2
    c3 = c3
    c4 = c4
    i1 = i1
    i2 = i2
    Callers = {c1, c2, c3, c4}
    SessionOf <- MCSessionOf
    NoCaller = NoCaller
    o1 = o1
    o2 = o2
    w1 = w1
    w2 = w2
    h1 = h1
    Offers = {o1, o2}
    OfferHost <- MCOfferHost
    Sends = {w1, w2}
    Texts = {w2}
    Parts = 2
    MAX_TRIES = 2
    MaxRecords = 1
    MaxToggles = 1
    maxRetries = 2
    Hosts = {n1}
    NoHost = NoHost
    MaxProcesses = 4
    MaxChecks = 2
    MaxDue = 2
    Urls = {x1, x2}
    Machines = {y1}
    Androids = {y1}
    NoMachine = NoMachine
    DialPorts = 2
    MaxScans = 2
    MaxDials = 1
    Picks = {v1, v2}
    Gadgets = {z1}
    NoGadget = NoGadget
    MaxSendings = 3
    l3 = l3
    Runs = {l1, l2, l3}
    NoRun = NoRun
    NoKey = NoKey
    MaxVisitors = 1
INVARIANTS
    DevicesTypeOK
    ConsentIsGiven
    DevicesCoverPeers
    SwitchesHaveOwners
    ReportIsComplete
    CfgInRange
    LeftoversAreKnown
    CompletedUploadWasSent
    WorkHasKnownOwner
    PipesArePairs
PROPERTY BackOffNeverSpeedsUp
CHECK_DEADLOCK FALSE
