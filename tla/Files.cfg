SPECIFICATION FilesSpec
CONSTANTS
    u1 = u1
    u2 = u2
    Uploads = {u1, u2}
    Parallel = {u2}
    Sizes <- MCSizes
    NumStreams = 2
    BufBlocks = 2
    MaxFaults = 1
    None = None
    Hole = Hole
    Junk = Junk
    t1 = t1
    t2 = t2
    f1 = f1
    here = here
    Devices = {here}
    Sessions = {t1, t2}
    MaxHistory = 1
    Source <- MCSource
    Contents = {"c1", "c2"}
    Reasons <- MCReasons
    MaxEdits = 1
    MaxUserCalls = 1
    NChunks = 3
    StartWindow = 2
    MaxWindow = 3
    MAX_RETRIES = 2
    BPRES_INTERVAL = 2
    MaxTimeouts = 2
    QuicTasks = {z1, z2, z3}
    QuicChunks = 3
    ResumeAt = 1
    WindowMax = 1
    BodyBlocks = 2
    IdleTicks = 2
    MaxTicks = 3
    MaxPeerFrames = 1
    TotalSize = 3
    ExpectedSizes = {1, 2, 3, 4}
    Attempts = 2
    InitialCwnd <- MCInitialCwnd
    MinCwnd = 1
    UdpStreams = 2
    m1 = m1
    m2 = m2
    k1 = k1
    k2 = k2
    Phones = {m1, m2}
    Calls = {k1, k2}
    CallTo <- MCCallTo
    FramePieces = 2
    MaxTunnels = 3
    NoTunnel = NoTunnel
    NoCall = NoCall
    d1 = d1
    d2 = d2
    d3 = d3
    d4 = d4
    d5 = d5
    d6 = d6
    g1 = g1
    g2 = g2
    Commands = {d1, d2, d3, d4, d5, d6}
    CommandKind <- MCCommandKind
    Programs = {g1, g2}
    ProgramOf <- MCProgramOf
    MaxSessions = 2
    MaxLaunches = 2
    Torn = Torn
    e1 = e1
    e2 = e2
    Cmds = {e1, e2}
    Dashboard = {e1}
    KindsOf <- MCKindsOf
    Empty = Empty
    MaxBreaks = 1
INVARIANTS
    FilesTypeOK
    StoredIsInFile
    SuccessIsReceived
    RecordsAgree
    
    ReturnedIsWhole
    InFlightCount
    InFlightWithinWindow
    FramesAreWhole
PROPERTY FileIsAtomic
CHECK_DEADLOCK FALSE
