SPECIFICATION SystemSpec
CONSTANTS
    Nodes = {a1, k1}
    Agents = {a1}
    Clis = {k1}
    Ids = {k1}
    Handled = {k1}
    Conns = {c1, c2}
    Incompatible = {}
    None = None
    MaxFrames = 1
    Interval = 1
    Slack = 0
    QueueCap = 1
    MaxFailures = 1
INVARIANT LiveNodeReachable
SYMMETRY ConnSymmetry
CHECK_DEADLOCK FALSE
