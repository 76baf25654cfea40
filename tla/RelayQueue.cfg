SPECIFICATION FairSystemSpec
CONSTANTS
    Nodes = {a1, k1, k2}
    Agents = {a1}
    Clis = {k1, k2}
    Ids = {k1, k2}
    Handled = {k1, k2}
    Conns = {c1, c2, c3}
    Incompatible = {}
    None = None
    MaxFrames = 2
    Interval = 1
    Slack = 0
    QueueCap = 1
    MaxFailures = 0
PROPERTY Answered
CHECK_DEADLOCK FALSE
