SPECIFICATION FairSystemSpec
CONSTANTS
    Nodes = {a1, k1}
    Agents = {a1}
    Clis = {k1}
    Ids = {k1}
    Handled = {k1}
    Conns = {c1, c2, c3}
    Incompatible = {}
    None = None
    MaxFrames = 2
    Interval = 3
    Slack = 1
    QueueCap = 1
    MaxFailures = 1
PROPERTIES
    HalfOpenDetected
    Answered
CHECK_DEADLOCK FALSE
