SPECIFICATION ControlFair
CONSTANTS
    Options <- DefaultOptions
    OthersSample = FALSE
    MaxAdjust = 1
    MaxResets = 1
PROPERTY LoopTakesSamples
CHECK_DEADLOCK FALSE
