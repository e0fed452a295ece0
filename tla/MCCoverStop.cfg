SPECIFICATION FairSpec
CONSTANTS
    MaxPos = 3
    HalfPos = 2
    GotoTargets = {1}
    Tol = 0
    SettleTicks = 1
    ReverseTicks = 2
    IntervalTicks = 1
    GotoTicks = 3
    MaxControls = 2
    MaxRemote = 0
    MaxLpResets = 0
PROPERTIES
    StopIsPressed
CHECK_DEADLOCK FALSE
