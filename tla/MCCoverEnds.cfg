SPECIFICATION FairSpec
CONSTANTS
    MaxPos = 2
    HalfPos = 2
    GotoTargets = {1}
    Tol = 0
    SettleTicks = 1
    ReverseTicks = 2
    IntervalTicks = 1
    GotoTicks = 3
    MaxControls = 1
    MaxRemote = 1
    MaxLpResets = 1
PROPERTIES
    GotoEnds
