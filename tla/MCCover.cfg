SPECIFICATION Spec
CONSTANTS
    MaxPos = 3
    HalfPos = 3
    GotoTargets = {1, 2}
    Tol = 0
    SettleTicks = 0
    ReverseTicks = 1
    IntervalTicks = 1
    GotoTicks = 2
    MaxControls = 3
    MaxRemote = 0
    MaxLpResets = 0
PROPERTIES
    TriggerIsTheGotos
    LastRequestWins
