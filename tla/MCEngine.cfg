SPECIFICATION FairSpec
CONSTANTS
    HalfRange = 4
    PressTicks = 2
    DelayTicks = 1
    MaxLate = 1
    MaxQuiet = 1
    MaxPresses = 3
    MaxResets = 1
PROPERTIES
    Handshake
    PressInTime
    Completes
