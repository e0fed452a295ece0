SPECIFICATION FairSpec
CONSTANTS
    Heard <- MCHeard
    Asked = {"open", "close"}
    CommandTicks = 0
    MovingTicks = 0
    BroadcastTicks = 0
    AllowClose = TRUE
    AllowImpulse = FALSE
    UseRawStop = FALSE
    MaxCalls = 2
PROPERTIES
    OneFate
    ObstructionHolds
    Settles
    Told
