SPECIFICATION Spec
CONSTANTS
    Heard <- MCHeard
    Asked = {"close"}
    CommandTicks = 0
    MovingTicks = 0
    BroadcastTicks = 1
    AllowClose = TRUE
    AllowImpulse = FALSE
    UseRawStop = FALSE
    MaxCalls = 1
PROPERTY
    FallbackHeardMoving
