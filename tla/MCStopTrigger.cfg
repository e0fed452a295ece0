SPECIFICATION FairSpec
CONSTANTS
    MaxArms = 2
    MaxSessions = 2
    MaxResets = 1
PROPERTIES
    PressedInForce
    PressedOnce
    Served
CHECK_DEADLOCK FALSE
