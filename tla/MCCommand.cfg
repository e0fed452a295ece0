SPECIFICATION Spec
CONSTANTS
    MaxSends = 2
    MaxSessions = 3
    MaxHpResets = 1
    MaxLpResets = 1
    PreemptSend = TRUE
    LpIsPrompt = FALSE
INVARIANTS
    ExecutedMeansPressed
PROPERTIES
    PressedInOrder
    ImplementsService
    OldCommandsIgnored
CHECK_DEADLOCK FALSE
