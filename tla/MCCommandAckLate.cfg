SPECIFICATION Spec
CONSTANTS
    MaxSends = 1
    MaxSessions = 2
    MaxHpResets = 1
    MaxLpResets = 0
    PreemptSend = FALSE
    LpIsPrompt = TRUE
INVARIANTS
    AckIsOfTheSession
CHECK_DEADLOCK FALSE
