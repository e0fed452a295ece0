SPECIFICATION FairSpec
CONSTANTS
    MaxSends = 2
    MaxSessions = 2
    MaxHpResets = 1
    MaxLpResets = 1
    PreemptSend = FALSE
    LpIsPrompt = TRUE
PROPERTIES
    Answered
CHECK_DEADLOCK FALSE
