SPECIFICATION Spec
CONSTANTS
    MaxArms = 1
    MaxSessions = 2
    MaxResets = 1
PROPERTIES
    SurvivesHpDeath
CHECK_DEADLOCK FALSE
