SPECIFICATION SessionsSpec
CONSTANTS
    Steps <- MCSteps
    InitialDelay = 2
    SettleDelay = 1
    MotionTimeout = 2
    VentTimeout = 2
    VentObserve = 1
    ExitGrace = 1
    MaxSpace = 2
    MaxQuit = 2
    MaxFailures = 1
    Targets <- MCTargets
    Attempts = 2
    MaxFails = 2
    Sequence <- MCSequence
    Tries = 2
    MaxMisses = 2
INVARIANTS MeasuresWhatItNames RecordingEnds AnalysedIsRecorded
PROPERTIES StepsAreReal CancelSticks EndsOnceStarted
CHECK_DEADLOCK FALSE
