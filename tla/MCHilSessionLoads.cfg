SPECIFICATION Spec
CONSTANTS
    NLoads = 2
    Repeat = 2
    MaxPresses = 1
    Answers <- MCAnswers
INVARIANT LoadsTerminated
CHECK_DEADLOCK FALSE
