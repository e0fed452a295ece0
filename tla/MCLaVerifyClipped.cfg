SPECIFICATION Spec
CONSTANTS
    Counters = 3
    Polls = 4
    Cycle = 12
    MaxDeHigh = 5
    ReSkew = 1
    MaxIgnore = 10
INVARIANT ClippedIsTolerated
CHECK_DEADLOCK FALSE
