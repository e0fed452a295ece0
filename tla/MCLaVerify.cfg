SPECIFICATION Spec
CONSTANTS
    Counters = 3
    Polls = 4
    Cycle = 12
    MaxDeHigh = 5
    ReSkew = 1
    MaxIgnore = 10
INVARIANTS TypeOK CleanCapturePasses FaultIsFound PairsAreReal AllMeasured
CHECK_DEADLOCK FALSE
