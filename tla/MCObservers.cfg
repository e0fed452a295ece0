SPECIFICATION ObserversSpec
CONSTANTS
    NLoads = 1
    Repeat = 2
    MaxPresses = 1
    Answers <- MCAnswers
    Counters = 2
    Polls = 3
    Cycle = 12
    MaxDeHigh = 5
    ReSkew = 1
    MaxIgnore = 10
    Clients = {c1, c2}
    NoClient = None
    RecentCap = 2
    MaxBatches = 3
    MaxOps = 1
INVARIANTS LoadsStopped ZeroMeansClean WorseIsNotBetter FaultIsFound PairsAreReal OneFeed GapNeedsTakeover FailShowsCause
CHECK_DEADLOCK FALSE
