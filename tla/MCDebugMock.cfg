SPECIFICATION FairSpec
CONSTANTS
    Clients = {c1, c2}
    None = None
    RecentCap = 2
    MaxBatches = 3
    MaxOps = 1
INVARIANTS TypeOK OneFeed RecentIsTheTail GapNeedsTakeover FailShowsCause
PROPERTIES ReplacedLeaves LostFreesThePlace
CHECK_DEADLOCK FALSE
