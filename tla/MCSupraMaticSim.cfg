SPECIFICATION FairSpec
CONSTANTS
    PositionOpen = 5
    HalfPosition = 2
    VentPosition = 1
    TravelStep = 1
    OvershootTicks = 2
    StopLatency = 1
    ReverseDwell = 2
    ObstructionCycle = 5
    ObstructionReverses = TRUE
    Cycles = 9
    SecondAction = 5
    GotoPosition = 3
    Threshold = 2
    BadFrames = 1
    Duplicate = TRUE
    FaultCycles = {4}
    ExpectedButtons <- MCExpected
    Scenarios <- MCScenarios
    ProfilesUsed = {"stop_then_reverse", "immediate_reverse", "ignore_until_stop"}
    MaxTrouble = 3
    SendFails = TRUE
INVARIANTS TypeOK DoorInv SimInv OkIsEarned PressesObeyed CleanGotoPasses
PROPERTIES NeverTurnsAtOnce Ends
CHECK_DEADLOCK FALSE
