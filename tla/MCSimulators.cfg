SPECIFICATION SimulatorsSpec
CONSTANTS
    PositionOpen = 5
    HalfPosition = 2
    VentPosition = 1
    TravelStep = 1
    OvershootTicks = 2
    StopLatency = 1
    ReverseDwell = 2
    ObstructionCycle = 5
    ObstructionReverses = TRUE
    Cycles = 9
    SecondAction = 5
    GotoPosition = 3
    Threshold = 2
    BadFrames = 1
    Duplicate = TRUE
    FaultCycles = {4}
    ExpectedButtons <- MCExpected
    Scenarios <- MCScenarios
    ProfilesUsed = {"stop_then_reverse", "immediate_reverse", "ignore_until_stop"}
    MaxTrouble = 3
    SendFails = TRUE
    Byte = 2
    Sync = 2
    Depth = 2
    FrameLen = 2
    ReplyLen = 3
    Cap = 4
    Delay = 3
    Loop = 2
    Deadline = 18
    Gap = 6
    MaxWrites = 2
    MaxFaults = 1
INVARIANTS OkIsEarned PressesObeyed DriverLowIsExact WholeReply LatencyIsTheFirmwares
CHECK_DEADLOCK FALSE
