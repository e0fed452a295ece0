SPECIFICATION Spec
CONSTANTS
    Byte = 2
    Sync = 2
    Depth = 2
    FrameLen = 2
    ReplyLen = 3
    Cap = 4
    Delay = 3
    Loop = 2
    Deadline = 18
    Gap = 6
    MaxWrites = 2
    MaxFaults = 1
INVARIANTS TypeOK DriverLowIsExact WholeReply LatencyIsTheFirmwares
CHECK_DEADLOCK FALSE
