SPECIFICATION Spec
CONSTANTS
    Outputs = {3}
    Events = {65}
    AckedEvents = {65}
    MonitorMsgs <- NoMsgs
    ReadSizes <- AnyRead
    QueueLimit = 1
    SockCap = 1
    MaxPosts = 4
    MaxMsgs = 0
    Faults <- AllFaults
INVARIANTS TypeOK SizeMatches QueueBound
PROPERTY GatewayIsFifo
CHECK_DEADLOCK FALSE
