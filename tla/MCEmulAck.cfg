SPECIFICATION FairSpec
CONSTANTS
    Outputs = {0}
    Events = {65}
    AckedEvents = {65}
    MonitorMsgs <- MCMonitorMsgs
    ReadSizes <- WholeReads
    QueueLimit = 3
    SockCap = 1
    MaxPosts = 3
    MaxMsgs = 2
    Faults <- NoFaults
INVARIANTS AckMeansDelivered ButtonsSettle
PROPERTIES PostReturns WakeupDrains
CHECK_DEADLOCK FALSE
