SPECIFICATION FairSpec
CONSTANTS
    Outputs = {0}
    Events = {65}
    AckedEvents = {65}
    MonitorMsgs <- NoMsgs
    ReadSizes <- WholeReads
    QueueLimit = 3
    SockCap = 1
    MaxPosts = 2
    MaxMsgs = 0
    Faults <- NoFaults
PROPERTY EventConfirmed
CHECK_DEADLOCK FALSE
