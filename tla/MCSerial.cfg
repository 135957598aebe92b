SPECIFICATION SerialFairSpec
CONSTANTS
    DRValues = {65, 66}
    Chars = {7}
    SRWrites = {}
    CR1Writes <- MCCR1Writes
    MaxOut = 100
    Text <- MCText
    IndexMod = 4
    MaxCalls = 3
    MaxResets = 2
INVARIANTS NoAbort PrintsText
PROPERTY PrintlnReturns
CHECK_DEADLOCK FALSE
