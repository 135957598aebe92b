SPECIFICATION FairSpec
CONSTANTS
    DRValues <- MCDRValues
    Chars <- MCChars
    SRWrites <- AnySRWrite
    CR1Writes <- MCCR1Writes
    MaxOut = 3
INVARIANTS TypeOK IrqTracksFlags OverrunReported TransmitHasTimer
PROPERTIES TxIsFifo ParkedLeaves RxReopens
CHECK_DEADLOCK FALSE
