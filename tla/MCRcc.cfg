SPECIFICATION FairSpec
CONSTANTS
    N = 25
    input <- init_input
    output <- init_output
    osc_freq = 8000000
    osc32_freq = 32768
    CFGRWrites <- MCCFGRWrites
    CRWrites <- MCCRWrites
    APB1Writes = {22}
    APB2Writes = {15}
    BRRWrites = {62500}
INVARIANTS TypeOK TreeConsistent ClocksFollowRegisters UsersFollowClocks NoTrap
PROPERTIES WriteEnds
CHECK_DEADLOCK FALSE
