SPECIFICATION Spec
CONSTANTS
    Lines <- MCLines
    MaskedSWIER = {5}
INVARIANTS TypeOK IrqMeansPending OwnInputRaised SwierRearmed
CHECK_DEADLOCK FALSE
