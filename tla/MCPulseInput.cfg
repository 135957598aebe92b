SPECIFICATION Spec
CONSTANTS
    M = 8
    Delays <- MCDelays
    MaxTicks = 11
    MaxInits = 2
    Filter = 2
    Garbage <- MCGarbage
INVARIANTS TypeOK TimeoutOnTime PulseMeasured
CHECK_DEADLOCK FALSE
