SPECIFICATION FairSpec
CONSTANTS
    Inputs <- MCInputs
    Wired <- MCWired
    MaxChanges = 2
    MaxCalls = 4
    MaxResets = 1
INVARIANTS TypeOK CacheFresh OneDriver
PROPERTIES PendingServed
CHECK_DEADLOCK FALSE
