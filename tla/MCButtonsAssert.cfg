SPECIFICATION Spec
CONSTANTS
    Inputs <- OneInput
    Wired <- OneInput
    MaxChanges = 1
    MaxCalls = 2
    MaxResets = 0
INVARIANT CallbackRegistered
CHECK_DEADLOCK FALSE
