SPECIFICATION Spec
CONSTANTS
    Pins <- MCPins
    BSRRValues <- SetAndReset
INVARIANTS TypeOK OutputsFollowODR
