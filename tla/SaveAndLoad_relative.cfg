CONSTANTS
    Main <- MCMain
    Library <- MCLibrary
    Sources <- MCSources
    MaxDepth = 3
SPECIFICATION Spec
INVARIANTS RelativeRoundTrip
CHECK_DEADLOCK FALSE
