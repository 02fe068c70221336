CONSTANTS
    Main <- MCMain
    Library <- MCLibrary
    Sources <- MCSources
    MaxDepth = 3
SPECIFICATION Spec
INVARIANTS
    FullRoundTrip
    ValuesFit
    IndexExact
    FatalJustified
CHECK_DEADLOCK FALSE
