CONSTANTS
    Origins = {"incoming", "outgoing"}
    Services = {"VOICE", "FAXG3"}
    Overlap = FALSE
    PutMayFail = FALSE
    QueueBound = 3
SPECIFICATION FairSpec
CHECK_DEADLOCK FALSE
PROPERTY DownIsFinal
PROPERTY LogicalOnlyKeepsLine
PROPERTY ImplementsCallState
PROPERTY IncomingHangupNoticed
PROPERTY DisconnectClears
