CONSTANTS
    Origins = {"outgoing"}
    Services = {"VOICE", "FAXG3"}
    Overlap = FALSE
    PutMayFail = FALSE
    QueueBound = 3
SPECIFICATION FairSpec
CHECK_DEADLOCK FALSE
PROPERTY HangupNoticed
