CONSTANTS
    Origins = {"incoming", "outgoing"}
    Services = {"VOICE", "FAXG3"}
    Overlap = TRUE
    PutMayFail = TRUE
    QueueBound = 3
SPECIFICATION Spec
CHECK_DEADLOCK FALSE
INVARIANT ConnectionTypeOK
INVARIANT DownIsReal
INVARIANT UpIsReal
PROPERTY CallbackOrder
