CONSTANTS
    conf_send_buffers = 4
    BlockSize = 2
    Lengths = {0, 4, 11}
    Overlap = TRUE
    PutMayFail = TRUE
    ConfMayFail = TRUE
SPECIFICATION Spec
CHECK_DEADLOCK FALSE
INVARIANT FileTypeOK
INVARIANT NextBufferIsFree
PROPERTY StoppedMeansUnused
