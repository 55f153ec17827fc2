CONSTANTS
    conf_send_buffers = 4
    BlockSize = 2
    Lengths = {0, 4, 11}
    Overlap = FALSE
    PutMayFail = FALSE
    ConfMayFail = FALSE
SPECIFICATION FairSpec
CHECK_DEADLOCK FALSE
INVARIANT HandleIsValid
INVARIANT CompleteMeansHanded
PROPERTY DisconnectB3IndReturns
PROPERTY FileIsSent
