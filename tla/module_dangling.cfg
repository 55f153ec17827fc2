CONSTANTS
    Configurations <- MCOrderly
    SilenceLimit = 2
    MaxPackets = 4
    MaxDigits = 2
SPECIFICATION Spec
CHECK_DEADLOCK FALSE
INVARIANT CallbacksReachModules
