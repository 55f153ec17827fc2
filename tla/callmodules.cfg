CONSTANTS
    Configurations <- MCConfigurations
    SilenceLimit = 2
    MaxPackets = 4
    MaxDigits = 2
SPECIFICATION FairSpec
CHECK_DEADLOCK FALSE
INVARIANT ModulesTypeOK
INVARIANT FilesAreClosed
INVARIANT DigitsAreKept
PROPERTY CutsSilence
PROPERTY DisconnectedIsDown
PROPERTY DownEndsCommand
PROPERTY DisconnectEnds
PROPERTY TimeoutEndsCall
