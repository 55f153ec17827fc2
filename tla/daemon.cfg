CONSTANTS
    Calls = {c1, c2}
    Main = Main
    Idle = Idle
    None = None
    Configurations <- MCConfigurations
SPECIFICATION FairSpec
CHECK_DEADLOCK FALSE
INVARIANT DaemonTypeOK
INVARIANT FinalizedIsLeft
INVARIANT NothingDeletedIsUsed
PROPERTY FinishEnds
