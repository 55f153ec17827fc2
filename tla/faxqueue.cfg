CONSTANTS
    Clients = {c1, c2}
    Idle = Idle
    Documents = {d1, d2}
    MaxJob = 2
    Inodes <- MCInodes
    None = None
    Truncated = Truncated
    MaxTries = 2
    MaxCrashes = 1
    MaxErrors = 1
    ErrorLimit = 2
    Configurations <- MCApart
SPECIFICATION FairSpec
CHECK_DEADLOCK FALSE
INVARIANT QueueTypeOK
INVARIANT SendsItsJob
INVARIANT TriesAreLimited
INVARIANT SentOnce
PROPERTY ImplementsJobLife
PROPERTY JobLeavesQueue
