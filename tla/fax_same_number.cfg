CONSTANTS
    Clients = {c1, c2, c3}
    Idle = Idle
    Documents = {d1, d2, d3}
    MaxJob = 3
    Inodes <- MCInodes
    None = None
    Truncated = Truncated
    MaxTries = 1
    MaxCrashes = 1
    MaxErrors = 1
    ErrorLimit = 1
    Configurations <- MCOverlapping
SPECIFICATION Spec
CHECK_DEADLOCK FALSE
INVARIANT NumbersDiffer
