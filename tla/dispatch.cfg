CONSTANTS
    Calls = {c1, c2}
    Plcis = {1, 2}
    None = None
    MaxNumber = 2
    BaseNumber <- MCBaseNumber
    Extensions <- MCExtensions
    Configurations <- MCConfigurations
SPECIFICATION FairSpec
CHECK_DEADLOCK FALSE
INVARIANT DispatchTypeOK
INVARIANT ReachesItsConnection
INVARIANT OneScriptPerCall
INVARIANT NoUseAfterDelete
PROPERTY CallIsDeleted
PROPERTY LongNumberIsServed
