CONSTANTS
    Calls = {c1, c2}
    Plcis = {1, 2}
    None = None
    MaxNumber = 2
    BaseNumber <- MCBaseNumber
    Extensions <- MCExtensions
    Configurations <- MCDefaultStop
SPECIFICATION Spec
CHECK_DEADLOCK FALSE
INVARIANT OneScript
