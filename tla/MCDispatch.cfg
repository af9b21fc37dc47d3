SPECIFICATION Spec
CONSTANTS
    Scripts = {s1, s2}
    Slots = {p1}
    Delays = {1}
    Limit = 2
    MaxFaults = 2
    MaxTime = 2
    MaxConnection = 1
    MaxOwner = 3
    MaxTimer = 2
    MaxFailed = 1
    None = None
SYMMETRY Symmetry
INVARIANTS
    TimersKeepTime
    RequestsAreWanted
PROPERTIES
    OnlyDueCallbacks
CHECK_DEADLOCK FALSE
