SPECIFICATION FairSpec
CONSTANTS
    N = 2
    Clients = {1}
    Cookies = {c1}
    Capacity = 2
    MaxAccounts = 2
    MaxConnections = 1
    MaxWrites = 2
    MaxWaits = 1
    FaultLimit = 1
    None = None
INVARIANTS
    AcceptedIsKept
    CacheIsCurrent
PROPERTIES
    WritesLand
