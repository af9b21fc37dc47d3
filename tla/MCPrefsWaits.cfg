SPECIFICATION FairSpec
CONSTANTS
    N = 1
    Clients = {1}
    Cookies = {c1}
    Capacity = 2
    MaxAccounts = 1
    MaxConnections = 1
    MaxWrites = 1
    MaxWaits = 1
    FaultLimit = 1
    None = None
PROPERTIES
    CacheWaitsEnd
