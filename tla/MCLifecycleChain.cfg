SPECIFICATION FairSpec
CONSTANTS
    N = 3
    Files <- ChainFiles
    Names = {}
    Commands = {}
    Services = {}
    FaultLimit = 1
    MaxDepth = 0
    Damage = {}
    Absent = Absent
    Broken = Broken
    None = None
INVARIANTS
    DependenciesHold
PROPERTIES
    UnloadAllReachesAll
