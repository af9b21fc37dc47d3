SPECIFICATION Spec
CONSTANTS
    N = 2
    Files <- PairFiles
    Names = {command, event}
    Commands = {command}
    Services = {event}
    FaultLimit = 2
    MaxDepth = 2
    Damage = {Broken}
    Absent = Absent
    Broken = Broken
    None = None
INVARIANTS
    CleanupIsSound
    PauseSurvivesReload
