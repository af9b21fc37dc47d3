SPECIFICATION MCSpec
CONSTANTS
    p1 = p1
    p2 = p2
    r1 = r1
    r2 = r2
    e1 = e1
    Scripts = {p1, p2}
    Natives = {r1, r2}
    Exts = {e1}
    ExtOf <- OneService
    Uses <- BothUsed
    Quota = 2
    Depth = 2
    FaultLimit = 2
    MaxTokens = 2
    MaxResources = 1
    MaxStack = 4
    Objects = {o1, o2, o3}
    Numbers = {h1, h2}
    CountLimit = 2
    HoldLimit = 1
    MaxNesting = 2
    None = None
INVARIANTS
    Anchored
    ResourcesKept
PROPERTIES
    SpentNeverRuns
