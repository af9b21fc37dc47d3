SPECIFICATION FairSpec
CONSTANTS
    Jobs = {j1, j2, j3}
    Workers = {w1, w2}
    Capacity = 2
    None = None
INVARIANTS
    EachJobInOnePlace
    ReadyIsSound
    ClosuresAccounted
PROPERTIES
    ImplementsContract
    NoLostWakeup
CHECK_DEADLOCK FALSE
