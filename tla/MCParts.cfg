SPECIFICATION MCSpec
CONSTANTS
    Owners = {o1, o2}
    Types = {t1, t2}
    MaxSlots = 2
    MaxGeneration = 2
    Accounts = {a1, a2}
    Terms = {b1, b2}
    MaxBans = 1
    Torn = Torn
    Garbage = Garbage
    Nothing = Nothing
    Addresses = {e1, e2}
    MaxEpoch = 2
    MaxPending = 1
    MaxNesting = 2
    Asked = {r1, r2}
    QueueLimit = 1
    HttpLimit = 1
    Threads = {w1, w2}
    NativeLimit = 1
    Plugins = {q1, q2}
    Named = {m1, m2}
    Loads = {1, 2, 3}
    Cells = {0, 1}
    x1 = x1
    x2 = x2
    p1 = p1
    p2 = p2
    n1 = n1
    n2 = n2
    n3 = n3
    Exts = {x1, x2}
    Scripts = {p1, p2}
    Natives = {n1, n2, n3}
    Stages <- CommonName
    Uses <- OneForEither
    MaxRefusals = 2
    Off = Off
    Bad = Bad
    a = a
    b = b
    MaxInputs = 3
    Queued = {k1, k2}
    Conns = {c1}
    Hosts = {h1, h2}
    BodyLimit = 1
    HeaderLimit = 1
    RedirectLimit = 2
    None = None
INVARIANTS
    StaleNeverResolves
    ValuesAccounted
    AnswersKept
    ConVarsOwned
    NothingDangles
    TruthIsTold
    TransfersKeep
PROPERTIES
    
    HooksAreSafe
    AllLeave
    SettingsSettle
    RequestsEnd
CHECK_DEADLOCK FALSE
