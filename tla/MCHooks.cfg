SPECIFICATION MCSpec
CONSTANTS
    Plugins = {o1}
    Targets = {t1, t2}
    RegIds = {r1, r2}
    CallIds = {c1}
    Capacity = 1
    MaxDepth = 2
    MaxNesting = 3
    Accounts = {a1, a2}
    Seats = {p1, p2}
    GroupFiles <- OneGroups
    AdminFiles <- TwoAdmins
    Within <- FirstWithinSecond
    MaxConnection = 3
    a1 = a1
    a2 = a2
    Console = Console
    Absent = Absent
    Garbage = Garbage
    Nothing = Nothing
SYMMETRY Symmetry
INVARIANTS
    HooksStay
PROPERTIES
    AuthorityHolds
CHECK_DEADLOCK FALSE
