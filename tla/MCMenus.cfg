SPECIFICATION FairSpec
CONSTANTS
    m1 = m1
    p1 = p1
    Slots = {1, 2}
    Scripts = {p1}
    Menus = {m1}
    OwnerOf <- OneScript
    Exts = {e1}
    MaxConnections = 2
    MaxSessions = 3
    None = None
INVARIANTS
    MenusAccounted
    ChosenOnceByViewer
PROPERTIES
    ClosedMenusLeave
