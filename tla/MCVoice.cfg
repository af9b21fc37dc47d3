SPECIFICATION FairSpec
CONSTANTS
    Slots = {1, 2}
    Senders = {1}
    Owners = {o1, o2}
    MaxConnections = 3
    None = None
INVARIANTS
    RestorationIsOwed
PROPERTIES
    MuteHolds
    VoiceSettles
