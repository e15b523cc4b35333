SPECIFICATION Spec
CONSTANTS
    d1 = d1  r1 = r1
    Dirs = {d1}
    Rooms = {r1}
    RoomOf <- OneRoom
    c1 = c1  c2 = c2
    Calls = {c1, c2}
    HasToken = TRUE
    Threshold = 2
    Capacity = 1
    MaxFaults = 1
    None = None
INVARIANTS
    TypeOK
    ListedIsRecent
PROPERTY BotsAreKnown
