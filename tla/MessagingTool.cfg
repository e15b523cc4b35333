SPECIFICATION Spec
CONSTANTS
    u1 = u1  b = b
    r1 = r1
    c1 = c1  c2 = c2
    Rooms = {r1}
    Users = {u1}
    Default = u1
    Bridge = b
    d1 = d1
    Dirs = {d1}
    Project <- Names
    SessionUser <- Sessions
    ClaudeUser <- NoSessions
    ProjectDir = None
    Pwd = None
    Public = {}
    Administered = {r1}
    Calls = {c1, c2}
    MaxFaults = 1
    None = None
INVARIANTS
    TypeOK
    SentOnce
PROPERTY BridgeHears
