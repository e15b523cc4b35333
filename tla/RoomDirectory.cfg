SPECIFICATION Spec
CONSTANTS
    u1 = u1  u2 = u2
    a1 = a1
    d1 = d1  d2 = d2
    c1 = c1  c2 = c2
    Users = {u1, u2}
    Agents = {a1}
    Directories = {d1, d2}
    UseApi = TRUE
    Calls = {c1, c2}
    MaxRooms = 2
    MaxFaults = 1
    None = None
INVARIANTS
    TypeOK
    OneRoomPerKey
    DirectListed
SYMMETRY Symmetric
