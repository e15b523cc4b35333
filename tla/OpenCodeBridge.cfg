SPECIFICATION Spec
CONSTANTS
    i1 = i1  i2 = i2  i3 = i3
    d1 = d1  d2 = d2
    x1 = x1  x2 = x2  bot = bot
    r1 = r1
    w1 = w1  w2 = w2
    m1 = m1  m2 = m2  m3 = m3
    Ids = {i1, i2, i3}
    Dirs = {d1, d2}
    Identities = {x1, x2}
    Rooms = {r1}
    Sockets = {w1, w2}
    Msgs = {m1, m2, m3}
    Notices = {m1}
    DirOf <- Directories
    IdentsOf <- Namesakes
    RoomOf <- OneRoom
    Mentions <- BothOrNone
    Quoted <- InReply
    SenderOf <- PersonAndBot
    MaxQueue = 2
    None = None
INVARIANTS
    TypeOK
    IndexesLeadToRegistered
    OpenSocketIsCurrent
    NothingStuck
PROPERTY MentionIsDelivered
SYMMETRY Symmetric
CHECK_DEADLOCK FALSE
