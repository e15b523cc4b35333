SPECIFICATION FairSpec
CONSTANTS
    c1 = c1  c2 = c2  c3 = c3
    a1 = a1  a2 = a2
    e1 = e1  e2 = e2  e3 = e3  e4 = e4
    v1 = v1  v2 = v2
    Callers = {c1, c2}
    Agents = {a1}
    Convs = {v1, v2}
    AgentOf <- RoomsAndAgents
    ConvOf <- OneConversation
    Recurring = {}
    Conns = {e1, e2, e3, e4}
    MaxConns = 1
    None = None
PROPERTY EveryCallEnds
CHECK_DEADLOCK FALSE
