SPECIFICATION Spec
CONSTANTS
    e1 = e1  e2 = e2
    a1 = a1
    r1 = r1  r2 = r2
    Events = {e1, e2}
    Agents = {a1}
    AgentOf <- OneAgent
    Runs = {r1, r2}
    MaxStarts = 2
    None = None
INVARIANTS
    TypeOK
    SlotIsLatest
PROPERTY EveryConversationEnds
CHECK_DEADLOCK FALSE
