SPECIFICATION FairSpec
CONSTANTS
    m1 = m1  m2 = m2  m3 = m3
    a1 = a1  a2 = a2
    Msgs = {m1, m2, m3}
    Agents = {a1, a2}
    AgentOf <- MostForOne
    MaxBuffer = 2
INVARIANTS
    TypeOK
    OneCopy
PROPERTIES
    EveryMessageLeaves
    KeepsPromise
CHECK_DEADLOCK FALSE
