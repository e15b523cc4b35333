SPECIFICATION FairSpec
CONSTANTS
    k1 = k1
    m1 = m1  m2 = m2  m3 = m3  m4 = m4
    Keys = {k1}
    Msgs = {m1, m2, m3, m4}
    KeyOf <- OneRoom
    MaxQueue = 2
    None = None
INVARIANTS
    TypeOK
    OneHome
    NoStrandedQueue
PROPERTIES
    LifecycleSpec
    QueuedIsResolved
CHECK_DEADLOCK FALSE
