SPECIFICATION Spec
CONSTANTS
    i1 = i1  i2 = i2
    s1 = s1
    c1 = c1  c2 = c2
    Identities = {i1, i2}
    Subscriptions = {s1}
    Calls = {c1, c2}
    MaxClients = 3
    MaxBuffer = 2
    MaxFaults = 2
    None = None
INVARIANTS
    TypeOK
    SubscriberHears
    OneClientEach
SYMMETRY Symmetric
CHECK_DEADLOCK FALSE
