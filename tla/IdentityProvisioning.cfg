SPECIFICATION ServedSpec
CONSTANTS
    a1 = a1
    d1 = d1  d2 = d2
    c1 = c1  c2 = c2
    r1 = r1
    p1 = p1
    Agents = {a1}
    Directories = {d1, d2}
    Project <- Namesakes
    Calls = {c1, c2}
    Repairs = {r1}
    RandomPasswords = {p1}
    MaxTries = 2
    MaxFaults = 1
    None = None
INVARIANTS
    TypeOK
    NoSilentDrift
    RecordedPasswordWorks
PROPERTY EventuallyRecorded
CHECK_DEADLOCK FALSE
