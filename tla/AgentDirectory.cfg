SPECIFICATION Spec
CONSTANTS
    a1 = a1  a2 = a2  n1 = n1  n2 = n2
    Agents = {a1, a2}
    Names = {n1, n2}
    Callers = {c1}
    Known = {a1}
    FirstName <- MCFirstName
    Similar <- MCSimilar
    MaxRenames = 2
    MaxFailures = 1
    None = None
INVARIANT TypeOK
PROPERTY NamesConverge
CHECK_DEADLOCK FALSE
