SPECIFICATION Spec
CONSTANTS
    n1 = n1
    n2 = n2
    n3 = n3
    g1 = g1
    g2 = g2
    a1 = a1
    c1 = c1
    c2 = c2
    None = None
    Node = {n1, n2, n3}
    Url <- MCUrl
    ActiveNodes = 2
    StandbyNodes = 1
    Goroutine = {g1}
    ApiCall = {}
    Notifier = {c1}
    Silent = {}
    Crashing = {n1, n2, n3}
    Unreachable = {n1, n2, n3}
    MaxAttempts = 3
    MaxDisruptions = 1
SYMMETRY NodeSymmetry
INVARIANTS
    TypeOK
    StartBarrier
    RosterToldInOrder
 
CHECK_DEADLOCK FALSE
