SPECIFICATION Spec
CONSTANTS
    n1 = n1
    n2 = n2
    n3 = n3
    g1 = g1
    g2 = g2
    a1 = a1
    c1 = c1
    c2 = c2
    None = None
    Node = {n1, n2, n3}
    Url <- MCUrl
    ActiveNodes = 2
    StandbyNodes = 1
    Goroutine = {g1, g2}
    ApiCall = {}
    Notifier = {c1, c2}
    Silent = {}
    Crashing = {n1, n2, n3}
    Unreachable = {}
    MaxAttempts = 2
    MaxDisruptions = 2
SYMMETRY NodeSymmetry
INVARIANTS
    ActiveSlotsCovered
    NoReconfigurationUnderLeak
    RunningIsStaffed
CHECK_DEADLOCK FALSE
