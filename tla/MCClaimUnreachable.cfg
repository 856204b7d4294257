SPECIFICATION Spec
CONSTANTS
    n1 = n1
    n2 = n2
    n3 = n3
    g1 = g1
    g2 = g2
    a1 = a1
    c1 = c1
    c2 = c2
    None = None
    Node = {n1, n2}
    Url <- MCUrl
    ActiveNodes = 1
    StandbyNodes = 1
    Goroutine = {g1}
    ApiCall = {}
    Notifier = {c1}
    Silent = {}
    Crashing = {n1, n2}
    Unreachable = {n1, n2}
    MaxAttempts = 2
    MaxDisruptions = 1
PROPERTY UnreachableMarkedFailed
CHECK_DEADLOCK FALSE
