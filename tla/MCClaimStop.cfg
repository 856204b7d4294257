SPECIFICATION PodFairSpec
CONSTANTS
    Handler = {h1}
    Sender = {s1, s2}
    Heart = {k1, k2, k3, k4, k5}
    Worker = {w1, w2}
    Script = {p1, p2}
    Call <- MCCall
    None = None
    Events = {}
    MaxRetries = 2
    MaxTries = 2
    MaxCommands = 2
PROPERTIES
    StopEnds
CHECK_DEADLOCK FALSE
