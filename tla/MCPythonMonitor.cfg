SPECIFICATION FairSpec
CONSTANTS
    Client = {c1}
    Remover = {r1, r2}
    Recorder = {t1, t2}
    MaxOps = 1
    MaxTimes = 2
INVARIANTS
    PythonMonitorTypeOK
    OnlyLateLogsLost
    SettledTimesKept
PROPERTIES
    SilentOnceStopped
    RemoveAnswered
    LogsSent
CHECK_DEADLOCK FALSE
