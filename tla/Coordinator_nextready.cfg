SPECIFICATION Spec
CONSTANTS
    t1 = t1
    t2 = t2
    r1 = r1
    r2 = r2
    r3 = r3
    None = None
    Task = {t1, t2}
    Attempt = {r1, r2, r3}
    AutoTask = {t1}
    ManualTask = {}
    NextReadyTask = {t2}
    MainTask = {}
    UntilComplete = {}
    MaxConcurrent = 1
    PoolMax = 2
    Moves = {}
    EarlyDispatch = FALSE
    Rejects = FALSE
    Faults = {}
    MaxCrashes = 0
PROPERTIES
    TakenTaskIsDispatched
