SPECIFICATION Spec
CONSTANTS
    t1 = t1
    t2 = t2
    r1 = r1
    r2 = r2
    r3 = r3
    None = None
    Task = {t1, t2}
    Attempt = {r1, r2, r3}
    AutoTask = {t1, t2}
    ManualTask = {t1}
    NextReadyTask = {t2}
    MainTask = {}
    UntilComplete = {t2}
    MaxConcurrent = 2
    PoolMax = 2
    Moves <- Requeue
    EarlyDispatch = FALSE
    Rejects = TRUE
    Faults <- AllFaults
    MaxCrashes = 1
INVARIANTS
    TypeOK
    PermitsMatchAttempts
    OneRunPerTask
    LiveRunTracked
    WorktreeUnderRun
    
