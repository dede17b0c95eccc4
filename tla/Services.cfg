SPECIFICATION ServicesSpec
CONSTANTS
    p1 = p1
    p2 = p2
    r1 = r1
    r2 = r2
    a1 = a1
    c1 = c1
    c2 = c2
    d1 = d1
    q1 = q1
    t1 = t1
    v1 = v1
    x1 = x1
    None = None
    Nobody = Nobody
    Caller = {p1, p2, r1, r2}
    Ranks = {0, 1}
    MaxActive = 2
    MaxQueueDepth = 2
    Ip = {p1, p2}
    Request = {r1, r2}
    Token = {1, 2}
    Role = {"operator"}
    Threshold = 2
    MaxLockout = 2
    EvictAfter = 3
    Ttl = 1
    Conn = {c1, c2}
    Peer = {a1}
    From <- AllFromOne
    Operator = {c1}
    Channel = {"task_updated"}
    Session = {"s1"}
    MaxWs = 1
    MaxSubs = 1
    MaxMessages = 1
    MaxViolations = 2
    PingsToIdle = 2
    Capacity = 1
    MaxEvents = 2
    AllowInput = TRUE
    Call = {c1, r1, r2}
    Listing = {r1, r2}
    MaxBreaks = 1
    MaxClients = 2
    Pid = {1, 2}
    Creating = {p1, p2}
    Asking = {q1}
    Ending = {t1}
    Overlapping = FALSE
    Unwritten = FALSE
    Dying = TRUE
    Reusing = TRUE
    NoPid = 0
    MaxSessions = 2
    Viewer = {v1}
    Reattacher = {q1}
    Connector = {c1}
    Disconnector = {d1}
    Restarter = {x1}
    MaxErrors = 1
    Member = {p1, p2, a1}
    Waiting = {a1}
    Durable = {a1}
    Closer = {x1}
    MaxReloads = 1
    MaxReopens = 1
    NoMember = NoMember
SYMMETRY Symmetric
INVARIANTS
    SlotsAccounted
    NoMissedNotification
    SocketsAccounted
    
    TeamAgrees
    RowsTrue
PROPERTIES
    KeepsBudget
    LocksAndTokensLast
    HelperKept
\* every slot started, every connection over: the parts may stop
CHECK_DEADLOCK FALSE
