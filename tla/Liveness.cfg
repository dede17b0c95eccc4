SPECIFICATION LiveSpec
CONSTANTS
    ip1 = ip1
    c1 = c1
    c2 = c2
    c3 = c3
    a1 = a1
    a2 = a2
    x1 = x1
    v1 = v1
    d1 = d1
    g2 = g2
    w1 = w1
    o1 = o1
    n1 = n1
    t1 = t1
    r1 = r1
    r2 = r2
    Caller = {c1, c2, c3}
    Ranks = {0, 1}
    MaxActive = 2
    MaxQueueDepth = 2
    Conn = {c1, c2}
    Peer = {ip1}
    From <- AllFromOne
    Operator = {c1}
    Channel = {"task_updated"}
    Session = {"s1"}
    MaxWs = 1
    MaxSubs = 1
    MaxMessages = 1
    MaxViolations = 2
    PingsToIdle = 2
    Capacity = 1
    MaxEvents = 2
    AllowInput = TRUE
    Call = {c1, c2}
    Listing = {c2}
    MaxBreaks = 2
    MaxClients = 2
    Nobody = Nobody
    Agent = {g2}
    CodexAgent = {g2}
    GroupId = {1}
    NoGroup = 0
    MaxLines <- TwoLines
    MailCap = 3
    MaxTries = 2
    MaxStalls = 2
    Server = {w1}
    Calling <- AllAtOnce
    OwnIds = {9}
    Reports <- NoReports
    Refresher = {o1}
    Login = {}
    Watch = n1
    MaxChanges = 1
PROPERTIES
    WorkConserving
    
    
    
    ViewsCatchUp
    AbandonedFails
\* every slot started, every connection over: the parts may stop
CHECK_DEADLOCK FALSE
