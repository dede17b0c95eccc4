SPECIFICATION ProjectSpec
CONSTANTS
    p1 = p1
    p2 = p2
    r1 = r1
    r2 = r2
    b1 = b1
    c1 = c1
    d1 = d1
    e1 = e1
    g1 = g1
    g2 = g2
    i1 = i1
    k1 = k1
    l1 = l1
    n1 = n1
    o1 = o1
    v1 = v1
    w1 = w1
    w2 = w2
    z1 = z1
    Task = {k1}
    Slug = {"a", "b"}
    Creator = {p1, p2}
    Cleaner = {d1}
    Eraser = {e1}
    Failing = {"root", "git", "db"}
    Tidying = TRUE
    MaxRestarts = 1
    Nil = Nil
    AsyncCall = {p1, p2}
    MaxSets = 2
    MaxOpens = 2
    MayFail = TRUE
    Agent = {g1, g2}
    CodexAgent = {g2}
    GroupId = {1}
    NoGroup = 0
    MaxLines <- FirstPrints
    MailCap = 3
    MaxTries = 2
    MaxStalls = 2
    Server = {w1, w2}
    Calling <- FirstIsUsed
    OwnIds = {9}
    Reports <- FirstReports
    Refresher = {o1}
    Login = {l1}
    Watch = n1
    MaxChanges = 2
    Commander = {c1}
    Id = {p1, p2}
    Name = {r1, r2}
    Given = {v1, w1}
    Blank = Blank
    Absent = Absent
    MayExport = FALSE
    MaxMishaps = 1
    Launcher = {p1, p2}
    IssueItem = {i1}
    PullRequest = {z1}
    Branch = {b1}
    Ticket = {r1, r2}
    Base = Base
    Nothing = Nothing
    Apart = TRUE
    MaxFaults = 1
SYMMETRY Symmetric
INVARIANTS
    ServicesFollowProject
    PointersKept
    AgentsAccounted
    WorkspacesKept
PROPERTIES
    WorktreesKept
    ShownForward
    
\* every command given, every fault had: the parts may stop
CHECK_DEADLOCK FALSE
