SPECIFICATION FairSpec
CONSTANTS
    s1 = s1
    s2 = s2
    c1 = c1
    c2 = c2
    c3 = c3
    None = None
    Session = {s1}
    Restored = {}
    Caller = {c1, c2, c3}
    Ops <- Lifetime
    Overlap = FALSE
    Faults = {}
    MaxSessions = 1
    MaxEvents = 9
    MaxChunks = 0
PROPERTIES
    EndIsNoticed
CHECK_DEADLOCK FALSE
