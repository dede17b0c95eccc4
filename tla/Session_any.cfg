SPECIFICATION Spec
CONSTANTS
    s1 = s1
    s2 = s2
    c1 = c1
    c2 = c2
    c3 = c3
    None = None
    Session = {s1}
    Restored = {}
    Caller = {c1, c2, c3}
    Ops <- Lifetime
    Overlap = TRUE
    Faults = {"create", "scrollback", "detach"}
    MaxSessions = 1
    MaxEvents = 2
    MaxChunks = 1
INVARIANTS
    TypeOK

    
CHECK_DEADLOCK FALSE
