SPECIFICATION CasesSpec
CONSTANTS
    s1 = s1
    s2 = s2
    c1 = c1
    c2 = c2
    c3 = c3
    None = None
    Session = {s1}
    Restored = {s1}
    Caller = {c1, c2, c3}
    Ops <- Reattaching
    Overlap = FALSE
    Faults = {"detach"}
    MaxSessions = 1
    MaxEvents = 9
    MaxChunks = 1
INVARIANTS
    RestoredRowsFollow
PROPERTIES
    StuckShows
    
CHECK_DEADLOCK FALSE
