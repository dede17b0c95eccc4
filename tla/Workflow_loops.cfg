SPECIFICATION Spec
CONSTANTS
    c1 = c1
    c2 = c2
    None = None
    Caller = {c1, c2}
    MaxTasks = 5
    Workflows <- Loops
    Ops <- AllOps
    Moves <- ReviewMoves
    Edits = {}
    Extra <- OnFirst
    PackFails = TRUE
    Overlap = FALSE
    MaxAsked = 1
    MaxBreaks = 1
SYMMETRY Symmetric
INVARIANTS
    SettledWhenIdle
    WaitsCanEnd
    IterationsBounded
    FailedGateLoops
PROPERTIES
    StartedAfterDeps
    MergedTreeWasChecked
CHECK_DEADLOCK FALSE
