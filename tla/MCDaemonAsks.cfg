SPECIFICATION Spec
CONSTANTS
    None = None
    Sessions = {s1}
    Reqs = {r1, r2}
    Runs = {r1, r2}
    Tools = {edit}
    MaxAsks = 2
    HasDb = FALSE
    Warm = FALSE
    Panics = FALSE
SYMMETRY ReqSymmetry
INVARIANTS
    ApprovedByUser
    NoAskOutlivesRuns
CHECK_DEADLOCK FALSE
