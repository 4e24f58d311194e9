SPECIFICATION FairSpec
CONSTANTS
    None = None
    Sessions = {s1}
    Reqs = {r1, c1}
    Runs = {r1}
    Tools = {}
    MaxAsks = 1
    HasDb = TRUE
    Warm = TRUE
    Panics = TRUE
INVARIANTS
    TurnsSerialize
    NoTurnLost
PROPERTY
    StreamsEnd
CHECK_DEADLOCK FALSE
