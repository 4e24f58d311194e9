SPECIFICATION FairSpec
CONSTANTS
    MaxCalls = 2
    N = 2
    MaxWorkers = 2
    Modes = {TRUE, FALSE}
    Paths = {p}
    Linked = {p}
    MaxTurns = 1
CONSTRAINT WithWorktrees
INVARIANTS
    OneWriter
    
    CancelHitsItsWorker
PROPERTIES
    SwarmReturns
CHECK_DEADLOCK FALSE
