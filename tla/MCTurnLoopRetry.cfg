SPECIFICATION SpecCancel
CONSTANTS
    NoId = NoId
    Wordless = {}
    NoSig = "no signature"
    Client = "v1"
    Forced = FALSE
    Sigs = {"edit"}
    SafeSigs = {}
    TodoSigs = {"edit"}
    CheckSigs = {}
    RewindSigs = {}
    MaxTurns = 2
    DoomThreshold = 2
    MaxDoomRefusals = 1
    MaxCutOffs = 1
    MaxHarmony = 1
    MaxOverflow = 1
    MaxCompactFails = 1
    MaxMsgs = 1
    MaxCalls = 2
    MaxSteps = 1
    MaxSwitches = 1
    MaxDrops = 1
    MaxHits = 1
    MaxNotices = 0
INVARIANTS
    TypeOK
    SessionPaired
PROPERTIES
    CancelEnds
CHECK_DEADLOCK FALSE
