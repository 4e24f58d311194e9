SPECIFICATION SpecCancel
CONSTANTS
    NoId = NoId
    Wordless = {}
    NoSig = "no signature"
    Client = "tui"
    Forced = TRUE
    Sigs = {"check", "rewind", "look"}
    SafeSigs = {"look"}
    TodoSigs = {}
    CheckSigs = {"check"}
    RewindSigs = {"rewind"}
    MaxTurns = 0
    DoomThreshold = 3
    MaxDoomRefusals = 3
    MaxCutOffs = 0
    MaxHarmony = 0
    MaxOverflow = 0
    MaxCompactFails = 0
    MaxMsgs = 1
    MaxCalls = 2
    MaxSteps = 2
    MaxSwitches = 0
    MaxDrops = 0
    MaxHits = 0
    MaxNotices = 1
INVARIANTS
    RanIsReported
    MarkInSession
PROPERTIES
    CancelEnds
CHECK_DEADLOCK FALSE
