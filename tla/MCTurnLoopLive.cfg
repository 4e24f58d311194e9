SPECIFICATION SpecLive
CONSTANTS
    NoId = NoId
    Wordless = {}
    NoSig = "no signature"
    Client = "tui"
    Forced = FALSE
    Sigs = {"edit"}
    SafeSigs = {}
    TodoSigs = {}
    CheckSigs = {}
    RewindSigs = {}
    MaxTurns = 0
    DoomThreshold = 3
    MaxDoomRefusals = 3
    MaxCutOffs = 0
    MaxHarmony = 0
    MaxOverflow = 0
    MaxCompactFails = 0
    MaxMsgs = 3
    MaxCalls = 1
    MaxSteps = 1
    MaxSwitches = 0
    MaxDrops = 1
    MaxHits = 0
    MaxNotices = 0
INVARIANTS
    SentOnce
    ReadInOrder
PROPERTIES
    EveryMessageRead
CHECK_DEADLOCK FALSE
