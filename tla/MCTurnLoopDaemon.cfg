SPECIFICATION Spec
CONSTANTS
    NoId = NoId
    Wordless = {}
    NoSig = "no signature"
    Client = "chat"
    Forced = FALSE
    Sigs = {"edit"}
    SafeSigs = {}
    TodoSigs = {}
    CheckSigs = {}
    RewindSigs = {}
    MaxTurns = 0
    DoomThreshold = 3
    MaxDoomRefusals = 2
    MaxCutOffs = 0
    MaxHarmony = 0
    MaxOverflow = 0
    MaxCompactFails = 0
    MaxMsgs = 2
    MaxCalls = 2
    MaxSteps = 6
    MaxSwitches = 0
    MaxDrops = 0
    MaxHits = 0
    MaxNotices = 0
INVARIANTS
    RepeatsStopped
    SkippedForAMessage
    SentOnce
CHECK_DEADLOCK FALSE
