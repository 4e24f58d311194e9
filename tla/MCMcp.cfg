SPECIFICATION FairSpec
CONSTANTS
    NoServer = NoServer
    a = a
    b = b
    Servers = {a, b}
    Stdio = {a}
    Sessions = {i, j}
    InCap = 1
    OutCap = 1
    MaxReqs <- Reqs
    MaxNoise <- Noise
CONSTRAINT TwoCalls
PROPERTIES
    OwnAnswer
    InstallsAddUp
    LoadEnds
    CallsReturn
CHECK_DEADLOCK FALSE
