SPECIFICATION Spec
CONSTANTS
    JobIds = {j1, j2}
    Schedules = {s1}
    NoJob = NoJob
    MaxJobs = 1
    Retain = 0
SYMMETRY Symmetry
INVARIANTS
    TypeOK
    EndNeverLost
    OneTerminalEvent
    NoLostWakeup
    NoSecondNotice
    SoftCap
PROPERTIES
    EndIsFinal
CHECK_DEADLOCK FALSE
