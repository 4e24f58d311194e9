SPECIFICATION FairSpec
CONSTANTS
    JobIds = {j1, j2}
    Schedules = {}
    NoJob = NoJob
    MaxJobs = 1
    Retain = 0
CONSTRAINT FirstIdFirst
PROPERTIES
    FgReturns
    KillTakesEffect
CHECK_DEADLOCK FALSE
