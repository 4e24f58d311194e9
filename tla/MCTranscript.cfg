SPECIFICATION Spec
CONSTANTS
    NoId = NoId
    Wordless = {"image"}
    Ids = {x, y}
    MaxLen = 5
SYMMETRY IdSymmetry
INVARIANTS
    RequestAccepted
    RepairOnlyWhenNeeded
    CompactionKeepsPairs
    CompactionSettles
CHECK_DEADLOCK FALSE
