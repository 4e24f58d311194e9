SPECIFICATION Spec
CONSTANTS
    Depth = 2
    UserMsgs = {"u"}
    OtherMsgs = {"a", "b"}
    MaxLen = 3
    MaxStores = 4
INVARIANTS
    LogsBounded
PROPERTIES
    ImplementsStacks
CHECK_DEADLOCK FALSE
