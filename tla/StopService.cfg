CONSTANTS
    Chain <- RunChain
    Reached <- ControlGroup
    Requests = 1
    Ways <- ServiceStop
    Stops <- AnyTime
SPECIFICATION Spec
CHECK_DEADLOCK FALSE
INVARIANTS
    ResultIsDurable
