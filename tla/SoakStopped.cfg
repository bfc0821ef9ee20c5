CONSTANTS
    Target = 3
    MaxIteration = 2
    Interval = 1
    Faults = {}
SPECIFICATION Spec
CHECK_DEADLOCK FALSE
INVARIANTS
    StoppedRunIsOver
