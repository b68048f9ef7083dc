SPECIFICATION Spec
CONSTANTS
    N = 2
    Ignored = {}
    Configs <- AnyConfig
    Faults = {}
    Timing = {}
INVARIANTS WorkingEnds
CHECK_DEADLOCK FALSE
