SPECIFICATION Spec
CONSTANTS
    N = 2
    Ignored = {}
    Configs <- DefaultConfig
    MaxFailures = 5
    MaxIo = 0
    Faults = {}
    Timing = {}
INVARIANT NeverFalseOk
CHECK_DEADLOCK FALSE
