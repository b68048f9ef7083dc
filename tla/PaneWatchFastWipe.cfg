SPECIFICATION Spec
CONSTANTS
    N = 1
    Ignored = {}
    Configs <- DefaultConfig
    MaxFailures = 5
    MaxIo = 0
    Faults = {"leftover"}
    Timing = {"settle", "gap"}
INVARIANT Wiped
CHECK_DEADLOCK FALSE
