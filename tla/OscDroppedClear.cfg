SPECIFICATION Spec
CONSTANTS
    N = 1
    Ignored = {}
    Configs <- AnyConfig
    Faults = {"ttyDrops"}
    Timing = {"settle"}
INVARIANTS ShownCovers
CHECK_DEADLOCK FALSE
