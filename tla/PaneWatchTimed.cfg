SPECIFICATION Spec
CONSTANTS
    N = 3
    Ignored = {2}
    Configs <- AnyConfig
    MaxFailures = 2
    MaxIo = 0
    Faults = {"crash", "exitLost", "skipPrecmd", "leftover"}
    Timing = {"settle", "gap"}
INVARIANTS NeverFalseOk Recoverable RunningRowStands
PROPERTIES FailureSticks ImplementsStatus
CHECK_DEADLOCK FALSE
