SPECIFICATION Spec
CONSTANTS
    N = 2
    Ignored = {2}
    Configs <- DefaultConfig
    MaxFailures = 1
    MaxIo = 1
    Faults = {"skipPrecmd", "shellDies", "leftover"}
    Timing = {"settle"}
PROPERTIES ShellGoneWatchersExit NoHangingWorking FailureCleared
CHECK_DEADLOCK FALSE
