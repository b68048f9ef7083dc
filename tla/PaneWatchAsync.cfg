SPECIFICATION Spec
CONSTANTS
    N = 2
    Ignored = {2}
    Configs <- DefaultConfig
    MaxFailures = 2
    MaxIo = 3
    Faults = {"skipPrecmd", "shellDies", "paneCloses"}
    Timing = {}
INVARIANTS TypeOK PidAlive OwnCommand
CHECK_DEADLOCK FALSE
