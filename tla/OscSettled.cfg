SPECIFICATION Spec
CONSTANTS
    N = 3
    Ignored = {2}
    Configs <- AnyConfig
    Faults = {"crash", "skipPrecmd", "shellDies", "startLost", "leftover"}
    Timing = {"settle"}
INVARIANTS WorkingEnds RunningRecord ShownCovers OnlyReported
PROPERTIES DoneAfterWorking ImplementsStatus ShellGoneWatchersExit PromptReturns
CHECK_DEADLOCK FALSE
