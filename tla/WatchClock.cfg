SPECIFICATION Spec
CONSTANTS
    ThresholdCfg = 0
    TickCfg = 3
    LockTimeoutCfg = 40
    Sticky = 9
    Spawn = 1
    Latency = 2
    Step = 12
    Faults = {"stepBack", "shellDies"}
INVARIANTS TypeOK ReplacedInTime ReportNotEarly FinishPrompt OrphanEnds ShowsLastAnswer
