SPECIFICATION Spec
CONSTANTS
    LongNames = {}
    OddNames = {"{code}"}
    Readings <- MCReadings
    Parts = 3
    TtyFaults = {"open", "error", "kill"}
    Jobs <- MCJobs
    Files <- MCFiles
    Instants = {0, 3999, 61000, 37861000}
    Statuses = {"", "0", "1", "130", "137", "191"}
    Replies = {"locked", "unlocked", "none"}
INVARIANTS TypeOK Understood IgnoredSilent SuccessEarned CommandIsText LockShown RowNamed ElapsedReads RecordReads WholeOrNothing
CHECK_DEADLOCK FALSE
