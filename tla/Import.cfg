\* A file with an invalid row, its correction, and two faults.
CONSTANTS
    j1 = j1
    j2 = j2
    Jobs = {j1, j2}
    Rows = 2
    Invalid <- InvalidRows
    MaxAttempts = 3
    Faults = {"db", "reply", "storage", "timeout", "crash"}
    MaxFaults = 2
SPECIFICATION FairSpec
CHECK_DEADLOCK FALSE
INVARIANTS
    ReportIsTrue
    CorrectionHolds
    FileLifetime
    EndIsTold
PROPERTIES
    EveryImportEnds
    ImplementsRetryQueue
    BudgetShrinks
