\* A kill between write_pending and the save of the cursor.
CONSTANTS
    Signature = {1}
    RateLimit = 2
    MaxSpool = 2
    DeleteDeclined = TRUE
    DiskFails = FALSE
    MaxCrashes = 2
    MaxSecond = 0
    MaxStarts = 2
    Program <- OneProgram
SPECIFICATION Spec
INVARIANT PendingKeepsItsCore
CHECK_DEADLOCK FALSE
