\* Two crashes of one program, one reported per hour, a spool of one file, a kill
\* anywhere, and any write may fail; fairness for the liveness property.
CONSTANTS
    Signature = {1, 2}
    RateLimit = 1
    MaxSpool = 1
    DeleteDeclined = TRUE
    DiskFails = TRUE
    MaxCrashes = 2
    MaxSecond = 0
    MaxStarts = 2
    Program <- OneProgram
SPECIFICATION FairSpec
INVARIANTS
    TypeOK
    SpoolBounded
    NothingLost
    ShownUntilDecided
    LostOnlyInDoubt
    CountedOnce
    NoUndercount
PROPERTIES
    EachCrashFollowsLifecycle
    ResumesWhereItStopped
    EveryCrashIsHandled
\* The journal and the starts are used up.
CHECK_DEADLOCK FALSE
