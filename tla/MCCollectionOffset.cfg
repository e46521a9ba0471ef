CONSTANTS
    Package = {"app", "lib"}
    Unsummed = {"lib"}
    MaxVersion <- Versions
    MaxStarts = 1
    Name <- Names
    Lower <- LowerCase
    Stem <- StemOf
    Directory <- Directories
    Cut <- CutOf
    NoisePrefixed = {"abort", "abort_job"}
    SIGNIFICANT_FRAMES = 2
    Records <- Crashes
    Local = {"local"}
    Machinery = {"abort"}
    FieldLimit = 2
    ByteBudget = 3
    MAX_VERIFIED_FILES = 2
    DeleteDeclined = TRUE
    MaxCrashes = 2
SPECIFICATION Spec
CONSTRAINT SecondIsCompared
INVARIANT OffsetsTellApart
\* Crashes and starts are used up.
CHECK_DEADLOCK FALSE
