CONSTANTS
    Daemon = Daemon
    Hook = Hook
    MaxCrashes = 3
    MaxSalts = 3
SPECIFICATION Spec
INVARIANTS
    TypeOK
    CursorNeverAhead
    StateIsWhole
    OneIdentity
PROPERTY CursorNeverBack
\* Crashes and salts are used up.
CHECK_DEADLOCK FALSE
