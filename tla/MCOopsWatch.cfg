CONSTANTS
    Window = 1
    MaxLines = 5
    MaxSecond = 3
    MaxStarts = 3
SPECIFICATION Spec
INVARIANTS
    TypeOK
    OneReportPerBurst
    NoOopsLost
\* The journal and the starts are used up.
CHECK_DEADLOCK FALSE
