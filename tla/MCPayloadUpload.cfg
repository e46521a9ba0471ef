CONSTANTS
    Upload = {u1, u2}
    Crash = {c1, c2}
    MaxCore = 3
    MaxText = 2
    Overhead = 2
    Slack = 4
    MaxPayload = 6
    DiskFails = TRUE
SPECIFICATION Spec
SYMMETRY Symmetry
INVARIANTS
    TypeOK
    StoredIsComplete
    CoreIsSomewhere
    RejectionsExplained
\* Every upload comes to an end.
CHECK_DEADLOCK FALSE
