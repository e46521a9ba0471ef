\* Two front ends, two reports of one signature.
CONSTANTS
    Signature = {s1}
    FrontEnd = {p1, p2}
    MaxReports = 2
SPECIFICATION Spec
INVARIANTS
    TypeOK
    SentAsConsented
    CoreGoneMeansDecided
    IgnoredStaysIgnored
SYMMETRY Symmetry
\* Every front end is closed and no report is left to write.
CHECK_DEADLOCK FALSE
