\* A report arrives while a window is open.
CONSTANTS
    Signature = {s1, s2}
    FrontEnd = {p1}
    MaxReports = 2
SPECIFICATION Spec
PROPERTY UnseenIsNeverDiscarded
SYMMETRY Symmetry
CHECK_DEADLOCK FALSE
