CONSTANTS
    Package = {foo, bar}
    MaxLines = 4
    MaxSecond = 2
SPECIFICATION Spec
SYMMETRY Symmetry
INVARIANTS
    TypeOK
    OlderIsReported
PROPERTY AnsweredIsNotRepeated
