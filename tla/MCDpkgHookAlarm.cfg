CONSTANTS
    Package = {foo, bar}
    MaxLines = 4
    MaxSecond = 2
SPECIFICATION Spec
PROPERTY NoFalseAlarm
\* dpkg logs its last line and the hook finds nothing: it runs again to no effect.
CHECK_DEADLOCK FALSE
