SPECIFICATION Spec
CONSTANTS
    N = 1
    Second = 3
    Timeout = 2
INVARIANT GivesUpInTime
CHECK_DEADLOCK FALSE
