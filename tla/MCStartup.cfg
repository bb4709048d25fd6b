SPECIFICATION Spec
CONSTANTS
    Files <- ConfigFiles
    NodeDefault <- Defaults
    Minute = 27
    Step = 4
    Backlogs = {0}
    MaxTime = 36
    MaxMissed = 1
INVARIANT BacklogBounded
CHECK_DEADLOCK FALSE
