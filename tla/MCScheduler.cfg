SPECIFICATION FairSpec
CONSTANTS
    N = 2
    Second = 2
    Timeout = 2
INVARIANTS TypeOK OneWorkAtATime StoppedIsQuiet
PROPERTIES NeverRevived InterruptExits
CHECK_DEADLOCK FALSE
