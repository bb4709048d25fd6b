SPECIFICATION FairSpec
CONSTANTS
    r1 = r1
    r2 = r2
    Requests = {r1, r2}
    Inputs <- MCInputs
    MaxFaults = 2
    MaxCrashes = 1
    None = None
INVARIANTS
    TypeOK
    AcknowledgedIsStored
    ToldIsStored
    LaterIsHigher
    RelaySeesOrder
    PromiseIsAnnounced
PROPERTIES
    ReportBoundsAcknowledged
    EventuallyAnswered
    ImplementsIntake
CHECK_DEADLOCK FALSE
