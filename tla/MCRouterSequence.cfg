SPECIFICATION Spec
CONSTANTS
    r1 = r1
    r2 = r2
    Requests = {r1, r2}
    Inputs <- MCInputs
    MaxFaults = 2
    MaxCrashes = 1
    None = None
INVARIANT ReportedIsReceived
CHECK_DEADLOCK FALSE
