SPECIFICATION Spec
CONSTANTS
    Callers = {caller, runner}
    Runner = runner
    Polled <- OneOperation
    MaxAttempts = 2
    MaxOpens = 2
    MaxEpoch = 2
    MaxCalls = 1
    NoEndpoint = NoEndpoint
    NoRecord = NoRecord
    NoPlan = NoPlan
INVARIANTS
    EndpointInv
PROPERTIES
    AdmittedIsOwned
    LastGoodIsLive
    CloseReleases
    RunRestarts
CHECK_DEADLOCK FALSE
