SPECIFICATION Spec
CONSTANTS
    Requests <- EveryRequest
    StopOnEntry <- Either
    MaxRequests = 5
    MaxStops = 2
    MaxControllerOps = 1
INVARIANTS
    BusyIsOneOperation
    RepliesFindWaiters
    EndReportedOnce
CHECK_DEADLOCK FALSE
