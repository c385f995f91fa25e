SPECIFICATION FairSpec
CONSTANTS
    Requests <- InspectingClient
    StopOnEntry <- Never
    MaxRequests = 5
    MaxStops = 1
    MaxControllerOps = 0
PROPERTIES  DeathReported
CHECK_DEADLOCK FALSE
