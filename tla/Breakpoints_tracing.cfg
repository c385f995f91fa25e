SPECIFICATION Spec
CONSTANTS
    Lines <- TwoLines
    Requests <- OneLogpoint
    StopOnEntry = {TRUE, FALSE}
    MaxPasses = 3
    MaxReplacements = 2
INVARIANT
    TracingStaysActive
CHECK_DEADLOCK FALSE
