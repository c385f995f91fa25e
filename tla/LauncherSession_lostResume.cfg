SPECIFICATION FairSpec
CONSTANTS
    Commands <- ContinuingClient
    TraceEvents <- PlainProgram
    StopOnEntry = {TRUE}
    MaxCommands = 3
    MaxLines = 2
PROPERTY
    ResumeHeeded
CHECK_DEADLOCK FALSE
