SPECIFICATION FairSpec
CONSTANTS
    Commands <- PausingClient
    TraceEvents <- WatchProgram
    StopOnEntry = {TRUE}
    MaxCommands = 3
    MaxLines = 2
PROPERTIES
    TerminatedUnblocks
    OrphanExits
    ResumeWakes
    
CHECK_DEADLOCK FALSE
