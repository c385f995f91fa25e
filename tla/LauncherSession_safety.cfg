SPECIFICATION Spec
CONSTANTS
    Commands <- CuriousClient
    TraceEvents <- MixedProgram
    StopOnEntry = {TRUE, FALSE}
    MaxCommands = 4
    MaxLines = 3
INVARIANTS
    StopsFollowAnswers
    StackOfSeenStop
CHECK_DEADLOCK FALSE
