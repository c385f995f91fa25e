SPECIFICATION ReloadSpec
CONSTANTS
    LiveFrames = {liveFrame}
    liveFrame = liveFrame
    LastName = 2
    FunctionKinds = {"plain", "closure", "wrapper"}
    ReloadLimit = 1
PROPERTY
    OnlyOldReplaced
CHECK_DEADLOCK FALSE
