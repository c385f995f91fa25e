SPECIFICATION StoppedSpec
CONSTANTS
    Lines <- TwoLines
    Requests <- SomeRequests
    StopOnEntry = {TRUE, FALSE}
    MaxPasses = 4
    MaxReplacements = 2
    file = file
    breakpoint = breakpoint
    Files = {file}
    Breaks = {breakpoint}
    MaxRequests = 3
    MaxReloads = 2
    MaxUnread = 2
    Answerers = {"launcher", "adapter"}
    MaxHalts = 3
    MaxInquiries = 3
    MaxSteps = 2
    liveFrame = liveFrame
    LiveFrames = {liveFrame}
    LastName = 2
    FunctionKinds = {"plain", "closure"}
    ReloadLimit = 2
INVARIANTS
    TablesAreCurrent
    NewestStands
    FramesFollow
    AnswersAreCurrent
    SnapshotOfOneStop

    
CHECK_DEADLOCK FALSE
