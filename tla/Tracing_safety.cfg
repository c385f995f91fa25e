SPECIFICATION TracedSpec
CONSTANTS
    t1 = t1
    func1 = func1
    func2 = func2
    main = main
    user = user
    test = test
    code1 = code1
    code2 = code2
    Threads <- const_Threads
    Codes <- const_Codes
    Files <- const_Files
    FileOf <- const_FileOf
    Lines <- const_Lines
    NoCode = NoCode
    Names = {"x"}
    MaxDepth = 2
    MaxOps = 4
    SourceFiles <- const_SourceFiles
    Unstamped <- const_Unstamped
    CodeObjects <- const_CodeObjects
    LineNos = {1}
    MaxEntries = 1
    MaxInfos = 1
    MaxOperations = 3
    a1 = a1
    a2 = a2
    None = None
    Attaches <- const_Attaches
    fa = fa
    fb = fb
    fc = fc
    user2 = user2
    same = same
    other = other
    Routines <- const_Routines
    HomeOf <- const_HomeOf
    ContentOf <- const_ContentOf
    Programs <- const_Programs
    BreakLines = {1, 2}
    NameWidth = 2
    ConstWidth = 4
    NoneConst = NoneConst
    Nothing = Nothing
    MaxChanges = 2
    EvalCodes = {"f", "g"}
    Breakpointed = {"f"}
    MaxFrames = 3
    MaxInstalls = 2
    MaxCalls = 3
    VariableNames = {"m", "n"}
    Expressions = {"e"}
    Values = {"one", "two"}
    Unbound = "unbound"
    Unknown = "unknown"
    Assigned = {"m"}
    Meaning <- FollowsTheName
    WatchRequests <- SomeWatches
    MaxRegistrations = 3
SYMMETRY Symmetry
INVARIANTS
    
    CacheAgrees
    NothingLeftBehind
    RoundTrip
    InvalidatedIsGone
    ReturnedOnce
    
