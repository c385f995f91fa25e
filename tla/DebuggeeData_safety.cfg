SPECIFICATION DataSpec
CONSTANTS
    Clients = {"launcher", "adapter"}
    Unset = unset
    Nothing = nothing
    unset = unset
    nothing = nothing
    MaxBorn = 3
    MaxRefs = 3
    MaxIds = 4
    MaxRequests = 3
    string = string
    stdin = stdin
    moduleA = moduleA
    moduleB = moduleB
    programThread = programThread
    receiverThread = receiverThread
    missing = missing
    Dynamic = {string, stdin}
    Files = {moduleA, moduleB}
    Threads = {programThread, receiverThread}
    Receiver = receiverThread
    Missing = missing
    MaxNumber = 5
SYMMETRY Symmetry
INVARIANTS
    ShowsWhatItNamed
    
    AnnouncedResolves
PROPERTIES
    ChangesAreAnnounced
CHECK_DEADLOCK FALSE
