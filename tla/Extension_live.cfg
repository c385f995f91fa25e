SPECIFICATION ExtensionSpec
CONSTANTS
    s1 = s1
    s2 = s2
    NoSession = NoSession
    MaxChildren <- const_MaxChildren
    Pids <- const_Pids
    MainSessions <- const_MainSessions
    MaxClients <- const_MaxClients
    MaxBoots <- const_MaxBoots
    Lines <- const_Lines
    MaxRequests <- const_MaxRequests
    MaxEvents <- const_MaxEvents
    Capacity <- const_Capacity
    Recent <- const_Recent
    MaxEntries <- const_MaxEntries
    MaxQueries <- const_MaxQueries
    l1 = l1
    l2 = l2
    Launches <- const_Launches
    MaxRestarts <- const_MaxRestarts
    debug = debug
    nodebug = nodebug
    Managers <- const_Managers
    Builds <- const_Builds
    VersionOf <- const_VersionOf
    Requests <- const_Requests
    Nothing = Nothing
    MaxHosts <- const_MaxHosts
    MaxPreparations <- const_MaxPreparations
CHECK_DEADLOCK FALSE
INVARIANTS
    GoneIsTold
    GateFollowsAnswers
    NewestStopKept
    RecordFollowsSession
PROPERTIES
    ChildSettles
    ServesOpenSocket
    ReusedIsWhole
