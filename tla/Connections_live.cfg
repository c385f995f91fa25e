SPECIFICATION PartsSpec
CONSTANTS
    MaxSent <- const_MaxSent
    Types = {"ValueError", "KeyError"}
    Conditions = {"named"}
    Covers <- NamesOneType
    NoCondition = "unconditional"
    NoType = "none"
    FilterRequests <- SomeFilters
    MaxDepth = 2
    MaxRaised = 2
    MaxFilterSets = 2
CHECK_DEADLOCK FALSE
INVARIANTS
    FiltersDecide
    ExceptionIsExplained
PROPERTIES
    Served
    EndNoticed
    ActsAsChannel
