SPECIFICATION ScopeSpec
CONSTANTS
    Base = 6
    MaxSequenceLength = 3
    Mantissa = 8
    Rows = {"a", "b", "c"}
    Drafts = {"temp"}
    ServerRow <- MCServerRow
    MaxRows = 2
    MaxPage = 2
    MaxLandings = 2
    MaxArrivals = 1
    MaxCalls = 2
    MaxFailures = 1
    MaxKills = 1
INVARIANTS
    IndexIsReadable
    OrderIsKept
    DraftsStay
CHECK_DEADLOCK FALSE
