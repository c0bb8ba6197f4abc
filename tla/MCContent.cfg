SPECIFICATION AllSpec
CONSTANTS
    Pages = {p, q}
    Versions = {old, new, huge}
    Unfit = {huge}
    Absent = absent
    MaxEdits = 2
    MaxFaults = 2
    Questions = {1, 2, 3}
    Sources = {"a", "b"}
    Wanted <- MCWanted
    Raw = {2}
    SEARCH_RESULT_CACHE_TTL = 1
    FILTER_FALLBACK_TTL = 1
    MaxTime = 1
    Visits = {1, 2}
    Of <- MCOf
    RECENT_SNAPSHOTS_PER_NETWORK = 1
    MaxBlock = 2
    MaxFailures = 1
INVARIANTS
    TypesOK
    ForcedServesListed
    RecordsAgree
    AnswersAreWanted
PROPERTIES
    ListedStays
    PagesServed
    PagesCatchUp
CHECK_DEADLOCK FALSE
