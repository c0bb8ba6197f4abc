SPECIFICATION AllSpec
CONSTANTS
    None = None
    \* the queue
    Tasks = {a, b, c}
    Frequencies <- MCFrequencies
    Concurrencies <- MCConcurrencies
    MaxCalls = 2
    \* blocks
    BLOCKS_PER_PAGE = 2
    FirstHead = 3
    MaxHead = 6
    \* histories and their totals
    PAGE_SIZE = 2
    TotalCap = 6
    FirstCount = 5
    MaxCount = 7
    Keys = {k1, k2, k3}
    HISTORY_TOTAL_CACHE_TTL = 2
    HISTORY_TOTAL_CACHE_MAX_ENTRIES = 2
    MaxCounts = 3
    \* creations
    MAX_BATCH_SIZE = 2
    MaxBlock = 11
    \* signatures
    Lookups = {1, 2, 3}
    Selectors = {1, 2}
    SelectorOf <- MCSelectorOf
    Known = {1}
    MaxRetries = 1
    \* policies
    POLICY_LOG_PAGE_SIZE = 2
    RECENT_ACTIVITY_LIMIT = 1
    MaxLogs = 2
    MaxCopies = 3
    \* tokens
    Requests = {1, 2}
    limit = 2
    COUNT_CAP = 3
    CACHE_TTL = 2
    MaxFetch = 1
    MaxRows = 3
    \* snapshots
    Networks = {"main", "test"}
    SNAPSHOT_HISTORY_PAGE_SIZE = 2
    MaxSnapshot = 4
    \* components
    Heights = {2, 9, 15}
    FileBlocks = 3
    PARIS_BLOCK = 7
    Recent = 2
    \* receipts
    Accounts = {"a", "b"}
    Tokens = {"t", "u"}
    Amounts = {1, 2}
    MaxReceiptCalls = 2
INVARIANT LatestPageShowsLoaded
CHECK_DEADLOCK FALSE
