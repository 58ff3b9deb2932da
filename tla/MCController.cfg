SPECIFICATION MCSpec
CONSTANTS
    Key = {1, 2, 3}
    NUM_HOTKEY = 2
    MAX_HOTKEY = 3
    MAX_RETRIES <- Retries
    Popularity = {1, 2}
    FETCH_BASE_PORT = 3000
    MAX_HITS = 1
    MAX_ROUNDS = 2
    MAX_LOSSES = 0
INVARIANTS
    IndexesDistinct
    LookupIsList
    CachedIsFetched
    HottestKept
CHECK_DEADLOCK FALSE
