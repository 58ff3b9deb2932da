SPECIFICATION Spec
CONSTANTS
    k1 = k1
    k2 = k2
    h1 = h1
    Key = {k1, k2}
    Hash = {h1}
    HKey <- CollidingHash
    Hot = {k1}
    IndexOf <- FirstIndex
    Request = {r1, r2, r3}
    Preload = Preload
    NoKey = NoKey
    MAX_CACHE_SIZE = 1
    MAX_QUEUE_SIZE_PER_KEY = 1
    COUNTER_MOD = 1
    NoIndex = NoIndex
    EMPTY = EMPTY
    SERIAL_WRITES = TRUE
    FAST_LOOP = TRUE
    MAX_LOSSES = 1
SYMMETRY Symmetry
PROPERTIES
    RefinesKVStore
INVARIANTS
    CacheCoherent
    OneCachePacketPerItem
CHECK_DEADLOCK FALSE
