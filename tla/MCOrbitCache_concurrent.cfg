SPECIFICATION Spec
CONSTANTS
    k1 = k1
    k2 = k2
    h1 = h1
    Key = {k1}
    Hash = {h1}
    HKey <- SingleHash
    Hot = {k1}
    IndexOf <- FirstIndex
    Request = {r1, r2}
    Preload = Preload
    NoKey = NoKey
    MAX_CACHE_SIZE = 1
    MAX_QUEUE_SIZE_PER_KEY = 1
    COUNTER_MOD = 1
    NoIndex = NoIndex
    EMPTY = EMPTY
    SERIAL_WRITES = FALSE
    FAST_LOOP = TRUE
    MAX_LOSSES = 0
SYMMETRY Symmetry
INVARIANTS
    InvalidUntilReply
CHECK_DEADLOCK FALSE
