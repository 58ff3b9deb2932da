SPECIFICATION DynamicSpec
CONSTANTS
    k1 = k1
    k2 = k2
    h1 = h1
    h2 = h2
    Key = {k1, k2}
    Hash = {h1}
    HKey <- Colliding
    Hot = {}
    IndexOf <- NoIndexes
    Request = {r1, r2}
    Preload = Controller
    NoKey = NoKey
    MAX_CACHE_SIZE = 1
    MAX_QUEUE_SIZE_PER_KEY = 1
    COUNTER_MOD = 1
    NoIndex = NoIndex
    EMPTY = EMPTY
    SERIAL_WRITES = TRUE
    FAST_LOOP = TRUE
    MAX_LOSSES = 0
    OPS = {"READ", "WRITE"}
    MAX_INSTALLS = 1
    MAX_RESENDS = 0
SYMMETRY Symmetry
INVARIANTS
    NeverWrongKey
CHECK_DEADLOCK FALSE
