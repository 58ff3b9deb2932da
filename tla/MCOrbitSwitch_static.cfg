SPECIFICATION StaticSpec
CONSTANTS
    Hash = {h1, h2}
    Request = {r1, r2, r3, r4}
    Body = {b1}
    MAX_CACHE_SIZE = 2
    MAX_QUEUE_SIZE_PER_KEY = 2
    COUNTER_MOD = 3
    NoIndex = NoIndex
    EMPTY = EMPTY
SYMMETRY Symmetry
INVARIANTS
    ValidHasCachePacket
    QueuedWaitsForWrite
    StatsMatchTraffic
CHECK_DEADLOCK FALSE
