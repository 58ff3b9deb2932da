SPECIFICATION Spec
CONSTANTS
    Hash = {h1}
    Request = {r1, r2, r3, r4}
    Body = {b1}
    MAX_CACHE_SIZE = 2
    MAX_QUEUE_SIZE_PER_KEY = 2
    COUNTER_MOD = 1
    NoIndex = NoIndex
    EMPTY = EMPTY
SYMMETRY Symmetry
INVARIANTS
    TypeOK
    QueueWindow
    AtMostOnePlace
PROPERTIES
    NeverForgotten
    RefinesQueue
CHECK_DEADLOCK FALSE
