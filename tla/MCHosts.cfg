SPECIFICATION HostsSpec
CONSTANTS
    DATASET_SIZE = 7
    NUM_HOTKEYS = 2
    Weight <- Zipf
    cdf <- Cdf
    reverse_cdf <- ReverseCdf
    TOTAL <- Total
    RAND_MAX = 60
    a = a
    b = b
    c = c
    d = d
    None = None
    NoKey = NoKey
    NoAddress = NoAddress
    k1 = k1
    k2 = k2
    r1 = r1
    r2 = r2
    r3 = r3
INVARIANTS
    TypeOK
    SearchWindow
    DrawIsQuantile
    NothingUnderestimated
    RecentFindable
    CountersAgree
    StoredWhereSought
    InvalidWhileWriting
    AnsweredOnce
PROPERTIES
    OverloadReported
    CollisionsResolved
    NoCacheRefines
    LoopsEnd
    EveryRequestAnswered
CHECK_DEADLOCK FALSE
