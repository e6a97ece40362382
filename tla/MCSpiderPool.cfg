SPECIFICATION FairSpec
CONSTANTS
    a = a
    b = b
    c = c
    d = d
    e = e
    Url <- MCUrl
    start_url = a
    Webs <- MCWebs
    max_depth = 3
    cores = 3
    max_threads = 2
    UIntSize = 16
INVARIANTS
    TypeOK
    SleepersSeeEmptyQueue
    CrawlComplete
    DepthOnPath
    NoUseAfterDelete
    CounterNeverOver
PROPERTIES
    ImplementsFrontier
    VectorGrowsAlone
    Drains
CHECK_DEADLOCK FALSE
