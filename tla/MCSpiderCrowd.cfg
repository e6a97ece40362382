SPECIFICATION FairSpec
CONSTANTS
    a = a
    b = b
    c = c
    d = d
    e = e
    Url <- SmallUrl
    start_url = a
    Webs <- SmallWebs
    max_depth = 2
    cores = 4
    max_threads = 8
    UIntSize = 16
INVARIANT
    CrawlComplete
PROPERTY
    ImplementsFrontier
CHECK_DEADLOCK FALSE
