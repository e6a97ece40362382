SPECIFICATION FairSpec
CONSTANTS
    a = a
    b = b
    c = c
    d = d
    e = e
    Url <- SmallUrl
    start_url = a
    Webs <- SmallWebs
    max_depth = 2
    cores = 3
    max_threads = 2
    UIntSize = 16
INVARIANT
    ProcessedIsExact
CHECK_DEADLOCK FALSE
