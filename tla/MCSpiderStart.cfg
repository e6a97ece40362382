SPECIFICATION FairSpec
CONSTANTS
    a = a
    b = b
    c = c
    d = d
    e = e
    Url <- SmallUrl
    start_url = a
    Webs <- SmallWebs
    max_depth = 2
    cores = 2
    max_threads = 2
    UIntSize = 16
PROPERTY
    WorkersStart
CHECK_DEADLOCK FALSE
