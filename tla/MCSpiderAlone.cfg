SPECIFICATION FairSpec
CONSTANTS
    a = a
    b = b
    c = c
    d = d
    e = e
    Url <- LongUrl
    start_url = a
    Webs <- LongWebs
    max_depth = 4
    cores = 0
    max_threads = 1
    UIntSize = 16
INVARIANT
    BreadthFirst
PROPERTY
    SoleWorkerFinishes
CHECK_DEADLOCK FALSE
