SPECIFICATION FairSpec
CONSTANTS
    u = u
    v = v
    q = q
    x = x
    y = y
    Url = {u, v, q}
    Word = {x, y}
    Quoted = {q}
    s1 = s1
    s2 = s2
    acceptor = acceptor
    Slot = {s1, s2}
    Row <- MCRow
    Request <- MCRequest
    Limit <- MCLimit
INVARIANTS
    OnlyCompletePages
CHECK_DEADLOCK FALSE
