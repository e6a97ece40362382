SPECIFICATION FairSpec
CONSTANTS
    u = u
    v = v
    x = x
    y = y
    z = z
    Url = {u, v}
    Word = {x, y, z}
    LongUrl = {}
    LongWord = {z}
    SerialSize = 2
    Pages <- MCPages
INVARIANTS
    TypeOK
    CleanPageIsComplete
PROPERTIES
    RowsAreOfTheirPage
    ImplementsIndex
    IndexingEnds
CHECK_DEADLOCK FALSE
