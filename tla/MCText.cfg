SPECIFICATION Spec
CONSTANT MaxPieces = 5
INVARIANTS
    Lines
    Requests
    Copies
    Links
    Words
    Asked
CHECK_DEADLOCK FALSE
