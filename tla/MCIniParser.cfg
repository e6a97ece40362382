SPECIFICATION Spec
CONSTANTS
    Object = {p, q}
    MaxStores = 2
    MaxFills = 2
    File <- MCFile
    Lines <- MCLines
    Requests <- MCRequests
INVARIANTS
    TypeOK
    DamageOnlyByAssignment
    ValueIsOfItsSection
    MainCatchesAll
PROPERTY CopiesAreIndependent
SYMMETRY Symmetry
CHECK_DEADLOCK FALSE
