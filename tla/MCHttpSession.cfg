SPECIFICATION FairSpec
CONSTANTS
    Timeout = 4
    Code <- MCCode
INVARIANTS
    TypeOK
    AnswerInTime
    AbortsOnlyOnBrokenResponse
PROPERTIES
    ImplementsFetch
    ComesToAnOutcome
CHECK_DEADLOCK FALSE
